-------------------------- MODULE MerkleRamProofs --------------------------
(***************************************************************************)
(* Proofs about the Merkle-tree RAM, for every size that is a power of two *)
(* and every set of words.                                                 *)
(***************************************************************************)
EXTENDS MerkleRam, NatLemmas, TLAPS

-----------------------------------------------------------------------------
(***************************************************************************)
(* Powers of two and the levels of the tree                                *)
(***************************************************************************)

LEMMA Pow2Recursion ==
    /\ Pow2 \in [Nat -> Nat]
    /\ Pow2[0] = 1
    /\ \A n \in Nat : Pow2[n + 1] = 2 * Pow2[n]
<1> DEFINE D == [n \in Nat |-> [v \in Nat |-> 2 * v]]
           E(f) == [n \in Nat |-> IF n = 0 THEN 1 ELSE 2 * f[n - 1]]
<1>1. D \in [Nat -> [Nat -> Nat]] /\ 1 \in Nat
  OBVIOUS
<1>2. PICK f : Solves(f, Nat, 1, D)
  <2> HIDE DEF D
  <2>1. QED BY <1>1, PrimitiveRecursion, Zenon
<1>3. \A n \in Nat : f[n] = IF n = 0 THEN 1 ELSE 2 * f[n - 1]
  <2> SUFFICES ASSUME NEW n \in Nat, n # 0 PROVE f[n] = 2 * f[n - 1]
    BY <1>2, Zenon DEF Solves
  <2>1. n - 1 \in Nat /\ (n - 1) + 1 = n
    OBVIOUS
  <2>2. f[(n - 1) + 1] = D[n - 1][f[n - 1]] /\ f[n - 1] \in Nat
    BY <1>2, <2>1, Zenon DEF Solves
  <2>3. QED BY <2>1, <2>2, Zenon
<1>4. f = E(f)
  BY <1>2, <1>3, Zenon DEF Solves
<1>5. Pow2 = E(Pow2)
  <2>1. Pow2 = CHOOSE g : g = E(g)
    BY Zenon DEF Pow2
  <2> HIDE DEF E
  <2>2. QED BY <1>4, <2>1, Zenon
<1>6. /\ DOMAIN Pow2 = Nat
      /\ \A n \in Nat : Pow2[n] = IF n = 0 THEN 1 ELSE 2 * Pow2[n - 1]
  <2> DEFINE P == Pow2
  <2>1. P = E(P)
    BY <1>5, Zenon
  <2> HIDE DEF P
  <2>2. /\ DOMAIN P = Nat
        /\ \A n \in Nat : P[n] = IF n = 0 THEN 1 ELSE 2 * P[n - 1]
    BY <2>1, Zenon
  <2>3. QED BY <2>2, Zenon DEF P
<1>7. \A n \in Nat : Pow2[n + 1] = 2 * Pow2[n]
  <2> SUFFICES ASSUME NEW n \in Nat PROVE Pow2[n + 1] = 2 * Pow2[n]
    BY Zenon
  <2>1. n + 1 \in Nat /\ n + 1 # 0 /\ (n + 1) - 1 = n
    OBVIOUS
  <2>2. QED BY <1>6, <2>1, Zenon
<1> DEFINE S == {n \in Nat : Pow2[n] \in Nat}
<1>8. 0 \in S
  BY <1>6, Zenon
<1>9. ASSUME NEW n \in Nat, n \in S PROVE n + 1 \in S
  BY <1>7, <1>9
<1> HIDE DEF S
<1>10. \A n \in Nat : n \in S
  BY <1>8, <1>9, SetInduction, Zenon
<1>11. \A n \in Nat : Pow2[n] \in Nat
  BY <1>10, Zenon DEF S
<1>12. Pow2 = [n \in Nat |-> Pow2[n]]
  <2> DEFINE P == Pow2
  <2>1. P = E(P)
    BY <1>5, Zenon
  <2> HIDE DEF P
  <2>2. P = [n \in Nat |-> P[n]]
    BY <2>1, Zenon
  <2>3. QED BY <2>2, Zenon DEF P
<1>13. Pow2 \in [Nat -> Nat]
  BY <1>11, <1>12, Zenon
<1>14. QED BY <1>6, <1>7, <1>13, Zenon

LEMMA Pow2Positive == \A n \in Nat : Pow2[n] \in Nat /\ Pow2[n] >= 1
<1> DEFINE S == {n \in Nat : Pow2[n] >= 1}
<1>1. 0 \in S
  BY Pow2Recursion
<1>2. ASSUME NEW n \in Nat, n \in S PROVE n + 1 \in S
  BY <1>2, Pow2Recursion
<1> HIDE DEF S
<1>3. \A n \in Nat : n \in S
  BY <1>1, <1>2, SetInduction, Zenon
<1>4. QED BY <1>3, Pow2Recursion, Zenon DEF S

\* Two levels of the tree start at least the size of the upper one apart.
LEMMA Pow2Apart == \A m, n \in Nat : m < n => 2 * Pow2[m] =< Pow2[n]
<1> SUFFICES ASSUME NEW m \in Nat
             PROVE  \A n \in Nat : m < n => 2 * Pow2[m] =< Pow2[n]
  BY Zenon
<1> DEFINE S == {n \in Nat : m < n => 2 * Pow2[m] =< Pow2[n]}
<1>1. 0 \in S
  OBVIOUS
<1>2. ASSUME NEW n \in Nat, n \in S PROVE n + 1 \in S
  <2>1. Pow2[n + 1] = 2 * Pow2[n] /\ Pow2[m] \in Nat /\ Pow2[n] \in Nat
    BY Pow2Recursion, Zenon
  <2>2. CASE m < n
    BY <1>2, <2>1, <2>2
  <2>3. CASE m = n
    BY <2>1, <2>3
  <2>4. CASE n < m
    BY <2>4
  <2>5. QED BY <2>2, <2>3, <2>4
<1> HIDE DEF S
<1>3. \A n \in Nat : n \in S
  BY <1>1, <1>2, SetInduction, Zenon
<1>4. QED BY <1>3, Zenon DEF S

\* The leaves are the last level, below the root.
LEMMA LevelFacts ==
    /\ NumLevels \in Nat /\ NumLevels >= 2
    /\ Pow2[NumLevels - 1] = NumAddresses
    /\ NumAddresses \in Nat /\ NumAddresses >= 2
<1>1. PICK k \in 1 .. NumAddresses : Pow2[k] = NumAddresses
  BY MerkleRamAssumptions, Zenon
<1>2. NumAddresses \in Nat
  BY MerkleRamAssumptions, Zenon
<1>3. k + 1 \in 1 .. NumAddresses + 1 /\ (k + 1) - 1 = k
  BY <1>1, <1>2
<1>4. \E l \in 1 .. NumAddresses + 1 : Pow2[l - 1] = NumAddresses
  BY <1>1, <1>3, Zenon
<1>5. NumLevels \in 1 .. NumAddresses + 1 /\ Pow2[NumLevels - 1] = NumAddresses
  BY <1>4, Zenon DEF NumLevels
<1>6. NumAddresses >= 2
  <2>1. 2 * Pow2[0] =< Pow2[k]
    BY <1>1, <1>2, Pow2Apart
  <2>2. QED BY <1>1, <2>1, Pow2Recursion
<1>7. NumLevels # 1
  BY <1>5, <1>6, Pow2Recursion
<1>8. QED BY <1>2, <1>5, <1>6, <1>7

\* The levels above and below a level make up the whole tree.
LEMMA Pow2Product == \A l \in Levels : Pow2[l] * Pow2[NumLevels - l - 1] = NumAddresses
<1> DEFINE S == {l \in Nat : l =< NumLevels - 1 => Pow2[l] * Pow2[NumLevels - l - 1] = NumAddresses}
<1>1. 0 \in S
  BY LevelFacts, Pow2Recursion
<1>2. ASSUME NEW l \in Nat, l \in S PROVE l + 1 \in S
  <2> SUFFICES ASSUME l + 1 =< NumLevels - 1
               PROVE  Pow2[l + 1] * Pow2[NumLevels - (l + 1) - 1] = NumAddresses
    OBVIOUS
  <2>1. PICK k \in Nat : k = NumLevels - (l + 1) - 1
    BY LevelFacts
  <2>2. k + 1 = NumLevels - l - 1
    BY <2>1, LevelFacts
  <2>3. Pow2[l] * Pow2[k + 1] = NumAddresses
    BY <1>2, <2>2, LevelFacts
  <2>4. PICK p \in Nat, q \in Nat : p = Pow2[l] /\ q = Pow2[k]
    BY Pow2Recursion, Zenon
  <2>5. Pow2[l + 1] = 2 * p /\ Pow2[k + 1] = 2 * q
    BY <2>4, Pow2Recursion, Zenon
  <2>6. (2 * p) * q = p * (2 * q)
    OBVIOUS
  <2>7. QED BY <2>1, <2>3, <2>4, <2>5, <2>6, Zenon
<1> HIDE DEF S
<1>3. \A l \in Nat : l \in S
  BY <1>1, <1>2, SetInduction, Zenon
<1>4. QED BY <1>3, LevelFacts DEF S, Levels

\* No node of a full level is outside the tree.
LEMMA InsideTree ==
    ASSUME NEW l \in Levels, NEW x \in Nat
    PROVE  Outside(x, l) <=> x >= Pow2[l]
<1>1. l \in Nat /\ NumLevels - l - 1 \in Nat
  BY LevelFacts DEF Levels
<1>2. PICK p \in Nat, q \in Nat : p = Pow2[l] /\ q = Pow2[NumLevels - l - 1] /\ q >= 1
  BY <1>1, Pow2Positive, Zenon
<1>3. q * p = NumAddresses
  BY <1>2, Pow2Product
<1>4. ASSUME x >= p PROVE x * q >= NumAddresses
  <2>1. q * p =< q * x
    BY <1>4, TimesMonotone
  <2>2. QED BY <1>3, <2>1
<1>5. ASSUME ~(x >= p) PROVE ~(x * q >= NumAddresses)
  <2>1. q * (x + 1) =< q * p
    BY <1>5, TimesMonotone
  <2>2. q * (x + 1) = x * q + q
    OBVIOUS
  <2>3. x * q \in Nat
    OBVIOUS
  <2>4. QED BY <1>2, <1>3, <2>1, <2>2, <2>3
<1>6. QED BY <1>2, <1>4, <1>5, Zenon DEF Outside

\* The path of an address: its leaf, then from each node to its parent.
LEMMA ShiftedFacts ==
    ASSUME NEW a \in 0 .. NumAddresses - 1
    PROVE  /\ Shifted(a, NumLevels - 1) = a
           /\ \A l \in Levels : Shifted(a, l) \in 0 .. Pow2[l] - 1
           /\ \A l \in Levels : l # NumLevels - 1
                => Shifted(a, l) = Shifted(a, l + 1) \div 2
<1>1. a \in Nat /\ a < NumAddresses
  BY LevelFacts
<1>2. Shifted(a, NumLevels - 1) = a
  <2>1. NumLevels - (NumLevels - 1) - 1 = 0
    BY LevelFacts
  <2>2. a \div 1 = a
    BY <1>1
  <2>3. QED BY <2>1, <2>2, Pow2Recursion, Zenon DEF Shifted
<1>3. ASSUME NEW l \in Levels, l # NumLevels - 1
      PROVE  Shifted(a, l) = Shifted(a, l + 1) \div 2
  <2>1. PICK k \in Nat : k = NumLevels - (l + 1) - 1
    BY <1>3, LevelFacts DEF Levels
  <2>2. k + 1 = NumLevels - l - 1
    BY <1>3, <2>1, LevelFacts DEF Levels
  <2>3. Pow2[k] \in Nat /\ Pow2[k] >= 1 /\ Pow2[k + 1] = 2 * Pow2[k]
    BY Pow2Positive, Pow2Recursion, Zenon
  <2>4. (a \div Pow2[k]) \div 2 = a \div (2 * Pow2[k])
    BY <1>1, <2>3, DivHalves, Zenon
  <2>5. QED BY <2>1, <2>2, <2>3, <2>4, Zenon DEF Shifted
<1> DEFINE S == {k \in Nat : k =< NumLevels - 1
                   => Shifted(a, NumLevels - 1 - k) \in 0 .. Pow2[NumLevels - 1 - k] - 1}
<1>4. 0 \in S
  BY <1>1, <1>2, LevelFacts
<1>5. ASSUME NEW k \in Nat, k \in S PROVE k + 1 \in S
  <2> SUFFICES ASSUME k + 1 =< NumLevels - 1
               PROVE  Shifted(a, NumLevels - 1 - (k + 1)) \in 0 .. Pow2[NumLevels - 1 - (k + 1)] - 1
    OBVIOUS
  <2>1. PICK l \in Levels : l = NumLevels - 1 - (k + 1) /\ l # NumLevels - 1
    BY LevelFacts DEF Levels
  <2>2. l + 1 = NumLevels - 1 - k /\ l \in Nat
    BY <2>1, LevelFacts
  <2>3. Shifted(a, l + 1) \in 0 .. Pow2[l + 1] - 1
    BY <1>5, <2>2, LevelFacts
  <2>4. PICK p \in Nat : p = Pow2[l] /\ Pow2[l + 1] = 2 * p
    BY <2>2, Pow2Recursion, Zenon
  <2>5. \A y \in 0 .. 2 * p - 1 : y \div 2 \in 0 .. p - 1
    OBVIOUS
  <2>6. QED BY <1>3, <2>1, <2>3, <2>4, <2>5, Zenon
<1> HIDE DEF S
<1>6. \A k \in Nat : k \in S
  BY <1>4, <1>5, SetInduction, Zenon
<1>7. ASSUME NEW l \in Levels PROVE Shifted(a, l) \in 0 .. Pow2[l] - 1
  <2>1. PICK k \in Nat : k = NumLevels - 1 - l
    BY LevelFacts DEF Levels
  <2>2. NumLevels - 1 - k = l /\ k =< NumLevels - 1
    BY <2>1, LevelFacts DEF Levels
  <2>3. QED BY <1>6, <2>2, Zenon DEF S
<1>8. QED BY <1>2, <1>3, <1>7, Zenon

\* The ancestors of a node of the path are the nodes of the path above it.
LEMMA AncestorOnPath ==
    ASSUME NEW a \in 0 .. NumAddresses - 1, NEW l \in Levels, NEW m \in 0 .. l
    PROVE  Shifted(a, l) \div Pow2[l - m] = Shifted(a, m)
<1>1. l \in Nat /\ l =< NumLevels - 1 /\ NumLevels \in Nat
  BY LevelFacts DEF Levels
<1>2. PICK x \in Nat : x = Shifted(a, l)
  <2>1. Pow2[l] \in Nat
    BY <1>1, Pow2Recursion, Zenon
  <2>2. QED BY <2>1, ShiftedFacts
<1> DEFINE S == {k \in Nat : k =< l => x \div Pow2[k] = Shifted(a, l - k)}
<1>3. 0 \in S
  <2>1. x \div 1 = x
    OBVIOUS
  <2>2. QED BY <1>1, <1>2, <2>1, Pow2Recursion
<1>4. ASSUME NEW k \in Nat, k \in S PROVE k + 1 \in S
  <2> SUFFICES ASSUME k + 1 =< l PROVE x \div Pow2[k + 1] = Shifted(a, l - (k + 1))
    OBVIOUS
  <2>1. Pow2[k] \in Nat /\ Pow2[k] >= 1 /\ Pow2[k + 1] = 2 * Pow2[k]
    BY Pow2Positive, Pow2Recursion, Zenon
  <2>2. (x \div Pow2[k]) \div 2 = x \div Pow2[k + 1]
    BY <2>1, DivHalves, Zenon
  <2>3. x \div Pow2[k] = Shifted(a, l - k)
    BY <1>1, <1>4
  <2>4. l - (k + 1) \in Levels /\ l - (k + 1) # NumLevels - 1 /\ (l - (k + 1)) + 1 = l - k
    BY <1>1 DEF Levels
  <2>5. Shifted(a, l - (k + 1)) = Shifted(a, l - k) \div 2
    BY <2>4, ShiftedFacts, Zenon
  <2>6. QED BY <2>2, <2>3, <2>5, Zenon
<1> HIDE DEF S
<1>5. \A k \in Nat : k \in S
  BY <1>3, <1>4, SetInduction, Zenon
<1>6. l - m \in Nat /\ l - m =< l /\ l - (l - m) = m
  BY <1>1
<1>7. QED BY <1>2, <1>5, <1>6, Zenon DEF S

\* Where a node is in the cache: its children, and whether it is a leaf.
LEMMA HCIndexFacts ==
    ASSUME NEW l \in Levels, NEW x \in 0 .. Pow2[l] - 1
    PROVE  /\ HCIndex(x, l) \in Nodes
           /\ l = NumLevels - 1 <=> HCIndex(x, l) >= NumAddresses - 1
           /\ l = NumLevels - 1 => HCIndex(x, l) - (NumAddresses - 1) = x
           /\ l # NumLevels - 1 =>
                /\ l + 1 \in Levels
                /\ 2 * x \in 0 .. Pow2[l + 1] - 1
                /\ 2 * x + 1 \in 0 .. Pow2[l + 1] - 1
                /\ HCIndex(2 * x, l + 1) = 2 * HCIndex(x, l) + 1
                /\ HCIndex(2 * x + 1, l + 1) = 2 * HCIndex(x, l) + 2
<1>1. l \in Nat /\ l =< NumLevels - 1 /\ NumLevels \in Nat /\ NumAddresses \in Nat
  BY LevelFacts DEF Levels
<1>2. PICK p \in Nat : p = Pow2[l] /\ p >= 1 /\ Pow2[l + 1] = 2 * p
  BY <1>1, Pow2Positive, Pow2Recursion, Zenon
<1>3. CASE l = NumLevels - 1
  <2>1. p = NumAddresses
    BY <1>2, <1>3, LevelFacts, Zenon
  <2>2. QED BY <1>1, <1>2, <1>3, <2>1 DEF HCIndex, Nodes
<1>4. CASE l # NumLevels - 1
  <2>1. l < NumLevels - 1 /\ NumLevels - 1 \in Nat
    BY <1>1, <1>4
  <2>2. 2 * p =< NumAddresses
    BY <1>1, <1>2, <2>1, Pow2Apart, LevelFacts, Zenon
  <2>3. l + 1 \in Levels
    BY <1>1, <2>1 DEF Levels
  <2>4. x \in Nat /\ x =< p - 1
    BY <1>2
  <2>5. HCIndex(x, l) = p - 1 + x /\ \A y \in Int : HCIndex(y, l + 1) = 2 * p - 1 + y
    BY <1>2, Zenon DEF HCIndex
  <2>6. QED BY <1>1, <1>2, <1>4, <2>2, <2>3, <2>4, <2>5 DEF Nodes
<1>5. QED BY <1>3, <1>4, Zenon

\* Two nodes have two places in the cache.
LEMMA HCIndexUnique ==
    ASSUME NEW l \in Levels, NEW x \in 0 .. Pow2[l] - 1,
           NEW m \in Levels, NEW y \in 0 .. Pow2[m] - 1,
           HCIndex(x, l) = HCIndex(y, m)
    PROVE  l = m /\ x = y
<1>1. l \in Nat /\ m \in Nat
  BY LevelFacts DEF Levels
<1>2. PICK p \in Nat, q \in Nat : p = Pow2[l] /\ q = Pow2[m]
  BY <1>1, Pow2Recursion, Zenon
<1>3. x \in Nat /\ x < p /\ y \in Nat /\ y < q /\ p + x = q + y
  BY <1>2 DEF HCIndex
<1>4. ~(l < m)
  <2> SUFFICES ASSUME l < m PROVE FALSE
    BY Zenon
  <2>1. 2 * p =< q
    BY <1>1, <1>2, Pow2Apart, Zenon
  <2>2. QED BY <1>3, <2>1
<1>5. ~(m < l)
  <2> SUFFICES ASSUME m < l PROVE FALSE
    BY Zenon
  <2>1. 2 * q =< p
    BY <1>1, <1>2, Pow2Apart, Zenon
  <2>2. QED BY <1>3, <2>1
<1>6. l = m
  BY <1>1, <1>4, <1>5
<1>7. QED BY <1>2, <1>3, <1>6

\* Every place in the cache is that of a node.
LEMMA NodeHasPlace ==
    \A i \in Nodes : \E l \in Levels, x \in Nat :
      x \in 0 .. Pow2[l] - 1 /\ HCIndex(x, l) = i
<1> DEFINE P(i, n) == \E l \in Nat, x \in Nat :
                        l < n /\ x \in 0 .. Pow2[l] - 1 /\ HCIndex(x, l) = i
           S == {n \in Nat : \A i \in 0 .. Pow2[n] - 2 : P(i, n)}
<1>1. 0 \in S
  BY Pow2Recursion
<1>2. ASSUME NEW n \in Nat, n \in S PROVE n + 1 \in S
  <2> SUFFICES ASSUME NEW i \in 0 .. Pow2[n + 1] - 2 PROVE P(i, n + 1)
    OBVIOUS
  <2>1. PICK p \in Nat : p = Pow2[n] /\ p >= 1 /\ Pow2[n + 1] = 2 * p
    BY Pow2Positive, Pow2Recursion, Zenon
  <2>2. CASE i =< p - 2
    <3>1. i \in 0 .. Pow2[n] - 2
      BY <2>1, <2>2
    <3>2. P(i, n)
      BY <1>2, <3>1, Zenon
    <3>3. QED BY <3>2
  <2>3. CASE i >= p - 1
    <3>1. PICK x \in Nat : x = i - (p - 1)
      BY <2>1, <2>3
    <3>2. x \in 0 .. p - 1 /\ HCIndex(x, n) = i /\ n < n + 1
      BY <2>1, <3>1 DEF HCIndex
    <3>3. QED BY <2>1, <3>2, Zenon
  <2>4. QED BY <2>1, <2>2, <2>3
<1> HIDE DEF S
<1>3. \A n \in Nat : n \in S
  BY <1>1, <1>2, SetInduction, Zenon
<1>4. NumLevels \in S /\ NumLevels \in Nat
  BY <1>3, LevelFacts, Zenon
<1>5. Pow2[NumLevels] = 2 * NumAddresses
  <2>1. NumLevels - 1 \in Nat /\ (NumLevels - 1) + 1 = NumLevels
    BY LevelFacts
  <2>2. Pow2[(NumLevels - 1) + 1] = 2 * Pow2[NumLevels - 1]
    BY <2>1, Pow2Recursion, Zenon
  <2>3. QED BY <2>1, <2>2, LevelFacts, Zenon
<1>6. ASSUME NEW i \in Nodes PROVE P(i, NumLevels)
  BY <1>4, <1>5, Zenon DEF S, Nodes
<1>7. QED BY <1>4, <1>6 DEF Levels

-----------------------------------------------------------------------------
(***************************************************************************)
(* What updateSubtree returns and caches                                   *)
(***************************************************************************)

\* The hash of one node, and those of a level, from the hashes h of the level
\* below.
HashAt(cache, st, h, level, addr) ==
    IF Outside(addr, level) THEN EmptyHash
    ELSE IF HCIndex(addr, level) \in DOMAIN cache
    THEN cache[HCIndex(addr, level)]
    ELSE IF level = NumLevels - 1 THEN HashValue(Cell(st, addr))
    ELSE HashChildren(h[level + 1][2 * addr], h[level + 1][2 * addr + 1])

HashLevel(cache, st, h, level) ==
    [addr \in 0 .. NumAddresses - 1 |-> HashAt(cache, st, h, level, addr)]

\* The recursion of updateSubtree ends at the leaves: it has a solution.
LEMMA SubtreeRecursion ==
    ASSUME NEW cache, NEW st
    PROVE  SubtreeHashes(cache, st)
             = [level \in Levels |-> HashLevel(cache, st, SubtreeHashes(cache, st), level)]
<1>0. NumLevels \in Nat /\ NumLevels >= 2 /\ Levels = 0 .. NumLevels - 1
  BY LevelFacts, Zenon DEF Levels
<1>1. ASSUME NEW g, NEW h, NEW l \in Levels, l = NumLevels - 1 \/ g[l + 1] = h[l + 1]
      PROVE  HashLevel(cache, st, g, l) = HashLevel(cache, st, h, l)
  BY <1>1, Zenon DEF HashLevel, HashAt
<1> DEFINE Row(h, l) == HashLevel(cache, st, h, l)
           S == {k \in Nat : k =< NumLevels - 1
                   => \E h : \A l \in Levels : l >= NumLevels - 1 - k => h[l] = Row(h, l)}
<1> HIDE DEF Row
<1>2. ASSUME NEW g, NEW h, NEW l \in Levels, l = NumLevels - 1 \/ g[l + 1] = h[l + 1]
      PROVE  Row(g, l) = Row(h, l)
  BY <1>1, <1>2, Zenon DEF Row
<1>3. 0 \in S
  <2> DEFINE h == [l \in Levels |-> Row(<<>>, l)]
  <2>1. ASSUME NEW l \in Levels, l >= NumLevels - 1 - 0 PROVE h[l] = Row(h, l)
    <3>1. l = NumLevels - 1
      BY <1>0, <2>1
    <3>2. h[l] = Row(<<>>, l)
      BY Zenon
    <3> HIDE DEF h
    <3>3. QED BY <1>2, <3>1, <3>2, Zenon
  <2> HIDE DEF h
  <2>2. QED BY <2>1, Zenon
<1>4. ASSUME NEW k \in Nat, k \in S PROVE k + 1 \in S
  <2> SUFFICES ASSUME k + 1 =< NumLevels - 1
               PROVE  \E h : \A l \in Levels : l >= NumLevels - 1 - (k + 1) => h[l] = Row(h, l)
    OBVIOUS
  <2>1. k =< NumLevels - 1
    BY <1>0
  <2>2. PICK g : \A l \in Levels : l >= NumLevels - 1 - k => g[l] = Row(g, l)
    BY <1>4, <2>1, Zenon
  <2> DEFINE h == [l \in Levels |-> Row(g, l)]
  <2>3. \A l \in Levels : h[l] = Row(g, l)
    BY Zenon
  <2> HIDE DEF h
  <2>4. ASSUME NEW l \in Levels, l >= NumLevels - 1 - (k + 1) PROVE h[l] = Row(h, l)
    <3>1. CASE l = NumLevels - 1
      BY <1>2, <2>3, <3>1, Zenon
    <3>2. CASE l # NumLevels - 1
      <4>1. l + 1 \in Levels /\ l + 1 >= NumLevels - 1 - k
        BY <1>0, <2>4, <3>2
      <4>2. h[l + 1] = g[l + 1]
        BY <2>2, <2>3, <4>1, Zenon
      <4>3. QED BY <1>2, <2>3, <4>2, Zenon
    <3>3. QED BY <3>1, <3>2, Zenon
  <2>5. QED BY <2>4, Zenon
<1>5. NumLevels - 1 \in S
  <2> HIDE DEF S
  <2>1. \A k \in Nat : k \in S
    BY <1>3, <1>4, SetInduction, Zenon
  <2>2. QED BY <1>0, <2>1
<1>6. PICK g : \A l \in Levels : g[l] = Row(g, l)
  <2>1. \A l \in Levels : l >= NumLevels - 1 - (NumLevels - 1)
    BY <1>0
  <2>2. QED BY <1>0, <1>5, <2>1
<1> DEFINE E(h) == [l \in Levels |-> Row(h, l)]
<1>7. \E h : h = E(h)
  <2>1. \A l \in Levels : E(g)[l] = g[l]
    BY <1>6, Zenon
  <2>2. ASSUME NEW l \in Levels PROVE Row(g, l) = Row(E(g), l)
    <3>1. l = NumLevels - 1 \/ l + 1 \in Levels
      BY <1>0
    <3>2. l = NumLevels - 1 \/ g[l + 1] = E(g)[l + 1]
      BY <2>1, <3>1, Zenon
    <3> HIDE DEF E
    <3>3. QED BY <1>2, <3>2, Zenon
  <2>3. E(g) = E(E(g))
    BY <2>2, Zenon
  <2>4. QED BY <2>3, Zenon
<1>8. SubtreeHashes(cache, st) = CHOOSE h : h = E(h)
  BY Zenon DEF SubtreeHashes, Row, HashLevel, HashAt
<1> HIDE DEF E
<1>9. SubtreeHashes(cache, st) = E(SubtreeHashes(cache, st))
  BY <1>7, <1>8, Zenon
<1>10. QED BY <1>9, Zenon DEF E, Row

\* No node below a cached one is missing: updateSubtree stops at a cached node.
Closed(cache) ==
    \A l \in Levels, x \in Nat :
      x \in 0 .. Pow2[l] - 1 /\ HCIndex(x, l) \notin DOMAIN cache
      => \A m \in 0 .. l : HCIndex(x \div Pow2[l - m], m) \notin DOMAIN cache

\* What a node has in the cache new that updateSubtree leaves, if the cache was old.
Refilled(old, new, st, l, x) ==
    new[HCIndex(x, l)] =
      IF HCIndex(x, l) \in DOMAIN old THEN old[HCIndex(x, l)]
      ELSE IF l = NumLevels - 1 THEN HashValue(Cell(st, x))
      ELSE HashChildren(new[2 * HCIndex(x, l) + 1], new[2 * HCIndex(x, l) + 2])

\* updateSubtree(0, 0) fills the cache, keeps what was cached, and returns the
\* hash of the root.
LEMMA UpdateSubtree ==
    ASSUME NEW cache, NEW st, DOMAIN cache \subseteq Nodes, Closed(cache)
    PROVE  LET u == updateSubtree(cache, st)
           IN /\ DOMAIN u.cache = Nodes
              /\ u.hash = u.cache[0]
              /\ \A l \in Levels : \A x \in 0 .. Pow2[l] - 1 : Refilled(cache, u.cache, st, l, x)
<1> DEFINE hash == SubtreeHashes(cache, st)
           u == updateSubtree(cache, st)
           M == Missing(cache)
           put(i) == CHOOSE n \in M : HCIndex(n.addr, n.level) = i
<1>0. NumLevels \in Nat /\ NumLevels >= 2 /\ Levels = 0 .. NumLevels - 1 /\ NumAddresses \in Nat
  BY LevelFacts, Zenon DEF Levels
<1>1. ASSUME NEW l \in Levels PROVE Pow2[l] \in Nat /\ Pow2[l] =< NumAddresses
  <2>1. l \in Nat /\ NumLevels - 1 \in Nat /\ l =< NumLevels - 1
    BY <1>0
  <2>2. Pow2[l] \in Nat
    BY <2>1, Pow2Recursion, Zenon
  <2>3. l = NumLevels - 1 \/ 2 * Pow2[l] =< Pow2[NumLevels - 1]
    BY <2>1, Pow2Apart
  <2>4. QED BY <1>0, <2>2, <2>3, LevelFacts
<1>2. ASSUME NEW l \in Levels, NEW x \in 0 .. Pow2[l] - 1
      PROVE  x \in Nat /\ x \in 0 .. NumAddresses - 1 /\ ~Outside(x, l)
  <2>1. x \in Nat /\ x \in 0 .. NumAddresses - 1 /\ ~(x >= Pow2[l])
    BY <1>0, <1>1
  <2>2. QED BY <2>1, InsideTree, Zenon
<1>3. M = {n \in [level : Levels, addr : 0 .. NumAddresses - 1] :
             n.addr \in 0 .. Pow2[n.level] - 1 /\ HCIndex(n.addr, n.level) \notin DOMAIN cache}
  <2>1. ASSUME NEW n \in [level : Levels, addr : 0 .. NumAddresses - 1], n \in M
        PROVE  n.addr \in 0 .. Pow2[n.level] - 1 /\ HCIndex(n.addr, n.level) \notin DOMAIN cache
    <3>1. n.addr \in Nat /\ n.level \in Levels /\ n.level \in Nat
      BY <1>0
    <3>2. n.addr < Pow2[n.level] /\ Pow2[n.level] \in Nat
      <4>1. ~Outside(n.addr, n.level)
        BY <2>1, Zenon DEF Missing
      <4>2. ~(n.addr >= Pow2[n.level])
        BY <3>1, <4>1, InsideTree, Zenon
      <4>3. Pow2[n.level] \in Nat
        BY <1>1, <3>1, Zenon
      <4>4. QED BY <3>1, <4>2, <4>3
    <3>3. HCIndex(n.addr \div Pow2[n.level - n.level], n.level) \notin DOMAIN cache
      BY <2>1, <3>1 DEF Missing
    <3>4. n.addr \div Pow2[n.level - n.level] = n.addr
      <4>1. n.level - n.level = 0 /\ n.addr \div 1 = n.addr
        BY <3>1
      <4>2. QED BY <4>1, Pow2Recursion, Zenon
    <3>5. QED BY <3>1, <3>2, <3>3, <3>4
  <2>2. ASSUME NEW n \in [level : Levels, addr : 0 .. NumAddresses - 1],
               n.addr \in 0 .. Pow2[n.level] - 1, HCIndex(n.addr, n.level) \notin DOMAIN cache
        PROVE  n \in M
    <3>1. n.addr \in Nat /\ n.level \in Levels
      BY <1>0
    <3>2. ~Outside(n.addr, n.level)
      BY <1>2, <2>2, <3>1, Zenon
    <3>3. \A m \in 0 .. n.level : HCIndex(n.addr \div Pow2[n.level - m], m) \notin DOMAIN cache
      BY <2>2, <3>1, Zenon DEF Closed
    <3>4. QED BY <3>2, <3>3, Zenon DEF Missing
  <2>3. M \subseteq [level : Levels, addr : 0 .. NumAddresses - 1]
    BY Zenon DEF Missing
  <2> HIDE DEF M
  <2>4. QED BY <2>1, <2>2, <2>3, Zenon
<1>4. /\ u.hash = hash[0][0]
      /\ DOMAIN u.cache = DOMAIN cache \cup {HCIndex(n.addr, n.level) : n \in M}
      /\ \A i \in DOMAIN u.cache :
           u.cache[i] = IF i \in DOMAIN cache THEN cache[i]
                        ELSE hash[put(i).level][put(i).addr]
  BY Zenon DEF updateSubtree
<1>5. ASSUME NEW l \in Levels, NEW x \in 0 .. Pow2[l] - 1
      PROVE  hash[l][x] = HashAt(cache, st, hash, l, x)
  <2>1. x \in 0 .. NumAddresses - 1
    BY <1>2, Zenon
  <2>2. hash[l] = HashLevel(cache, st, hash, l)
    <3>1. hash = [level \in Levels |-> HashLevel(cache, st, hash, level)]
      BY SubtreeRecursion, Zenon
    <3> HIDE DEF hash
    <3>2. QED BY <3>1, Zenon
  <2> HIDE DEF hash
  <2>3. QED BY <2>1, <2>2, Zenon DEF HashLevel
<1> HIDE DEF hash, u, M
<1>6. ASSUME NEW l \in Levels, NEW x \in 0 .. Pow2[l] - 1
      PROVE  HCIndex(x, l) \in DOMAIN u.cache /\ u.cache[HCIndex(x, l)] = hash[l][x]
  <2> DEFINE i == HCIndex(x, l)
             n == [level |-> l, addr |-> x]
  <2>1. CASE i \in DOMAIN cache
    BY <1>2, <1>4, <1>5, <2>1, Zenon DEF HashAt
  <2>2. CASE i \notin DOMAIN cache
    <3>1. n \in M /\ HCIndex(n.addr, n.level) = i
      <4>1. n \in [level : Levels, addr : 0 .. NumAddresses - 1] /\ n.level = l /\ n.addr = x
        BY <1>2, Zenon
      <4>2. QED BY <1>3, <2>2, <4>1, Zenon
    <3>2. put(i) \in M /\ HCIndex(put(i).addr, put(i).level) = i
      <4> HIDE DEF n, i
      <4>1. QED BY <3>1, Zenon
    <3>3. put(i).level = l /\ put(i).addr = x
      <4> HIDE DEF put, n
      <4>1. PICK k \in M : k = put(i) /\ HCIndex(k.addr, k.level) = HCIndex(x, l)
        BY <3>2, Zenon
      <4>2. k.level \in Levels /\ k.addr \in 0 .. Pow2[k.level] - 1
        BY <1>3, Zenon
      <4>3. k.level = l /\ k.addr = x
        BY <4>1, <4>2, HCIndexUnique, Zenon
      <4>4. QED BY <4>1, <4>3, Zenon
    <3>4. i \in DOMAIN u.cache
      BY <1>4, <3>1
    <3> HIDE DEF put, n
    <3>5. QED BY <1>4, <2>2, <3>3, <3>4, Zenon
  <2>3. QED BY <2>1, <2>2, Zenon
<1>7. DOMAIN u.cache = Nodes
  <2>1. ASSUME NEW i \in DOMAIN u.cache PROVE i \in Nodes
    <3>1. CASE i \in DOMAIN cache
      BY <3>1, Zenon
    <3>2. CASE i \notin DOMAIN cache
      <4>1. PICK n \in M : i = HCIndex(n.addr, n.level)
        BY <1>4, <3>2, Zenon
      <4>2. n.level \in Levels /\ n.addr \in 0 .. Pow2[n.level] - 1
        BY <1>3, Zenon
      <4>3. QED BY <4>1, <4>2, HCIndexFacts, Zenon
    <3>3. QED BY <3>1, <3>2, Zenon
  <2>2. ASSUME NEW i \in Nodes PROVE i \in DOMAIN u.cache
    BY <1>6, NodeHasPlace, Zenon
  <2>3. QED BY <2>1, <2>2, Zenon
<1>8. u.hash = u.cache[0]
  <2>1. 0 \in Levels /\ 0 \in 0 .. Pow2[0] - 1 /\ HCIndex(0, 0) = 0
    BY <1>0, Pow2Recursion DEF HCIndex
  <2>2. QED BY <1>4, <1>6, <2>1
<1>9. ASSUME NEW l \in Levels, NEW x \in 0 .. Pow2[l] - 1
      PROVE  Refilled(cache, u.cache, st, l, x)
  <2>1. u.cache[HCIndex(x, l)] = HashAt(cache, st, hash, l, x) /\ ~Outside(x, l)
    BY <1>2, <1>5, <1>6, Zenon
  <2>2. CASE l = NumLevels - 1 \/ HCIndex(x, l) \in DOMAIN cache
    BY <2>1, <2>2, Zenon DEF Refilled, HashAt
  <2>3. CASE l # NumLevels - 1 /\ HCIndex(x, l) \notin DOMAIN cache
    <3>1. /\ hash[l + 1][2 * x] = u.cache[2 * HCIndex(x, l) + 1]
          /\ hash[l + 1][2 * x + 1] = u.cache[2 * HCIndex(x, l) + 2]
      <4>1. /\ l + 1 \in Levels
            /\ 2 * x \in 0 .. Pow2[l + 1] - 1
            /\ 2 * x + 1 \in 0 .. Pow2[l + 1] - 1
            /\ HCIndex(2 * x, l + 1) = 2 * HCIndex(x, l) + 1
            /\ HCIndex(2 * x + 1, l + 1) = 2 * HCIndex(x, l) + 2
        BY <2>3, HCIndexFacts, Zenon
      <4>2. /\ u.cache[HCIndex(2 * x, l + 1)] = hash[l + 1][2 * x]
            /\ u.cache[HCIndex(2 * x + 1, l + 1)] = hash[l + 1][2 * x + 1]
        BY <1>6, <4>1, Zenon
      <4>3. QED BY <4>1, <4>2, Zenon
    <3>2. QED BY <2>1, <2>3, <3>1, Zenon DEF Refilled, HashAt
  <2>4. QED BY <2>2, <2>3, Zenon
<1>10. QED BY <1>7, <1>8, <1>9, Zenon DEF u

\* A cache is the tree when each node of each level has the right hash.
LEMMA TreeByLevels ==
    ASSUME NEW c, NEW st, DOMAIN c = Nodes,
           \A l \in Levels : \A x \in 0 .. Pow2[l] - 1 :
             c[HCIndex(x, l)] = IF l = NumLevels - 1 THEN HashValue(Cell(st, x))
                                ELSE HashChildren(c[2 * HCIndex(x, l) + 1], c[2 * HCIndex(x, l) + 2])
    PROVE  IsTree(c, st)
<1> SUFFICES ASSUME NEW i \in Nodes
             PROVE  c[i] = IF i >= NumAddresses - 1
                           THEN HashValue(Cell(st, i - (NumAddresses - 1)))
                           ELSE HashChildren(c[2 * i + 1], c[2 * i + 2])
  BY Zenon DEF IsTree
<1>1. PICK l \in Levels, x \in Nat : x \in 0 .. Pow2[l] - 1 /\ HCIndex(x, l) = i
  BY NodeHasPlace, Zenon
<1>2. (l = NumLevels - 1 <=> i >= NumAddresses - 1)
      /\ (l = NumLevels - 1 => i - (NumAddresses - 1) = x)
  BY <1>1, HCIndexFacts, Zenon
<1>3. QED BY <1>1, <1>2, Zenon

\* The constructor of RAMImpl leaves the whole tree in the cache.
LEMMA BuiltIsTree ==
    ASSUME NEW st
    PROVE  IsTree(Built(st).cache, st) /\ Built(st).hash = Built(st).cache[0]
<1>1. DOMAIN <<>> = {}
  OBVIOUS
<1>2. DOMAIN <<>> \subseteq Nodes /\ Closed(<<>>)
  BY <1>1, Zenon DEF Closed
<1> DEFINE u == Built(st)
<1>3. /\ DOMAIN u.cache = Nodes
      /\ u.hash = u.cache[0]
      /\ \A l \in Levels : \A x \in 0 .. Pow2[l] - 1 : Refilled(<<>>, u.cache, st, l, x)
  BY <1>2, UpdateSubtree, Zenon DEF Built
<1> HIDE DEF u
<1>4. \A l \in Levels : \A x \in 0 .. Pow2[l] - 1 :
        u.cache[HCIndex(x, l)]
          = IF l = NumLevels - 1 THEN HashValue(Cell(st, x))
            ELSE HashChildren(u.cache[2 * HCIndex(x, l) + 1], u.cache[2 * HCIndex(x, l) + 2])
  BY <1>1, <1>3, Zenon DEF Refilled
<1>5. IsTree(u.cache, st)
  BY <1>3, <1>4, TreeByLevels, Zenon
<1>6. QED BY <1>3, <1>5, Zenon DEF u

-----------------------------------------------------------------------------
(***************************************************************************)
(* A put changes the path of its address and nothing else                  *)
(***************************************************************************)

Path(a) == {ShiftedIndex(a, l) : l \in Levels}

LEMMA OnPath ==
    ASSUME NEW a \in 0 .. NumAddresses - 1, NEW l \in Levels, NEW x \in 0 .. Pow2[l] - 1
    PROVE  HCIndex(x, l) \in Path(a) <=> x = Shifted(a, l)
<1>1. ASSUME HCIndex(x, l) \in Path(a) PROVE x = Shifted(a, l)
  <2>1. PICK m \in Levels : HCIndex(x, l) = HCIndex(Shifted(a, m), m)
    BY <1>1, Zenon DEF Path, ShiftedIndex
  <2>2. Shifted(a, m) \in 0 .. Pow2[m] - 1
    BY ShiftedFacts, Zenon
  <2>3. l = m /\ x = Shifted(a, m)
    BY <2>1, <2>2, HCIndexUnique, Zenon
  <2>4. QED BY <2>3, Zenon
<1>2. QED BY <1>1, Zenon DEF Path, ShiftedIndex

\* The two children of a node of the path: the next node of the path, and the
\* sibling that getSiblingHash looks up.
LEMMA PathStep ==
    ASSUME NEW a \in 0 .. NumAddresses - 1, NEW l \in Levels, l # NumLevels - 1
    PROVE  LET h == ShiftedIndex(a, l)
           IN /\ h \in Nodes /\ ~(h >= NumAddresses - 1)
              /\ SiblingIndex(a, l + 1) \in Nodes \ Path(a)
              /\ \/ /\ PathBit(a, l + 1) = 1
                    /\ SiblingIndex(a, l + 1) = 2 * h + 1
                    /\ ShiftedIndex(a, l + 1) = 2 * h + 2
                 \/ /\ PathBit(a, l + 1) # 1
                    /\ ShiftedIndex(a, l + 1) = 2 * h + 1
                    /\ SiblingIndex(a, l + 1) = 2 * h + 2
<1> DEFINE h == ShiftedIndex(a, l)
<1>0. l \in Nat /\ NumLevels \in Nat /\ l + 1 \in Levels /\ NumAddresses \in Nat
  BY LevelFacts DEF Levels
<1>1. PICK x \in Nat, y \in Nat : x = Shifted(a, l) /\ y = Shifted(a, l + 1)
  <2>1. Pow2[l] \in Nat /\ Pow2[l + 1] \in Nat
    BY <1>0, Pow2Recursion
  <2>2. QED BY <1>0, <2>1, ShiftedFacts
<1>2. x = y \div 2 /\ x \in 0 .. Pow2[l] - 1 /\ y \in 0 .. Pow2[l + 1] - 1
  BY <1>0, <1>1, ShiftedFacts, Zenon
<1>3. /\ h \in Nodes /\ ~(h >= NumAddresses - 1) /\ h = HCIndex(x, l)
      /\ 2 * x \in 0 .. Pow2[l + 1] - 1 /\ HCIndex(2 * x, l + 1) = 2 * h + 1
      /\ 2 * x + 1 \in 0 .. Pow2[l + 1] - 1 /\ HCIndex(2 * x + 1, l + 1) = 2 * h + 2
  BY <1>1, <1>2, HCIndexFacts DEF ShiftedIndex
<1>4. 2 * h + 1 \in Nodes /\ 2 * h + 2 \in Nodes /\ h \in Nat
  <2>1. h \in Nat
    BY <1>0, <1>3 DEF Nodes
  <2>2. QED BY <1>0, <1>3, <2>1, HCIndexFacts
<1>5. PathBit(a, l + 1) = y % 2
  <2>1. NumLevels - 1 - (l + 1) = NumLevels - (l + 1) - 1
    BY <1>0
  <2>2. QED BY <1>1, <2>1, Zenon DEF PathBit, Shifted
<1>6. CASE y = 2 * x + 1
  <2>1. ShiftedIndex(a, l + 1) = 2 * h + 2
    BY <1>1, <1>3, <1>6, Zenon DEF ShiftedIndex
  <2>2. (2 * h + 2) % 2 # 1 /\ (2 * h + 2) - 1 = 2 * h + 1
    BY <1>4
  <2>3. SiblingIndex(a, l + 1) = 2 * h + 1
    BY <2>1, <2>2, Zenon DEF SiblingIndex
  <2>4. PathBit(a, l + 1) = 1
    BY <1>5, <1>6
  <2>5. 2 * x # y
    BY <1>6
  <2>6. 2 * h + 1 \notin Path(a)
    BY <1>0, <1>1, <1>3, <2>5, OnPath, Zenon
  <2>7. QED BY <1>3, <1>4, <2>1, <2>3, <2>4, <2>6, Zenon
<1>7. CASE y = 2 * x
  <2>1. ShiftedIndex(a, l + 1) = 2 * h + 1
    BY <1>1, <1>3, <1>7, Zenon DEF ShiftedIndex
  <2>2. (2 * h + 1) % 2 = 1 /\ (2 * h + 1) + 1 = 2 * h + 2
    BY <1>4
  <2>3. SiblingIndex(a, l + 1) = 2 * h + 2
    BY <2>1, <2>2, Zenon DEF SiblingIndex
  <2>4. PathBit(a, l + 1) # 1
    BY <1>5, <1>7
  <2>5. 2 * x + 1 # y
    BY <1>7
  <2>6. 2 * h + 2 \notin Path(a)
    BY <1>0, <1>1, <1>3, <2>5, OnPath, Zenon
  <2>7. QED BY <1>3, <1>4, <2>1, <2>3, <2>4, <2>6, Zenon
<1>8. y = 2 * x + 1 \/ y = 2 * x
  BY <1>2
<1>9. QED BY <1>6, <1>7, <1>8, Zenon

\* The siblings of an address are nodes off its path.
LEMMA SiblingOffPath ==
    ASSUME NEW a \in 0 .. NumAddresses - 1, NEW l \in 1 .. NumLevels - 1
    PROVE  SiblingIndex(a, l) \in Nodes \ Path(a)
<1>1. l - 1 \in Levels /\ l - 1 # NumLevels - 1 /\ (l - 1) + 1 = l
  BY LevelFacts DEF Levels
<1>2. SiblingIndex(a, (l - 1) + 1) \in Nodes \ Path(a)
  BY <1>1, PathStep, Zenon
<1>3. QED BY <1>1, <1>2, Zenon

\* The cells new differ from st at address a alone.
StoredAt(new, st, a) ==
    /\ DOMAIN new = DOMAIN st \cup {a}
    /\ \A b \in DOMAIN st : b # a => new[b] = st[b]

\* u is the tree of the cells new, and the cache c off the path of a.
UpdatedAlong(u, new, c, a) ==
    /\ IsTree(u.cache, new)
    /\ u.hash = u.cache[0]
    /\ \A i \in Nodes \ Path(a) : u.cache[i] = c[i]

\* put: the store changes at one address, the path is invalidated and updated.
LEMMA PutKeepsTree ==
    ASSUME NEW c, NEW st, NEW a \in 0 .. NumAddresses - 1, IsTree(c, st),
           NEW new, StoredAt(new, st, a)
    PROVE  UpdatedAlong(updateSubtree(invalidateHashes(c, a), new), new, c, a)
<1> DEFINE old == invalidateHashes(c, a)
           u == updateSubtree(old, new)
<1>1. DOMAIN old = Nodes \ Path(a) /\ \A i \in Nodes \ Path(a) : old[i] = c[i]
  BY Zenon DEF invalidateHashes, Path, IsTree
<1>2. \A x : x # a => Cell(new, x) = Cell(st, x)
  BY Zenon DEF Cell, StoredAt
<1> HIDE DEF old
<1>3. Closed(old)
  <2> SUFFICES ASSUME NEW l \in Levels, NEW x \in Nat, x \in 0 .. Pow2[l] - 1,
                      HCIndex(x, l) \notin DOMAIN old, NEW m \in 0 .. l
               PROVE  HCIndex(x \div Pow2[l - m], m) \notin DOMAIN old
    BY Zenon DEF Closed
  <2>1. HCIndex(x, l) \in Path(a)
    BY <1>1, HCIndexFacts, Zenon
  <2>2. x = Shifted(a, l)
    BY <2>1, OnPath, Zenon
  <2>3. x \div Pow2[l - m] = Shifted(a, m)
    BY <2>2, AncestorOnPath, Zenon
  <2>4. m \in Levels
    BY LevelFacts DEF Levels
  <2>5. HCIndex(Shifted(a, m), m) \in Path(a)
    BY <2>4, Zenon DEF Path, ShiftedIndex
  <2>6. QED BY <1>1, <2>3, <2>5, Zenon
<1>4. /\ DOMAIN u.cache = Nodes
      /\ u.hash = u.cache[0]
      /\ \A l \in Levels : \A x \in 0 .. Pow2[l] - 1 : Refilled(old, u.cache, new, l, x)
  <2>1. DOMAIN old \subseteq Nodes
    BY <1>1, Zenon
  <2>2. QED BY <1>3, <2>1, UpdateSubtree, Zenon
<1> HIDE DEF u
<1>5. ASSUME NEW i \in Nodes \ Path(a) PROVE u.cache[i] = c[i]
  <2>1. PICK l \in Levels, x \in Nat : x \in 0 .. Pow2[l] - 1 /\ HCIndex(x, l) = i
    BY NodeHasPlace, Zenon
  <2>2. Refilled(old, u.cache, new, l, x)
    BY <1>4, <2>1, Zenon
  <2>3. QED BY <1>1, <2>1, <2>2, Zenon DEF Refilled
<1>6. ASSUME NEW l \in Levels, NEW x \in 0 .. Pow2[l] - 1
      PROVE  u.cache[HCIndex(x, l)]
               = IF l = NumLevels - 1 THEN HashValue(Cell(new, x))
                 ELSE HashChildren(u.cache[2 * HCIndex(x, l) + 1], u.cache[2 * HCIndex(x, l) + 2])
  <2> DEFINE i == HCIndex(x, l)
  <2>1. CASE i \in Path(a)
    BY <1>1, <1>4, <2>1, Zenon DEF Refilled
  <2>2. CASE i \notin Path(a)
    <3>1. x # Shifted(a, l) /\ i \in Nodes \ Path(a)
      BY <2>2, OnPath, HCIndexFacts, Zenon
    <3>2. u.cache[i] = c[i]
      BY <1>5, <3>1, Zenon
    <3>3. CASE l = NumLevels - 1
      <4>1. x # a
        BY <3>1, <3>3, ShiftedFacts, Zenon
      <4>2. c[i] = HashValue(Cell(st, x))
        BY <3>1, <3>3, HCIndexFacts DEF IsTree
      <4>3. QED BY <1>2, <3>2, <3>3, <4>1, <4>2, Zenon
    <3>4. CASE l # NumLevels - 1
      <4>1. c[i] = HashChildren(c[2 * i + 1], c[2 * i + 2])
        BY <3>1, <3>4, HCIndexFacts, Zenon DEF IsTree
      <4>2. /\ l + 1 \in Levels
            /\ 2 * x \in 0 .. Pow2[l + 1] - 1 /\ HCIndex(2 * x, l + 1) = 2 * i + 1
            /\ 2 * x + 1 \in 0 .. Pow2[l + 1] - 1 /\ HCIndex(2 * x + 1, l + 1) = 2 * i + 2
        BY <3>4, HCIndexFacts, Zenon
      <4>3. Shifted(a, l + 1) # 2 * x /\ Shifted(a, l + 1) # 2 * x + 1
        <5>1. Shifted(a, l) = Shifted(a, l + 1) \div 2
          BY <3>4, ShiftedFacts, Zenon
        <5>2. x \in Int
          OBVIOUS
        <5>3. (2 * x) \div 2 = x /\ (2 * x + 1) \div 2 = x
          BY <5>2
        <5>4. QED BY <3>1, <5>1, <5>3, Zenon
      <4>4. 2 * i + 1 \in Nodes \ Path(a) /\ 2 * i + 2 \in Nodes \ Path(a)
        BY <4>2, <4>3, OnPath, HCIndexFacts
      <4>5. QED BY <1>5, <3>2, <3>4, <4>1, <4>4, Zenon
    <3>5. QED BY <3>3, <3>4, Zenon
  <2>3. QED BY <2>1, <2>2, Zenon
<1>7. IsTree(u.cache, new)
  BY <1>4, <1>6, TreeByLevels, Zenon
<1>8. QED BY <1>4, <1>5, <1>7, Zenon DEF UpdatedAlong, u, old

-----------------------------------------------------------------------------
(***************************************************************************)
(* The path that the constraints recompute                                 *)
(***************************************************************************)

\* From a leaf and its siblings, genPath computes the root of the tree.
LEMMA GenPathIsRoot ==
    ASSUME NEW c, NEW st, NEW a \in 0 .. NumAddresses - 1, NEW s, IsTree(c, st),
           \A l \in 1 .. NumLevels - 1 : s[l] = c[SiblingIndex(a, l)]
    PROVE  genPath(HashValue(Cell(st, a)), a, s) = c[0]
<1>0. NumLevels \in Nat /\ NumLevels >= 2 /\ Levels = 0 .. NumLevels - 1
  BY LevelFacts, Zenon DEF Levels
<1> DEFINE leaf == HashValue(Cell(st, a))
           P == [l \in Levels |-> c[ShiftedIndex(a, l)]]
           Up(n, i) == IF PathBit(a, i + 1) = 1
                       THEN HashChildren(s[i + 1], n) ELSE HashChildren(n, s[i + 1])
           E(n) == [i \in Levels |-> IF i = NumLevels - 1 THEN leaf ELSE Up(n[i + 1], i)]
<1>1. c[ShiftedIndex(a, NumLevels - 1)] = leaf
  <2>1. NumLevels - 1 \in Levels /\ Shifted(a, NumLevels - 1) = a /\ a \in 0 .. Pow2[NumLevels - 1] - 1
    BY <1>0, ShiftedFacts, LevelFacts
  <2>2. /\ HCIndex(a, NumLevels - 1) \in Nodes
        /\ HCIndex(a, NumLevels - 1) >= NumAddresses - 1
        /\ HCIndex(a, NumLevels - 1) - (NumAddresses - 1) = a
    BY <2>1, HCIndexFacts, Zenon
  <2>3. QED BY <2>1, <2>2, Zenon DEF IsTree, ShiftedIndex
<1>2. ASSUME NEW l \in Levels, l # NumLevels - 1
      PROVE  c[ShiftedIndex(a, l)] = Up(c[ShiftedIndex(a, l + 1)], l)
  <2>1. s[l + 1] = c[SiblingIndex(a, l + 1)]
    BY <1>0, <1>2
  <2> DEFINE h == ShiftedIndex(a, l)
  <2>2. /\ h \in Nodes /\ ~(h >= NumAddresses - 1)
        /\ \/ /\ PathBit(a, l + 1) = 1
              /\ SiblingIndex(a, l + 1) = 2 * h + 1
              /\ ShiftedIndex(a, l + 1) = 2 * h + 2
           \/ /\ PathBit(a, l + 1) # 1
              /\ ShiftedIndex(a, l + 1) = 2 * h + 1
              /\ SiblingIndex(a, l + 1) = 2 * h + 2
    BY <1>2, PathStep, Zenon
  <2>3. c[h] = HashChildren(c[2 * h + 1], c[2 * h + 2])
    BY <2>2, Zenon DEF IsTree
  <2> HIDE DEF h
  <2>4. c[h] = Up(c[ShiftedIndex(a, l + 1)], l)
    BY <2>1, <2>2, <2>3, Zenon
  <2>5. QED BY <2>4, Zenon DEF h
<1> HIDE DEF leaf, Up
<1>3. ASSUME NEW i \in Levels, i # NumLevels - 1 PROVE i + 1 \in Levels
  BY <1>0, <1>3
<1>4. P = E(P)
  BY <1>1, <1>2, <1>3, Zenon
<1> DEFINE node == CHOOSE n : n = E(n)
<1>5. node = E(node)
  <2> HIDE DEF E, P
  <2>1. QED BY <1>4, Zenon
<1>6. genPath(leaf, a, s) = node[0]
  BY Zenon DEF genPath, Up
<1>7. \A i \in Levels : node[i] = IF i = NumLevels - 1 THEN leaf ELSE Up(node[i + 1], i)
  <2> HIDE DEF node
  <2>1. QED BY <1>5, Zenon
<1> HIDE DEF node, E, P
<1> DEFINE S == {k \in Nat : k =< NumLevels - 1
                   => node[NumLevels - 1 - k] = c[ShiftedIndex(a, NumLevels - 1 - k)]}
<1>8. 0 \in S
  <2>1. NumLevels - 1 - 0 = NumLevels - 1 /\ NumLevels - 1 \in Levels
    BY <1>0
  <2>2. QED BY <1>1, <1>7, <2>1, Zenon
<1>9. ASSUME NEW k \in Nat, k \in S PROVE k + 1 \in S
  <2> SUFFICES ASSUME k + 1 =< NumLevels - 1
               PROVE  node[NumLevels - 1 - (k + 1)] = c[ShiftedIndex(a, NumLevels - 1 - (k + 1))]
    OBVIOUS
  <2>1. PICK l \in Levels : l = NumLevels - 1 - (k + 1) /\ l # NumLevels - 1
    BY <1>0
  <2>2. l + 1 = NumLevels - 1 - k /\ k =< NumLevels - 1
    BY <1>0, <2>1
  <2>3. node[l + 1] = c[ShiftedIndex(a, l + 1)]
    BY <1>9, <2>2, Zenon
  <2>4. QED BY <1>2, <1>7, <2>1, <2>3, Zenon
<1>10. NumLevels - 1 \in S
  <2> HIDE DEF S
  <2>1. \A k \in Nat : k \in S
    BY <1>8, <1>9, SetInduction, Zenon
  <2>2. QED BY <1>0, <2>1
<1>11. node[0] = c[ShiftedIndex(a, 0)]
  <2>1. NumLevels - 1 - (NumLevels - 1) = 0
    BY <1>0
  <2>2. QED BY <1>0, <1>10, <2>1
<1>12. ShiftedIndex(a, 0) = 0
  <2>1. 0 \in Levels /\ Shifted(a, 0) \in 0 .. Pow2[0] - 1
    BY <1>0, ShiftedFacts
  <2>2. Shifted(a, 0) = 0
    BY <2>1, Pow2Recursion
  <2>3. QED BY <2>2, Pow2Recursion DEF ShiftedIndex, HCIndex
<1>13. QED BY <1>6, <1>11, <1>12, Zenon DEF leaf

-----------------------------------------------------------------------------
(***************************************************************************)
(* The inductive invariant                                                 *)
(***************************************************************************)

\* What the operation under way has read is what the store and the cache still
\* hold, and only an address of the RAM has siblings at every level.
OpInv ==
    /\ prover = "off" => op = NoOp
    /\ op # NoOp =>
         /\ op = [kind |-> op.kind, addr |-> op.addr, value |-> op.value,
                  leaf |-> op.leaf, siblings |-> op.siblings]
         /\ op.leaf = Cell(store, op.addr)
         /\ op.siblings # <<>> =>
              op.addr \in 0 .. NumAddresses - 1 /\ op.siblings = getSiblingHashes(op.addr)

\* Inputs generated after the last put hold the root of the stored words.
InputInv == ~wrote => inHash = Built(store).hash

IInv ==
    /\ TypeOK /\ StoreInRange /\ CacheIsTree
    /\ OpInv /\ InputInv
    /\ RootThreaded /\ ChecksSatisfied

\* The reads before a put stop the prover at the one address that get() lets
\* through and that is not in the RAM: its leaf has no sibling.
LEMMA NoSiblingBeyond == SiblingIndex(NumAddresses, NumLevels - 1) \notin Nodes
<1>1. NumAddresses \in Nat /\ NumLevels \in Nat /\ NumLevels - (NumLevels - 1) - 1 = 0
  BY LevelFacts
<1>2. NumAddresses \div 1 = NumAddresses
  BY <1>1
<1>3. Shifted(NumAddresses, NumLevels - 1) = NumAddresses
  BY <1>1, <1>2, Pow2Recursion, Zenon DEF Shifted
<1>4. ShiftedIndex(NumAddresses, NumLevels - 1) = 2 * NumAddresses - 1
  BY <1>1, <1>3, LevelFacts DEF ShiftedIndex, HCIndex
<1>5. (2 * NumAddresses - 1) % 2 = 1 /\ (2 * NumAddresses - 1) + 1 = 2 * NumAddresses
  BY <1>1
<1>6. SiblingIndex(NumAddresses, NumLevels - 1) = 2 * NumAddresses
  BY <1>4, <1>5, Zenon DEF SiblingIndex
<1>7. QED BY <1>1, <1>6 DEF Nodes

\* In the tree the lookups find the siblings.
LEMMA SiblingsFound ==
    ASSUME NEW a \in 0 .. NumAddresses - 1, IsTree(hashCache, store)
    PROVE  \A l \in 1 .. NumLevels - 1 :
             getSiblingHashes(a)[l] = hashCache[SiblingIndex(a, l)]
<1> SUFFICES ASSUME NEW l \in 1 .. NumLevels - 1
             PROVE  getSiblingHashes(a)[l] = hashCache[SiblingIndex(a, l)]
  BY Zenon
<1>1. SiblingIndex(a, l) \in DOMAIN hashCache
  BY SiblingOffPath, Zenon DEF IsTree
<1>2. QED BY <1>1, Zenon DEF getSiblingHashes, getSiblingHash

LEMMA CellTyped == ASSUME TypeOK, NEW a PROVE Cell(store, a) \in Values
  BY MerkleRamAssumptions, Zenon DEF TypeOK, Cell

LEMMA InitInv == Init => IInv
<1> SUFFICES ASSUME Init PROVE IInv
  BY Zenon
<1>1. DOMAIN store = {} /\ DOMAIN hashCache = {}
  BY DEF Init
<1>2. {satisfied, wrote, current} \subseteq BOOLEAN
  BY Zenon DEF Init
<1>3. TypeOK /\ StoreInRange
  BY <1>1, <1>2, Zenon DEF Init, TypeOK, StoreInRange
<1>4. QED BY <1>3, Zenon DEF Init, IInv, CacheIsTree, OpInv, InputInv, RootThreaded, ChecksSatisfied

LEMMA GenerateInputInv == IInv /\ GenerateInput => IInv'
<1> SUFFICES ASSUME IInv, GenerateInput PROVE IInv'
  BY Zenon
<1> USE DEF IInv, GenerateInput
<1>1. (TypeOK /\ StoreInRange)'
  BY Zenon DEF TypeOK, StoreInRange
<1>2. OpInv'
  BY Zenon DEF OpInv, getSiblingHashes, getSiblingHash, SiblingIndex, ShiftedIndex, HCIndex, Shifted
<1>3. (CacheIsTree /\ InputInv /\ RootThreaded /\ ChecksSatisfied)'
  BY Zenon DEF CacheIsTree, InputInv, RootThreaded, ChecksSatisfied
<1>4. QED BY <1>1, <1>2, <1>3, Zenon

LEMMA InitBlockStoreInv == IInv /\ init_block_store => IInv'
<1> SUFFICES ASSUME IInv, init_block_store PROVE IInv'
  BY Zenon
<1>1. op = NoOp
  BY Zenon DEF IInv, OpInv, init_block_store
<1>2. IsTree(hashCache', store) /\ rootHash' = hashCache'[0]
  BY BuiltIsTree, Zenon DEF init_block_store
<1>3. CacheIsTree'
  BY <1>2, Zenon DEF CacheIsTree, init_block_store
<1>4. (TypeOK /\ StoreInRange)'
  BY <1>2, Zenon DEF IInv, TypeOK, StoreInRange, IsTree, init_block_store
<1>5. OpInv'
  BY <1>1, Zenon DEF OpInv, init_block_store
<1>6. (InputInv /\ RootThreaded /\ ChecksSatisfied)'
  BY Zenon DEF IInv, InputInv, RootThreaded, ChecksSatisfied, init_block_store
<1>7. QED BY <1>3, <1>4, <1>5, <1>6, Zenon DEF IInv

LEMMA GetBitsInv ==
    ASSUME NEW kind \in {"get", "put"}, NEW addr \in Indices, NEW v \in Values,
           IInv, compute_db_get_bits(kind, addr, v)
    PROVE  IInv'
<1> USE DEF compute_db_get_bits
<1>1. (StoreInRange /\ CacheIsTree /\ InputInv /\ RootThreaded /\ ChecksSatisfied)'
  BY Zenon DEF IInv, StoreInRange, CacheIsTree, InputInv, RootThreaded, ChecksSatisfied
<1>2. CASE addr > NumAddresses
  <2>1. TypeOK'
    BY <1>2, Zenon DEF IInv, TypeOK
  <2>2. OpInv'
    BY <1>2, Zenon DEF IInv, OpInv, NoOp
  <2>3. QED BY <1>1, <2>1, <2>2, Zenon DEF IInv
<1>3. CASE ~(addr > NumAddresses)
  <2>1. op' = [kind |-> kind, addr |-> addr, value |-> v,
               leaf |-> Cell(store, addr), siblings |-> <<>>]
    BY <1>3, Zenon
  <2>2. addr \in 0 .. NumAddresses
    BY <1>3, LevelFacts DEF Indices
  <2>3. Cell(store, addr) \in Values
    BY CellTyped, Zenon DEF IInv
  <2>4. TypeOK'
    BY <1>3, <2>1, <2>2, <2>3, Zenon DEF IInv, TypeOK
  <2>5. OpInv'
    BY <2>1, Zenon DEF OpInv, Cell
  <2>6. QED BY <1>1, <2>4, <2>5, Zenon DEF IInv
<1>4. QED BY <1>2, <1>3, Zenon

\* The word and the siblings pass the check of the path.
LEMMA SiblingHashInv == IInv /\ compute_db_get_sibling_hash => IInv'
<1> SUFFICES ASSUME IInv, compute_db_get_sibling_hash PROVE IInv'
  BY Zenon
<1> DEFINE siblings == getSiblingHashes(op.addr)
<1>1. /\ prover = "run" /\ op # NoOp /\ op.siblings = <<>>
      /\ UNCHANGED <<store, hashCache, rootHash, inHash, dbHash, wrote, current>>
  BY Zenon DEF compute_db_get_sibling_hash
<1>2. (StoreInRange /\ InputInv)'
  BY <1>1, Zenon DEF IInv, StoreInRange, InputInv
<1>3. IsTree(hashCache, store) /\ rootHash = hashCache[0]
  BY <1>1, Zenon DEF IInv, CacheIsTree
<1>4. (CacheIsTree /\ RootThreaded)'
  <2>1. IsTree(hashCache', store') /\ rootHash' = hashCache'[0]
    BY <1>1, <1>3, Zenon
  <2>2. current => dbHash = rootHash
    BY <1>1, Zenon DEF IInv, RootThreaded
  <2>3. QED BY <1>1, <2>1, <2>2, Zenon DEF CacheIsTree, RootThreaded
<1>5. CASE \A l \in 1 .. NumLevels - 1 : SiblingFound(op.addr, l)
  <2>1. op.addr \in 0 .. NumAddresses - 1
    <3>1. op.addr \in 0 .. NumAddresses
      BY <1>1, Zenon DEF IInv, TypeOK
    <3>2. NumLevels - 1 \in 1 .. NumLevels - 1
      BY LevelFacts
    <3>3. op.addr # NumAddresses
      BY <1>3, <1>5, <3>2, NoSiblingBeyond, Zenon DEF SiblingFound, IsTree
    <3>4. QED BY <3>1, <3>3, LevelFacts
  <2>2. /\ satisfied' = (satisfied /\ checkPathBits(op.leaf, op.addr, siblings))
        /\ op' = IF op.kind = "get" THEN NoOp ELSE [op EXCEPT !.siblings = siblings]
        /\ prover' = prover
    BY <1>5, Zenon DEF compute_db_get_sibling_hash
  <2>3. checkPathBits(op.leaf, op.addr, siblings) <=> hashCache[0] = dbHash
    <3>1. op.leaf = Cell(store, op.addr)
      BY <1>1, Zenon DEF IInv, OpInv
    <3>2. \A l \in 1 .. NumLevels - 1 : siblings[l] = hashCache[SiblingIndex(op.addr, l)]
      BY <1>3, <2>1, SiblingsFound, Zenon
    <3> HIDE DEF siblings
    <3>3. genPath(HashValue(Cell(store, op.addr)), op.addr, siblings) = hashCache[0]
      BY <1>3, <2>1, <3>2, GenPathIsRoot, Zenon
    <3>4. QED BY <3>1, <3>3, Zenon DEF checkPathBits
  <2>4. ChecksSatisfied'
    BY <1>1, <1>3, <2>2, <2>3, Zenon DEF IInv, ChecksSatisfied, RootThreaded
  <2>5. TypeOK'
    <3>1. satisfied' \in BOOLEAN
      BY <2>2, Zenon
    <3>2. op' = NoOp \/ /\ op'.kind = op.kind /\ op'.addr = op.addr
                        /\ op'.value = op.value /\ op'.leaf = op.leaf
      BY <1>1, <2>2, Zenon DEF IInv, OpInv
    <3>3. QED BY <1>1, <2>2, <3>1, <3>2, Zenon DEF IInv, TypeOK
  <2>6. OpInv'
    <3>1. CASE op.kind = "get"
      BY <2>2, <3>1, Zenon DEF OpInv
    <3>2. CASE op.kind # "get"
      <4>1. op' = [kind |-> op.kind, addr |-> op.addr, value |-> op.value,
                   leaf |-> op.leaf, siblings |-> siblings]
        BY <1>1, <2>2, <3>2, Zenon DEF IInv, OpInv
      <4>2. op.leaf = Cell(store, op.addr)
        BY <1>1, Zenon DEF IInv, OpInv
      <4>3. siblings = getSiblingHashes(op.addr)
        BY Zenon
      <4> HIDE DEF siblings
      <4>4. \A a : Cell(store', a) = Cell(store, a)
        BY <1>1, Zenon
      <4>5. siblings = getSiblingHashes(op.addr)'
        BY <1>1, <4>1, <4>3, Zenon DEF getSiblingHashes, getSiblingHash
      <4>6. QED BY <1>1, <2>1, <2>2, <4>1, <4>2, <4>4, <4>5, Zenon DEF OpInv
    <3>3. QED BY <3>1, <3>2, Zenon
  <2>7. QED BY <1>2, <1>4, <2>4, <2>5, <2>6, Zenon DEF IInv
<1>6. CASE ~\A l \in 1 .. NumLevels - 1 : SiblingFound(op.addr, l)
  <2>1. prover' = "exit" /\ UNCHANGED <<satisfied, op>>
    BY <1>6, Zenon DEF compute_db_get_sibling_hash
  <2>2. (TypeOK /\ OpInv /\ ChecksSatisfied)'
    BY <1>1, <2>1, Zenon DEF IInv, TypeOK, OpInv, ChecksSatisfied
  <2>3. QED BY <1>2, <1>4, <2>2, Zenon DEF IInv
<1>7. QED BY <1>5, <1>6, Zenon

\* The root of the path with the new word is the root of the tree with it: the
\* siblings are off the path that the put changes.
LEMMA PutBitsInv == IInv /\ compute_db_put_bits => IInv'
<1> SUFFICES ASSUME IInv, compute_db_put_bits PROVE IInv'
  BY Zenon
<1> DEFINE a == op.addr
           v == op.value
           new == [b \in DOMAIN store \cup {a} |-> IF b = a THEN v ELSE store[b]]
           u == updateSubtree(invalidateHashes(hashCache, a), new)
<1>1. /\ prover = "run" /\ op # NoOp /\ op.siblings # <<>>
      /\ store' = new /\ hashCache' = u.cache /\ rootHash' = u.hash
      /\ dbHash' = genPath(HashValue(v), a, op.siblings)
      /\ op' = NoOp /\ wrote' = TRUE
      /\ UNCHANGED <<inHash, satisfied, prover, current>>
  BY Zenon DEF compute_db_put_bits, NewRoot
<1>2. a \in 0 .. NumAddresses - 1 /\ op.siblings = getSiblingHashes(a) /\ v \in Values
  BY <1>1, Zenon DEF IInv, OpInv, TypeOK
<1>3. IsTree(hashCache, store)
  BY <1>1, Zenon DEF IInv, CacheIsTree
<1>4. Cell(new, a) = v /\ DOMAIN new = DOMAIN store \cup {a}
      /\ \A b \in DOMAIN new : new[b] = IF b = a THEN v ELSE store[b]
  BY Zenon DEF Cell
<1> HIDE DEF new, a, v
<1>5. /\ IsTree(u.cache, new)
      /\ u.hash = u.cache[0]
      /\ \A i \in Nodes \ Path(a) : u.cache[i] = hashCache[i]
  <2>1. StoredAt(new, store, a)
    BY <1>4, Zenon DEF StoredAt
  <2>2. UpdatedAlong(u, new, hashCache, a)
    BY <1>2, <1>3, <2>1, PutKeepsTree, Zenon
  <2> HIDE DEF u
  <2>3. QED BY <2>2, Zenon DEF UpdatedAlong
<1> HIDE DEF u
<1>6. dbHash' = rootHash'
  <2>1. \A l \in 1 .. NumLevels - 1 : op.siblings[l] = hashCache[SiblingIndex(a, l)]
    BY <1>2, <1>3, SiblingsFound, Zenon
  <2>2. \A l \in 1 .. NumLevels - 1 : op.siblings[l] = u.cache[SiblingIndex(a, l)]
    BY <1>2, <1>5, <2>1, SiblingOffPath, Zenon
  <2>3. genPath(HashValue(Cell(new, a)), a, op.siblings) = u.cache[0]
    BY <1>2, <1>5, <2>2, GenPathIsRoot
  <2>4. QED BY <1>1, <1>4, <1>5, <2>3, Zenon
<1>7. StoreInRange'
  BY <1>1, <1>2, <1>4, Zenon DEF IInv, StoreInRange
<1>8. TypeOK'
  <2>1. DOMAIN new \subseteq Indices /\ \A b \in DOMAIN new : new[b] \in Values
    BY <1>2, <1>4, LevelFacts DEF IInv, TypeOK, Indices
  <2>2. DOMAIN u.cache \subseteq Nodes
    BY <1>5, Zenon DEF IsTree
  <2>3. {satisfied, wrote, current}' \subseteq BOOLEAN
    BY <1>1, Zenon DEF IInv, TypeOK
  <2>4. QED BY <1>1, <2>1, <2>2, <2>3, Zenon DEF TypeOK
<1>9. CacheIsTree'
  BY <1>1, <1>5, Zenon DEF CacheIsTree
<1>10. (OpInv /\ InputInv /\ RootThreaded /\ ChecksSatisfied)'
  BY <1>1, <1>6, Zenon DEF IInv, OpInv, InputInv, RootThreaded, ChecksSatisfied
<1>11. QED BY <1>7, <1>8, <1>9, <1>10, Zenon DEF IInv

LEMMA ProcessEndsInv == IInv /\ ProcessEnds => IInv'
<1> SUFFICES ASSUME IInv, ProcessEnds PROVE IInv'
  BY Zenon
<1> USE DEF ProcessEnds
<1>1. DOMAIN hashCache' = {}
  OBVIOUS
<1>2. (TypeOK /\ StoreInRange)'
  BY <1>1, Zenon DEF IInv, TypeOK, StoreInRange
<1>3. (OpInv /\ CacheIsTree /\ InputInv /\ RootThreaded /\ ChecksSatisfied)'
  BY Zenon DEF IInv, OpInv, CacheIsTree, InputInv, RootThreaded, ChecksSatisfied
<1>4. QED BY <1>2, <1>3, Zenon DEF IInv

LEMMA NextInv == IInv /\ [Next]_vars => IInv'
<1> SUFFICES ASSUME IInv, [Next]_vars PROVE IInv'
  BY Zenon
<1>1. CASE GenerateInput
  BY <1>1, GenerateInputInv, Zenon
<1>2. CASE init_block_store
  BY <1>2, InitBlockStoreInv, Zenon
<1>3. CASE \E addr \in Indices : compute_db_get_bits("get", addr, 0)
  BY <1>3, GetBitsInv, MerkleRamAssumptions, Zenon
<1>4. CASE \E addr \in Indices, v \in Values : compute_db_get_bits("put", addr, v)
  BY <1>4, GetBitsInv, Zenon
<1>5. CASE compute_db_get_sibling_hash
  BY <1>5, SiblingHashInv, Zenon
<1>6. CASE compute_db_put_bits
  BY <1>6, PutBitsInv, Zenon
<1>7. CASE ProcessEnds
  BY <1>7, ProcessEndsInv, Zenon
<1>8. CASE UNCHANGED vars
  <2> USE <1>8 DEF vars
  <2>1. (TypeOK /\ StoreInRange /\ CacheIsTree)'
    BY Zenon DEF IInv, TypeOK, StoreInRange, CacheIsTree
  <2>2. OpInv'
    BY Zenon DEF IInv, OpInv, getSiblingHashes, getSiblingHash
  <2>3. (InputInv /\ RootThreaded /\ ChecksSatisfied)'
    BY Zenon DEF IInv, InputInv, RootThreaded, ChecksSatisfied
  <2>4. QED BY <2>1, <2>2, <2>3, Zenon DEF IInv
<1>9. QED BY <1>1, <1>2, <1>3, <1>4, <1>5, <1>6, <1>7, <1>8, Zenon DEF Next

LEMMA Invariance == Spec => []IInv
  BY InitInv, NextInv, PTL DEF Spec

\* Every variable keeps its type; the cache never holds a node that is not in
\* the tree.
THEOREM TypeCorrect == Spec => []TypeOK
<1>1. IInv => TypeOK
  BY Zenon DEF IInv
<1>2. QED BY <1>1, Invariance, PTL

\* While a worksheet runs, the cache that RAMImpl keeps up to date along one path
\* at a time is the Merkle tree of the stored words, after any sequence of puts,
\* crashes and restarts.
THEOREM CacheCorrect == Spec => []CacheIsTree
<1>1. IInv => CacheIsTree
  BY Zenon DEF IInv
<1>2. QED BY <1>1, Invariance, PTL

\* The advice of the prover satisfies every path check of merkle.go, when the
\* inputs were generated after the last put before the run.
THEOREM Completeness == Spec => []ChecksSatisfied
<1>1. IInv => ChecksSatisfied
  BY Zenon DEF IInv
<1>2. QED BY <1>1, Invariance, PTL

\* The root hash that the constraints carry from put to put is the root hash of
\* the prover's tree.
THEOREM RootCarried == Spec => []RootThreaded
<1>1. IInv => RootThreaded
  BY Zenon DEF IInv
<1>2. QED BY <1>1, Invariance, PTL

\* RAMImpl.put checks no address, and is never reached with one outside the RAM.
THEOREM StoreBounded == Spec => []StoreInRange
<1>1. IInv => StoreInRange
  BY Zenon DEF IInv
<1>2. QED BY <1>1, Invariance, PTL
=============================================================================
