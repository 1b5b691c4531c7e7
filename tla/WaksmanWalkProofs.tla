------------------------- MODULE WaksmanWalkProofs -------------------------
(***************************************************************************)
(* The walk through the packets of one activation of route(), for every    *)
(* network: however the cycles run, a packet comes to its switches with the *)
(* half that they were set for, and a link leads to the bottom half.       *)
(***************************************************************************)
EXTENDS WaksmanRouter, TLAPS

(***************************************************************************)
(* The walk.  Two packets are mates on the left when they enter one switch *)
(* of the first column, and on the right when they leave one switch of the *)
(* last column; a packet on a link of an odd network has no mate there.    *)
(* R is the set of the packets routed so far, by the position where they   *)
(* enter, and B tells which of them go through the bottom half.            *)
(***************************************************************************)

Mates(m, S) ==
    /\ DOMAIN m \subseteq S
    /\ \A i \in DOMAIN m : m[i] \in DOMAIN m /\ m[i] # i /\ m[m[i]] = i
    /\ \A i, k \in S \ DOMAIN m : i = k

\* The mates of these packets are not routed yet.
Open(m, R) == {i \in R : i \in DOMAIN m /\ m[i] \notin R}

\* Routed mates go through different halves.
Alternates(m, R, B) == \A i \in R : i \in DOMAIN m /\ m[i] \in R => B[m[i]] # B[i]

\* The walk leaves at p towards packet x.  It is between two cycles, or in a
\* cycle of which it has routed a path that ends at e, and at s on the same
\* or the other column.
InCycle(p, q, S, R, B, x) ==
    /\ S \ R \subseteq DOMAIN p /\ S \ R \subseteq DOMAIN q
    /\ \/ Open(p, R) = {} /\ Open(q, R) = {} /\ x \notin S \ R
       \/ \E e, s \in R :
            /\ e \in DOMAIN p /\ x = p[e] /\ x \notin R
            /\ \/ e # s /\ Open(p, R) = {e, s} /\ Open(q, R) = {} /\ B[s] # B[e]
               \/ Open(p, R) = {e} /\ Open(q, R) = {s} /\ B[s] = B[e]

\* In an odd network the first walk goes from one link to the other.
OnPath(p, q, R, B, x, k) ==
    \E e \in R : Open(p, R) = {e} /\ Open(q, R) = {} /\ x = p[e] /\ B[e] = k
\* Routing one more packet closes its mate, or opens the packet.
ClosesOrOpens(m, R, i) ==
    /\ m[i] \in R => m[i] \in Open(m, R) /\ Open(m, R \cup {i}) = Open(m, R) \ {m[i]}
    /\ m[i] \notin R => Open(m, R \cup {i}) = Open(m, R) \cup {i}

LEMMA OpenAfter ==
    ASSUME NEW S, NEW m, NEW R, NEW i, i \in S, i \notin R, Mates(m, S), i \in DOMAIN m
    PROVE  ClosesOrOpens(m, R, i)
<1>1. m[i] \in DOMAIN m /\ m[i] # i /\ m[m[i]] = i
  BY Zenon DEF Mates
<1>2. \A k \in DOMAIN m : m[k] = i => k = m[i]
  BY Zenon DEF Mates
<1>3. ASSUME m[i] \in R
      PROVE  m[i] \in Open(m, R) /\ Open(m, R \cup {i}) = Open(m, R) \ {m[i]}
  <2>1. m[i] \in Open(m, R)
    BY <1>1, <1>3, Zenon DEF Open
  <2>2. ASSUME NEW k PROVE k \in Open(m, R \cup {i}) <=> k \in Open(m, R) \ {m[i]}
    BY <1>1, <1>2, <1>3, Zenon DEF Open
  <2>3. QED BY <2>1, <2>2, Zenon
<1>4. ASSUME m[i] \notin R
      PROVE  Open(m, R \cup {i}) = Open(m, R) \cup {i}
  <2>1. ASSUME NEW k PROVE k \in Open(m, R \cup {i}) <=> k \in Open(m, R) \cup {i}
    BY <1>1, <1>2, <1>4, Zenon DEF Open
  <2>2. QED BY <2>1, Zenon
<1>5. QED BY <1>3, <1>4, Zenon DEF ClosesOrOpens

\* A packet without a mate on a column changes nothing there.
LEMMA OpenAfterLink ==
    ASSUME NEW S, NEW m, NEW R, NEW i \in S \ R, Mates(m, S), i \notin DOMAIN m
    PROVE  Open(m, R \cup {i}) = Open(m, R)
  BY Zenon DEF Mates, Open

\* Packet i is the one that the walk goes to, and its half b is the other one
\* than that of its mate.
ComesTo(p, S, R, B, x, i, b) ==
    /\ x \in S \ R => i = x
    /\ p[i] \in R => b # B[p[i]]

\* From i the walk goes on to its mate y on the other column.
GoesTo(q, S, R, i, y) ==
    /\ q[i] \notin R => y = q[i]
    /\ q[i] \in R => y \notin S \ (R \cup {i})

CycleGoesOn(p, q, S, R, B, i, b, y) ==
    /\ q[i] \in R => b # B[q[i]]
    /\ InCycle(q, p, S, R \cup {i}, Assign(B, i, b), y)

\* The other end of the path has its mate in the half the next packet leaves.
LEMMA CycleStep ==
    ASSUME NEW S, NEW p, NEW q, NEW R, NEW B, NEW x, NEW y,
           NEW i \in S \ R, NEW b \in BOOLEAN,
           Mates(p, S), Mates(q, S), B \in [R -> BOOLEAN],
           InCycle(p, q, S, R, B, x), ComesTo(p, S, R, B, x, i, b), GoesTo(q, S, R, i, y)
    PROVE  CycleGoesOn(p, q, S, R, B, i, b, y)
<1> DEFINE T == R \cup {i}
           C == Assign(B, i, b)
<1> SUFFICES ASSUME x \in S \ R => i = x, p[i] \in R => b # B[p[i]],
                    q[i] \notin R => y = q[i], q[i] \in R => y \notin S \ T
             PROVE  (q[i] \in R => b # B[q[i]]) /\ InCycle(q, p, S, T, C, y)
  BY Zenon DEF ComesTo, GoesTo, CycleGoesOn
<1>1. /\ i \in DOMAIN p /\ i \in DOMAIN q
      /\ S \ T \subseteq DOMAIN p /\ S \ T \subseteq DOMAIN q
  BY Zenon DEF InCycle
<1>2. C[i] = b /\ \A k \in R : C[k] = B[k]
  BY Zenon DEF Assign
<1>3. q[i] # i /\ p[i] # i
  BY <1>1, Zenon DEF Mates
<1> HIDE DEF C
<1>4. /\ p[i] \in R => p[i] \in Open(p, R) /\ Open(p, T) = Open(p, R) \ {p[i]}
      /\ p[i] \notin R => Open(p, T) = Open(p, R) \cup {i}
      /\ q[i] \in R => q[i] \in Open(q, R) /\ Open(q, T) = Open(q, R) \ {q[i]}
      /\ q[i] \notin R => Open(q, T) = Open(q, R) \cup {i}
  <2>1. ClosesOrOpens(p, R, i) /\ ClosesOrOpens(q, R, i)
    BY <1>1, OpenAfter, Zenon
  <2>2. QED BY <2>1, Zenon DEF ClosesOrOpens
<1>5. i \in T /\ R \subseteq T
  BY Zenon
<1> HIDE DEF T
<1>6. CASE Open(p, R) = {} /\ Open(q, R) = {} /\ x \notin S \ R
  <2>1. p[i] \notin R /\ q[i] \notin R
    BY <1>4, <1>6, Zenon
  <2>2. Open(p, T) = {i} /\ Open(q, T) = {i} /\ y = q[i] /\ y \notin T
    BY <1>3, <1>4, <1>6, <2>1, Zenon DEF T
  <2>3. InCycle(q, p, S, T, C, y)
    BY <1>1, <1>5, <2>2, Zenon DEF InCycle
  <2>4. QED BY <2>1, <2>3, Zenon
<1>7. CASE \E e, s \in R :
             /\ e \in DOMAIN p /\ x = p[e] /\ x \notin R
             /\ e # s /\ Open(p, R) = {e, s} /\ Open(q, R) = {} /\ B[s] # B[e]
  <2>1. PICK e \in R, s \in R :
             /\ e \in DOMAIN p /\ x = p[e] /\ x \notin R
             /\ e # s /\ Open(p, R) = {e, s} /\ Open(q, R) = {} /\ B[s] # B[e]
    BY <1>7, Zenon
  <2>2. x \in S \ R /\ p[x] = e
    BY <2>1, Zenon DEF Mates
  <2>3. i = x /\ p[i] = e /\ b # B[e]
    BY <2>1, <2>2, Zenon
  <2>4. q[i] \notin R
    BY <1>4, <2>1, Zenon
  <2>5. Open(p, T) = {s} /\ Open(q, T) = {i} /\ y = q[i] /\ y \notin T
    BY <1>3, <1>4, <2>1, <2>3, <2>4, Zenon DEF T
  <2>6. B[s] \in BOOLEAN /\ B[e] \in BOOLEAN
    BY Zenon
  <2>7. C[s] = C[i]
    BY <1>2, <2>1, <2>3, <2>6, Zenon
  <2>8. InCycle(q, p, S, T, C, y)
    BY <1>1, <1>5, <2>5, <2>7, Zenon DEF InCycle
  <2>9. QED BY <2>4, <2>8, Zenon
<1>8. CASE \E e, s \in R :
             /\ e \in DOMAIN p /\ x = p[e] /\ x \notin R
             /\ Open(p, R) = {e} /\ Open(q, R) = {s} /\ B[s] = B[e]
  <2>1. PICK e \in R, s \in R :
             /\ e \in DOMAIN p /\ x = p[e] /\ x \notin R
             /\ Open(p, R) = {e} /\ Open(q, R) = {s} /\ B[s] = B[e]
    BY <1>8, Zenon
  <2>2. x \in S \ R /\ p[x] = e
    BY <2>1, Zenon DEF Mates
  <2>3. i = x /\ p[i] = e /\ b # B[e]
    BY <2>1, <2>2, Zenon
  <2>4. Open(p, T) = {}
    BY <1>4, <2>1, <2>3, Zenon
  <2>5. CASE q[i] \in R
    <3>1. q[i] = s /\ Open(q, T) = {}
      BY <1>4, <2>1, <2>5, Zenon
    <3>2. y \notin S \ T
      BY <2>5, Zenon
    <3>3. InCycle(q, p, S, T, C, y)
      BY <1>1, <2>4, <3>1, <3>2, Zenon DEF InCycle
    <3>4. QED BY <2>1, <2>3, <3>1, <3>3, Zenon
  <2>6. CASE q[i] \notin R
    <3>1. Open(q, T) = {i, s} /\ i # s /\ y = q[i] /\ y \notin T
      BY <1>3, <1>4, <2>1, <2>6, Zenon DEF T
    <3>2. C[s] # C[i]
      BY <1>2, <2>1, <2>3, Zenon
    <3>3. InCycle(q, p, S, T, C, y)
      BY <1>1, <1>5, <2>4, <3>1, <3>2, Zenon DEF InCycle
    <3>4. QED BY <2>6, <3>3, Zenon
  <2>7. QED BY <2>5, <2>6, Zenon
<1>9. QED BY <1>6, <1>7, <1>8, Zenon DEF InCycle

PathGoesOn(p, q, R, B, x, k, i) ==
    /\ i = x /\ i \in DOMAIN p /\ p[i] \in R /\ B[p[i]] = k
    /\ i \in DOMAIN q =>
         q[i] \notin R /\ OnPath(q, p, R \cup {i}, Assign(B, i, ~k), q[i], ~k)
    /\ i \notin DOMAIN q => Open(p, R \cup {i}) = {} /\ Open(q, R \cup {i}) = {}

\* The first walk of an odd network.
LEMMA PathStep ==
    ASSUME NEW S, NEW p, NEW q, NEW R, NEW B, NEW x, NEW k \in BOOLEAN,
           NEW i \in S \ R, Mates(p, S), Mates(q, S), B \in [R -> BOOLEAN],
           OnPath(p, q, R, B, x, k), x \in S \ R => i = x
    PROVE  PathGoesOn(p, q, R, B, x, k, i)
<1> DEFINE T == R \cup {i}
           C == Assign(B, i, ~k)
<1>1. PICK e \in R : Open(p, R) = {e} /\ Open(q, R) = {} /\ x = p[e] /\ B[e] = k
  BY Zenon DEF OnPath
<1>2. x \in S \ R /\ p[x] = e /\ x \in DOMAIN p
  <2>1. e \in Open(p, R)
    BY <1>1, Zenon
  <2>2. QED BY <1>1, <2>1, Zenon DEF Open, Mates
<1>3. i = x /\ i \in DOMAIN p /\ p[i] = e
  BY <1>2, Zenon
<1>4. Open(p, T) = {}
  <2>1. ClosesOrOpens(p, R, i)
    BY <1>3, OpenAfter, Zenon
  <2>2. QED BY <1>1, <1>3, <2>1, Zenon DEF ClosesOrOpens
<1>5. C[i] = ~k
  BY Zenon DEF Assign
<1>6. CASE i \in DOMAIN q
  <2>1. q[i] \notin R /\ Open(q, T) = {i}
    <3>1. ClosesOrOpens(q, R, i)
      BY <1>6, OpenAfter, Zenon
    <3>2. QED BY <1>1, <3>1, Zenon DEF ClosesOrOpens
  <2>2. i \in T
    BY Zenon
  <2> HIDE DEF T, C
  <2>3. OnPath(q, p, T, C, q[i], ~k)
    BY <1>4, <1>5, <2>1, <2>2, Zenon DEF OnPath
  <2>4. QED BY <1>1, <1>3, <1>6, <2>1, <2>3, Zenon DEF T, C, PathGoesOn
<1>7. CASE i \notin DOMAIN q
  <2>1. Open(q, T) = Open(q, R)
    BY <1>7, OpenAfterLink
  <2>2. QED BY <1>1, <1>3, <1>4, <1>7, <2>1, Zenon DEF PathGoesOn
<1>8. QED BY <1>6, <1>7, Zenon
-----------------------------------------------------------------------------
(***************************************************************************)
(* The invariant of the walk's steps.                                      *)
(***************************************************************************)

Packet == [data : Nat, src : Nat, dst : Nat]

IsPermutation(f) ==
    /\ f.n \in Nat /\ f.n >= 1 /\ f.sw \in Nat /\ f.iv \in Nat
    /\ f.left \in [0 .. f.n - 1 -> Packet]
    /\ f.right \in [0 .. f.n - 1 -> Packet]
    /\ \A i \in 0 .. f.n - 1 :
         /\ f.left[i].src = i /\ f.left[i].dst \in 0 .. f.n - 1
         /\ f.right[f.left[i].dst] = f.left[i]
         /\ f.right[i].dst = i /\ f.right[i].src \in 0 .. f.n - 1
         /\ f.left[f.right[i].src] = f.right[i]

Packets == 0 .. Frame.n - 1
Dst(i) == Frame.left[i].dst
Src(j) == Frame.right[j].src
First == Src(Frame.n - 1)

LeftMate == [i \in {k \in Packets : ~LeftLink(k)} |-> Partner(i)]
RightMate == [i \in {k \in Packets : ~(Dst(k) = Frame.n - 1 /\ IsOdd(Frame.n))} |->
                Src(Partner(Dst(i)))]

\* The nodes that a packet is assigned to after the first and before the last
\* column.
Bit(b) == IF b THEN 1 ELSE 0
LeftNode(i, b) == Frame.iv + 2 * (i \div 2) + Bit(b)
RightNode(i, b) == IF Frame.n = 3 THEN Frame.iv + 2
                   ELSE Frame.iv + 2 * LeftSwitchCt + 2 * (Dst(i) \div 2) + Bit(b)
NodesEnd(f) == f.iv + (IF f.n = 3 THEN 3 ELSE 2 * (f.n - 1))

\* The switches of the two columns that are set are those of routed packets.
SwitchesTurned(R, B, sws) ==
    /\ 0 .. Frame.sw - 1 \subseteq DOMAIN sws
    /\ DOMAIN sws \subseteq 0 .. Frame.sw + Frame.n - 2
    /\ \A i \in Packets :
         /\ ~LeftLink(i) =>
              /\ i \in R => LeftSwitch(i) \in DOMAIN sws /\ sws[LeftSwitch(i)] = (IsOdd(i) # B[i])
              /\ LeftSwitch(i) \in DOMAIN sws => i \in R \/ LeftMate[i] \in R
         /\ ~RightLink(Dst(i)) =>
              /\ i \in R => /\ RightSwitch(Dst(i)) \in DOMAIN sws
                            /\ sws[RightSwitch(Dst(i))] = (IsOdd(Dst(i)) # B[i])
              /\ RightSwitch(Dst(i)) \in DOMAIN sws => i \in R \/ RightMate[i] \in R

NodesAssigned(R, B, ivs) ==
    /\ 0 .. Frame.iv - 1 \subseteq DOMAIN ivs
    /\ DOMAIN ivs \subseteq 0 .. NodesEnd(Frame) - 1
    /\ \A i \in R : /\ ~LeftLink(i) => LeftNode(i, B[i]) \in DOMAIN ivs
                    /\ ~RightLink(Dst(i)) => RightNode(i, B[i]) \in DOMAIN ivs

HalfPacket(i) == [data |-> Frame.left[i].data, src |-> i \div 2, dst |-> Dst(i) \div 2]

\* An array of m packets, of which some are written.
PartOf(A, m) == A \in [DOMAIN A -> Packet] /\ DOMAIN A \subseteq 0 .. m - 1

\* The packets of R are in the arrays of their half, and no others.
HandedOver(R, B, lp) ==
    /\ lp.routedL = R
    /\ lp.routedR = {Dst(i) : i \in R}
    /\ PartOf(lp.topL, Frame.n \div 2) /\ PartOf(lp.topR, Frame.n \div 2)
    /\ PartOf(lp.botL, (Frame.n + 1) \div 2) /\ PartOf(lp.botR, (Frame.n + 1) \div 2)
    /\ \A i \in R :
         IF B[i]
         THEN /\ i \div 2 \in DOMAIN lp.botL /\ lp.botL[i \div 2] = HalfPacket(i)
              /\ Dst(i) \div 2 \in DOMAIN lp.botR /\ lp.botR[Dst(i) \div 2] = HalfPacket(i)
         ELSE /\ i \div 2 \in DOMAIN lp.topL /\ lp.topL[i \div 2] = HalfPacket(i)
              /\ Dst(i) \div 2 \in DOMAIN lp.topR /\ lp.topR[Dst(i) \div 2] = HalfPacket(i)

\* Links lead to the bottom half.
LinksBelow(R, B) ==
    /\ First \in R /\ B[First]
    /\ \A i \in R : LeftLink(i) => B[i]

\* What is routed agrees on both columns.
Routed(R, B, sws, ivs, lp) ==
    /\ R \subseteq Packets
    /\ B \in [R -> BOOLEAN]
    /\ Alternates(LeftMate, R, B) /\ Alternates(RightMate, R, B)
    /\ SwitchesTurned(R, B, sws)
    /\ NodesAssigned(R, B, ivs)
    /\ HandedOver(R, B, lp)

\* A network of three: the second packet goes through the top.
ThreeInOrder(R, B, at) ==
    Frame.n = 3 =>
        /\ at = "left" => R = {First} \/ R = Packets
        /\ at = "right" => \E e \in R : e # First /\ R = {First, e} /\ ~B[e]

\* The packet that the walk goes to when next is an output.
Before(next, lp) == IF next \in Packets \ lp.routedR THEN Src(next) ELSE -1

Walking(R, B, lp, at) ==
    \/ /\ at = "left"
       /\ \/ InCycle(LeftMate, RightMate, Packets, R, B, lp.next)
          \/ OnPath(LeftMate, RightMate, R, B, lp.next, TRUE)
    \/ /\ at = "right"
       /\ \/ InCycle(RightMate, LeftMate, Packets, R, B, Before(lp.next, lp))
          \/ OnPath(RightMate, LeftMate, R, B, Before(lp.next, lp), FALSE)

LoopOK(lp, sws, ivs, at) ==
    \E B \in [lp.routedL -> BOOLEAN] :
        /\ Routed(lp.routedL, B, sws, ivs, lp)
        /\ LinksBelow(lp.routedL, B)
        /\ ThreeInOrder(lp.routedL, B, at)
        /\ Walking(lp.routedL, B, lp, at)
-----------------------------------------------------------------------------
(***************************************************************************)
(* The two sides of a switch, and the mates of a frame's packets.          *)
(***************************************************************************)

LEMMA PartnerFacts ==
    ASSUME NEW i \in Nat
    PROVE  /\ Partner(i) \in Nat /\ Partner(i) # i /\ Partner(Partner(i)) = i
           /\ IsOdd(Partner(i)) = ~IsOdd(i)
           /\ Partner(i) \div 2 = i \div 2
           /\ \A k \in Nat : k \div 2 = i \div 2 => k = i \/ k = Partner(i)
<1>1. PICK h \in Nat : h = i \div 2 /\ (i = 2 * h \/ i = 2 * h + 1)
  OBVIOUS
<1>2. CASE i = 2 * h
  BY <1>2 DEF Partner, IsOdd
<1>3. CASE i = 2 * h + 1
  BY <1>3 DEF Partner, IsOdd
<1>4. QED BY <1>1, <1>2, <1>3, Zenon

LEMMA PartnerInside ==
    ASSUME NEW n \in Nat, NEW i \in 0 .. n - 1, ~(i = n - 1 /\ IsOdd(n))
    PROVE  Partner(i) \in 0 .. n - 1 /\ ~(Partner(i) = n - 1 /\ IsOdd(n))
<1>1. PICK h \in Nat : h = i \div 2 /\ (i = 2 * h \/ i = 2 * h + 1)
  OBVIOUS
<1>2. PICK m \in Nat : m = n \div 2 /\ (n = 2 * m \/ n = 2 * m + 1)
  OBVIOUS
<1>3. CASE i = 2 * h
  BY <1>2, <1>3 DEF Partner, IsOdd
<1>4. CASE i = 2 * h + 1
  BY <1>2, <1>4 DEF Partner, IsOdd
<1>5. QED BY <1>1, <1>3, <1>4, Zenon

LEMMA SideFacts ==
    ASSUME NEW i \in Nat, NEW b \in BOOLEAN
    PROVE  /\ IsOdd(Side(i, b)) = (IsOdd(i) # b)
           /\ Side(i, IsOdd(i) # b) = 2 * (i \div 2) + Bit(b)
<1>1. PICK h \in Nat : h = i \div 2 /\ (i = 2 * h \/ i = 2 * h + 1)
  OBVIOUS
<1>2. CASE i = 2 * h
  BY <1>2 DEF Side, Partner, IsOdd, Bit
<1>3. CASE i = 2 * h + 1
  BY <1>3 DEF Side, Partner, IsOdd, Bit
<1>4. QED BY <1>1, <1>2, <1>3, Zenon

LEMMA EndFacts ==
    ASSUME IsPermutation(Frame)
    PROVE  /\ Frame.n \in Nat /\ Frame.n >= 1 /\ Packets \subseteq Nat
           /\ \A i \in Packets : Dst(i) \in Packets /\ Src(Dst(i)) = i
           /\ \A j \in Packets : Src(j) \in Packets /\ Dst(Src(j)) = j
           /\ \A i, k \in Packets : Dst(i) = Dst(k) => i = k
<1>1. /\ Frame.n \in Nat /\ Frame.n >= 1 /\ Packets \subseteq Nat
      /\ \A i \in Packets : Dst(i) \in Packets /\ Src(Dst(i)) = i
      /\ \A j \in Packets : Src(j) \in Packets /\ Dst(Src(j)) = j
  BY DEF IsPermutation, Packets, Dst, Src
<1>2. QED BY <1>1, Zenon

LEMMA MateFacts ==
    ASSUME IsPermutation(Frame)
    PROVE  /\ Mates(LeftMate, Packets)
           /\ \A i \in Packets : /\ i \in DOMAIN LeftMate <=> ~LeftLink(i)
                                 /\ ~LeftLink(i) => LeftMate[i] = Partner(i)
           /\ Mates(RightMate, Packets)
           /\ \A i \in Packets :
                /\ i \in DOMAIN RightMate <=> ~(Dst(i) = Frame.n - 1 /\ IsOdd(Frame.n))
                /\ i \in DOMAIN RightMate => /\ RightMate[i] \in Packets
                                             /\ Dst(RightMate[i]) = Partner(Dst(i))
                /\ ~RightLink(Dst(i)) => i \in DOMAIN RightMate
<1> DEFINE n == Frame.n
<1>1. /\ n \in Nat /\ n >= 1 /\ Packets = 0 .. n - 1 /\ Packets \subseteq Nat
      /\ \A i \in Packets : Dst(i) \in Packets /\ Src(Dst(i)) = i
      /\ \A j \in Packets : Src(j) \in Packets /\ Dst(Src(j)) = j
  BY EndFacts, Zenon DEF Packets
<1>2. \A i \in Packets : ~(i = n - 1 /\ IsOdd(n)) =>
         /\ Partner(i) \in Packets /\ ~(Partner(i) = n - 1 /\ IsOdd(n))
         /\ Partner(i) # i /\ Partner(Partner(i)) = i
  <2> SUFFICES ASSUME NEW i \in Packets, ~(i = n - 1 /\ IsOdd(n))
               PROVE  /\ Partner(i) \in Packets /\ ~(Partner(i) = n - 1 /\ IsOdd(n))
                      /\ Partner(i) # i /\ Partner(Partner(i)) = i
    BY Zenon
  <2>1. Partner(i) \in 0 .. n - 1 /\ ~(Partner(i) = n - 1 /\ IsOdd(n))
    <3> HIDE DEF n
    <3>1. QED BY <1>1, PartnerInside, Zenon
  <2>2. Partner(i) # i /\ Partner(Partner(i)) = i
    BY <1>1, PartnerFacts, Zenon
  <2>3. QED BY <1>1, <2>1, <2>2, Zenon
<1>3. \A i \in Packets : LeftLink(i) <=> (i = n - 1 /\ IsOdd(n))
  BY Zenon DEF LeftLink
<1>4. /\ DOMAIN LeftMate = {i \in Packets : ~LeftLink(i)}
      /\ \A i \in DOMAIN LeftMate : LeftMate[i] = Partner(i)
  BY Zenon DEF LeftMate
<1>5. /\ DOMAIN RightMate = {i \in Packets : ~(Dst(i) = n - 1 /\ IsOdd(n))}
      /\ \A i \in DOMAIN RightMate : RightMate[i] = Src(Partner(Dst(i)))
  BY Zenon DEF RightMate
<1> HIDE DEF n
<1>6. Mates(LeftMate, Packets)
  BY <1>2, <1>3, <1>4, Zenon DEF Mates
<1>7. \A i \in DOMAIN RightMate :
        /\ RightMate[i] \in Packets
        /\ Dst(RightMate[i]) = Partner(Dst(i))
  BY <1>1, <1>2, <1>5, Zenon
<1>8. Mates(RightMate, Packets)
  <2>1. \A i \in DOMAIN RightMate :
          RightMate[i] \in DOMAIN RightMate /\ RightMate[i] # i /\ RightMate[RightMate[i]] = i
    <3> SUFFICES ASSUME NEW i \in DOMAIN RightMate
                 PROVE  /\ RightMate[i] \in DOMAIN RightMate /\ RightMate[i] # i
                        /\ RightMate[RightMate[i]] = i
      BY Zenon
    <3>1. /\ i \in Packets /\ Dst(i) \in Packets /\ ~(Dst(i) = n - 1 /\ IsOdd(n))
          /\ RightMate[i] \in Packets /\ Dst(RightMate[i]) = Partner(Dst(i))
      BY <1>1, <1>5, <1>7, Zenon
    <3>2. /\ ~(Partner(Dst(i)) = n - 1 /\ IsOdd(n)) /\ Partner(Dst(i)) # Dst(i)
          /\ Partner(Partner(Dst(i))) = Dst(i)
      BY <1>2, <3>1, Zenon
    <3>3. RightMate[i] \in DOMAIN RightMate
      BY <1>5, <3>1, <3>2, Zenon
    <3>4. RightMate[RightMate[i]] = Src(Partner(Dst(RightMate[i])))
      BY <1>5, <3>3, Zenon
    <3>5. QED BY <1>1, <3>1, <3>2, <3>3, <3>4, Zenon
  <2>2. \A i, k \in Packets \ DOMAIN RightMate : i = k
    BY <1>1, <1>5
  <2>3. QED BY <1>5, <2>1, <2>2, Zenon DEF Mates
<1>9. \A i \in Packets : ~RightLink(Dst(i)) => i \in DOMAIN RightMate
  BY <1>5, Zenon DEF RightLink, n
<1>10. QED BY <1>4, <1>5, <1>6, <1>7, <1>8, <1>9, Zenon DEF n

-----------------------------------------------------------------------------
(***************************************************************************)
(* Routing packet i through half b, whichever way the walk goes.           *)
(***************************************************************************)

\* The mates of i that are routed go through the other half.
Agrees(R, B, i, b) ==
    /\ i \in DOMAIN LeftMate /\ LeftMate[i] \in R => b # B[LeftMate[i]]
    /\ i \in DOMAIN RightMate /\ RightMate[i] \in R => b # B[RightMate[i]]

\* Both switches of the packet send it to its half.
Turned(sws, new, i, b) ==
    /\ DOMAIN new = DOMAIN sws \cup (IF LeftLink(i) THEN {} ELSE {LeftSwitch(i)})
                               \cup (IF RightLink(Dst(i)) THEN {} ELSE {RightSwitch(Dst(i))})
    /\ \A w \in DOMAIN sws : new[w] = sws[w]
    /\ ~LeftLink(i) => new[LeftSwitch(i)] = (IsOdd(i) # b)
    /\ ~RightLink(Dst(i)) => new[RightSwitch(Dst(i))] = (IsOdd(Dst(i)) # b)

LEMMA AssignFacts ==
    ASSUME NEW f, NEW i, NEW v
    PROVE  /\ DOMAIN Assign(f, i, v) = DOMAIN f \cup {i}
           /\ Assign(f, i, v)[i] = v
           /\ \A k \in DOMAIN f : k # i => Assign(f, i, v)[k] = f[k]
  BY Zenon DEF Assign

LEMMA AlternatesAfter ==
    ASSUME NEW S, NEW m, NEW R, NEW B, NEW i, NEW b, i \in S, i \notin R, R \subseteq S,
           Mates(m, S), B \in [R -> BOOLEAN], Alternates(m, R, B),
           i \in DOMAIN m /\ m[i] \in R => b # B[m[i]]
    PROVE  Alternates(m, R \cup {i}, Assign(B, i, b))
<1> DEFINE C == Assign(B, i, b)
<1>1. C[i] = b /\ \A k \in R : C[k] = B[k]
  BY Zenon DEF Assign
<1> HIDE DEF C
<1> SUFFICES ASSUME NEW k \in R \cup {i}, k \in DOMAIN m, m[k] \in R \cup {i}
             PROVE  C[m[k]] # C[k]
  BY Zenon DEF Alternates, C
<1>2. m[k] # k /\ m[m[k]] = k
  BY Zenon DEF Mates
<1>3. CASE k = i
  BY <1>1, <1>2, <1>3, Zenon
<1>4. CASE m[k] = i
  BY <1>1, <1>2, <1>4, Zenon DEF Mates
<1>5. CASE k \in R /\ m[k] \in R
  BY <1>1, <1>5, Zenon DEF Alternates
<1>6. QED BY <1>3, <1>4, <1>5, Zenon

\* Where the switches of the two columns are, and who shares one.
LEMMA SwitchFacts ==
    ASSUME IsPermutation(Frame), Frame.n >= 3, NEW i \in Packets
    PROVE  /\ ~LeftLink(i) =>
                /\ LeftSwitch(i) \in Frame.sw .. Frame.sw + LeftSwitchCt - 1
                /\ LeftSwitch(LeftMate[i]) = LeftSwitch(i)
                /\ \A k \in Packets : LeftSwitch(k) = LeftSwitch(i) => k = i \/ k = LeftMate[i]
           /\ ~RightLink(Dst(i)) =>
                /\ RightSwitch(Dst(i)) \in Frame.sw + LeftSwitchCt .. Frame.sw + Frame.n - 2
                /\ RightSwitch(Dst(RightMate[i])) = RightSwitch(Dst(i))
                /\ \A k \in Packets : RightSwitch(Dst(k)) = RightSwitch(Dst(i)) =>
                                        k = i \/ k = RightMate[i]
<1> DEFINE n == Frame.n
           sw == Frame.sw
           lc == LeftSwitchCt
<1>1. n \in Nat /\ n >= 3 /\ sw \in Nat
  BY Zenon DEF IsPermutation
<1>2. lc = n \div 2
  BY Zenon DEF LeftSwitchCt
<1>3. /\ Packets = 0 .. n - 1 /\ Packets \subseteq Nat
      /\ \A k \in Packets : Dst(k) \in Packets
      /\ \A k, l \in Packets : Dst(k) = Dst(l) => k = l
  BY EndFacts, Zenon DEF Packets
<1>4. \A k : LeftSwitch(k) = sw + (k \div 2) /\ RightSwitch(k) = sw + lc + (k \div 2)
  BY Zenon DEF LeftSwitch, RightSwitch
<1>5. \A k : /\ LeftLink(k) <=> k = n - 1 /\ IsOdd(n)
             /\ RightLink(k) <=> k = n - 1 \/ (k = n - 2 /\ ~IsOdd(n))
  BY Zenon DEF LeftLink, RightLink
<1> HIDE DEF n, sw, lc
<1>6. \A k, l \in Nat : l \div 2 = k \div 2 => l = k \/ l = Partner(k)
  BY PartnerFacts, Zenon
<1>7. ASSUME ~LeftLink(i)
      PROVE  /\ LeftSwitch(i) \in sw .. sw + lc - 1
             /\ LeftSwitch(LeftMate[i]) = LeftSwitch(i)
             /\ \A k \in Packets : LeftSwitch(k) = LeftSwitch(i) => k = i \/ k = LeftMate[i]
  <2>1. i \div 2 \in 0 .. lc - 1
    BY <1>1, <1>2, <1>3, <1>5, <1>7 DEF IsOdd
  <2>2. LeftSwitch(i) \in sw .. sw + lc - 1
    BY <1>1, <1>2, <1>4, <2>1
  <2>3. LeftMate[i] = Partner(i) /\ Partner(i) \div 2 = i \div 2
    BY <1>3, <1>7, MateFacts, PartnerFacts, Zenon
  <2>4. ASSUME NEW k \in Packets, LeftSwitch(k) = LeftSwitch(i)
        PROVE  k = i \/ k = LeftMate[i]
    <3>1. k \div 2 = i \div 2
      BY <1>1, <1>3, <1>4, <2>4
    <3>2. QED BY <1>3, <1>6, <2>3, <3>1, Zenon
  <2>5. QED BY <1>4, <2>2, <2>3, <2>4, Zenon
<1>8. ASSUME ~RightLink(Dst(i))
      PROVE  /\ RightSwitch(Dst(i)) \in sw + lc .. sw + n - 2
             /\ RightSwitch(Dst(RightMate[i])) = RightSwitch(Dst(i))
             /\ \A k \in Packets : RightSwitch(Dst(k)) = RightSwitch(Dst(i)) =>
                                     k = i \/ k = RightMate[i]
  <2>1. PICK d \in Packets : d = Dst(i)
    BY <1>3, Zenon
  <2>2. d \div 2 \in 0 .. n - 2 - lc
    <3>1. d # n - 1 /\ (d = n - 2 => IsOdd(n))
      BY <1>5, <1>8, <2>1, Zenon
    <3>2. d \in 0 .. n - 1
      BY <1>3, Zenon
    <3>3. n = 2 * lc \/ n = 2 * lc + 1
      BY <1>1, <1>2
    <3>4. CASE n = 2 * lc
      <4>1. ~IsOdd(n)
        BY <1>1, <1>2, <3>4 DEF IsOdd
      <4>2. d =< 2 * lc - 3
        BY <1>1, <1>2, <3>1, <3>2, <3>4, <4>1
      <4>3. QED BY <1>1, <1>2, <3>2, <3>4, <4>2
    <3>5. CASE n = 2 * lc + 1
      <4>1. d =< 2 * lc - 1
        BY <1>1, <1>2, <3>1, <3>2, <3>5
      <4>2. QED BY <1>1, <1>2, <3>2, <3>5, <4>1
    <3>6. QED BY <3>3, <3>4, <3>5, Zenon
  <2>3. RightSwitch(d) \in sw + lc .. sw + n - 2
    BY <1>1, <1>2, <1>4, <2>2
  <2>4. /\ RightMate[i] \in Packets /\ Dst(RightMate[i]) = Partner(d)
        /\ Partner(d) \div 2 = d \div 2
    BY <1>3, <1>8, <2>1, MateFacts, PartnerFacts, Zenon
  <2>5. ASSUME NEW k \in Packets, RightSwitch(Dst(k)) = RightSwitch(Dst(i))
        PROVE  k = i \/ k = RightMate[i]
    <3>1. PICK e \in Packets : e = Dst(k)
      BY <1>3, Zenon
    <3>2. e \div 2 = d \div 2
      <4>1. sw + lc + (e \div 2) = sw + lc + (d \div 2)
        BY <1>4, <2>1, <2>5, <3>1, Zenon
      <4>2. e \div 2 \in Nat /\ d \div 2 \in Nat /\ lc \in Nat
        BY <1>1, <1>2, <1>3
      <4>3. QED BY <1>1, <4>1, <4>2
    <3>3. e = d \/ e = Partner(d)
      BY <1>3, <1>6, <3>2, Zenon
    <3>4. QED BY <1>3, <2>1, <2>4, <3>1, <3>3, Zenon
  <2>6. QED BY <1>4, <2>1, <2>3, <2>4, <2>5, Zenon
<1>9. QED BY <1>7, <1>8, Zenon DEF n, sw, lc

LEMMA SwitchesAfter ==
    ASSUME IsPermutation(Frame), Frame.n >= 3, NEW R, NEW B, NEW i, NEW b, NEW sws, NEW new,
           R \subseteq Packets, i \in Packets, i \notin R, B \in [R -> BOOLEAN],
           SwitchesTurned(R, B, sws), Turned(sws, new, i, b)
    PROVE  SwitchesTurned(R \cup {i}, Assign(B, i, b), new)
<1> DEFINE T == R \cup {i}
           C == Assign(B, i, b)
<1>1. C[i] = b /\ \A k \in R : C[k] = B[k]
  BY Zenon DEF Assign
<1> HIDE DEF C
<1>2. Frame.n \in Nat /\ Frame.sw \in Nat /\ LeftSwitchCt \in Nat /\ LeftSwitchCt =< Frame.n - 1
  BY DEF IsPermutation, LeftSwitchCt
<1>3. 0 .. Frame.sw - 1 \subseteq DOMAIN new
  BY Zenon DEF SwitchesTurned, Turned
<1>4. DOMAIN new \subseteq 0 .. Frame.sw + Frame.n - 2
  <2>1. ~LeftLink(i) => LeftSwitch(i) \in 0 .. Frame.sw + Frame.n - 2
    BY <1>2, SwitchFacts
  <2>2. ~RightLink(Dst(i)) => RightSwitch(Dst(i)) \in 0 .. Frame.sw + Frame.n - 2
    BY <1>2, SwitchFacts
  <2>3. QED BY <2>1, <2>2, Zenon DEF SwitchesTurned, Turned
<1>5. ASSUME NEW k \in Packets, ~LeftLink(k)
      PROVE  /\ k \in T => LeftSwitch(k) \in DOMAIN new /\ new[LeftSwitch(k)] = (IsOdd(k) # C[k])
             /\ LeftSwitch(k) \in DOMAIN new => k \in T \/ LeftMate[k] \in T
  <2>1. ASSUME k \in T
        PROVE  LeftSwitch(k) \in DOMAIN new /\ new[LeftSwitch(k)] = (IsOdd(k) # C[k])
    BY <1>1, <1>5, <2>1, Zenon DEF SwitchesTurned, Turned
  <2>2. ASSUME LeftSwitch(k) \in DOMAIN new
        PROVE  k \in T \/ LeftMate[k] \in T
    <3>1. CASE LeftSwitch(k) \in DOMAIN sws
      BY <1>5, <3>1, Zenon DEF SwitchesTurned
    <3>2. CASE ~LeftLink(i) /\ LeftSwitch(k) = LeftSwitch(i)
      BY <1>5, <3>2, SwitchFacts, Zenon
    <3>3. CASE ~RightLink(Dst(i)) /\ LeftSwitch(k) = RightSwitch(Dst(i))
      <4>1. LeftSwitch(k) \in Frame.sw .. Frame.sw + LeftSwitchCt - 1
        BY <1>5, SwitchFacts, Zenon
      <4>2. RightSwitch(Dst(i)) \in Frame.sw + LeftSwitchCt .. Frame.sw + Frame.n - 2
        BY <3>3, SwitchFacts, Zenon
      <4>3. QED BY <1>2, <3>3, <4>1, <4>2
    <3>4. QED BY <2>2, <3>1, <3>2, <3>3, Zenon DEF Turned
  <2>3. QED BY <2>1, <2>2, Zenon
<1>6. ASSUME NEW k \in Packets, ~RightLink(Dst(k))
      PROVE  /\ k \in T => /\ RightSwitch(Dst(k)) \in DOMAIN new
                           /\ new[RightSwitch(Dst(k))] = (IsOdd(Dst(k)) # C[k])
             /\ RightSwitch(Dst(k)) \in DOMAIN new => k \in T \/ RightMate[k] \in T
  <2>1. ASSUME k \in T
        PROVE  /\ RightSwitch(Dst(k)) \in DOMAIN new
               /\ new[RightSwitch(Dst(k))] = (IsOdd(Dst(k)) # C[k])
    BY <1>1, <1>6, <2>1, Zenon DEF SwitchesTurned, Turned
  <2>2. ASSUME RightSwitch(Dst(k)) \in DOMAIN new
        PROVE  k \in T \/ RightMate[k] \in T
    <3>1. CASE RightSwitch(Dst(k)) \in DOMAIN sws
      BY <1>6, <3>1, Zenon DEF SwitchesTurned
    <3>2. CASE ~RightLink(Dst(i)) /\ RightSwitch(Dst(k)) = RightSwitch(Dst(i))
      BY <1>6, <3>2, SwitchFacts, Zenon
    <3>3. CASE ~LeftLink(i) /\ RightSwitch(Dst(k)) = LeftSwitch(i)
      <4>1. LeftSwitch(i) \in Frame.sw .. Frame.sw + LeftSwitchCt - 1
        BY <3>3, SwitchFacts, Zenon
      <4>2. RightSwitch(Dst(k)) \in Frame.sw + LeftSwitchCt .. Frame.sw + Frame.n - 2
        BY <1>6, SwitchFacts, Zenon
      <4>3. QED BY <1>2, <3>3, <4>1, <4>2
    <3>4. QED BY <2>2, <3>1, <3>2, <3>3, Zenon DEF Turned
  <2>3. QED BY <2>1, <2>2, Zenon
<1> HIDE DEF T
<1>7. QED BY <1>3, <1>4, <1>5, <1>6, Zenon DEF SwitchesTurned, T, C

\* A switch of i that is set was set for its mate.
LEMMA SwitchOfMate ==
    ASSUME IsPermutation(Frame), Frame.n >= 3, NEW R, NEW B, NEW sws,
           R \subseteq Packets, B \in [R -> BOOLEAN], SwitchesTurned(R, B, sws),
           NEW i \in Packets, i \notin R
    PROVE  /\ ~LeftLink(i) =>
                /\ LeftSwitch(i) \in DOMAIN sws <=> LeftMate[i] \in R
                /\ LeftMate[i] \in R => sws[LeftSwitch(i)] = (IsOdd(i) = B[LeftMate[i]])
           /\ ~RightLink(Dst(i)) =>
                /\ RightSwitch(Dst(i)) \in DOMAIN sws <=> RightMate[i] \in R
                /\ RightMate[i] \in R =>
                     sws[RightSwitch(Dst(i))] = (IsOdd(Dst(i)) = B[RightMate[i]])
<1>1. ASSUME ~LeftLink(i)
      PROVE  /\ LeftSwitch(i) \in DOMAIN sws <=> LeftMate[i] \in R
             /\ LeftMate[i] \in R => sws[LeftSwitch(i)] = (IsOdd(i) = B[LeftMate[i]])
  <2>1. /\ LeftMate[i] = Partner(i) /\ i \in DOMAIN LeftMate
        /\ LeftMate[i] \in DOMAIN LeftMate /\ LeftMate[i] \in Packets
    BY <1>1, MateFacts, Zenon DEF Mates
  <2>2. ~LeftLink(LeftMate[i])
    BY <2>1, MateFacts, Zenon
  <2>3. IsOdd(LeftMate[i]) = ~IsOdd(i)
    BY <2>1, EndFacts, PartnerFacts, Zenon
  <2>4. LeftSwitch(LeftMate[i]) = LeftSwitch(i)
    BY <1>1, SwitchFacts, Zenon
  <2>5. LeftSwitch(i) \in DOMAIN sws => LeftMate[i] \in R
    BY <1>1, Zenon DEF SwitchesTurned
  <2>6. ASSUME LeftMate[i] \in R
        PROVE  /\ LeftSwitch(i) \in DOMAIN sws
               /\ sws[LeftSwitch(i)] = (IsOdd(i) = B[LeftMate[i]])
    <3>1. /\ LeftSwitch(LeftMate[i]) \in DOMAIN sws
          /\ sws[LeftSwitch(LeftMate[i])] = (IsOdd(LeftMate[i]) # B[LeftMate[i]])
      BY <2>1, <2>2, <2>6, Zenon DEF SwitchesTurned
    <3>2. /\ B[LeftMate[i]] \in BOOLEAN
          /\ IsOdd(i) \in BOOLEAN /\ IsOdd(LeftMate[i]) \in BOOLEAN
      BY <2>6, Zenon DEF IsOdd
    <3>3. (IsOdd(LeftMate[i]) # B[LeftMate[i]]) = (IsOdd(i) = B[LeftMate[i]])
      BY <2>3, <3>2, Zenon
    <3>4. sws[LeftSwitch(i)] = (IsOdd(LeftMate[i]) # B[LeftMate[i]])
      BY <2>4, <3>1, Zenon
    <3>5. QED BY <2>4, <3>1, <3>3, <3>4, Zenon
  <2>7. QED BY <2>5, <2>6, Zenon
<1>2. ASSUME ~RightLink(Dst(i))
      PROVE  /\ RightSwitch(Dst(i)) \in DOMAIN sws <=> RightMate[i] \in R
             /\ RightMate[i] \in R =>
                  sws[RightSwitch(Dst(i))] = (IsOdd(Dst(i)) = B[RightMate[i]])
  <2>1. /\ i \in DOMAIN RightMate /\ RightMate[i] \in Packets
        /\ Dst(RightMate[i]) = Partner(Dst(i)) /\ Dst(i) \in Nat
    BY <1>2, MateFacts, EndFacts, Zenon
  <2>2. ~RightLink(Dst(RightMate[i]))
    <3>1. Frame.n \in Nat /\ Dst(i) \in Packets
      BY EndFacts, Zenon
    <3>2. PICK d, n : d = Dst(i) /\ n = Frame.n
      BY Zenon
    <3>3. /\ n \in Nat /\ d \in 0 .. n - 1
          /\ d # n - 1 /\ (d = n - 2 => IsOdd(n))
      BY <1>2, <3>1, <3>2, Zenon DEF RightLink, Packets
    <3>4. Partner(d) # n - 1 /\ (Partner(d) = n - 2 => IsOdd(n))
      <4>1. PICK h \in Nat : h = d \div 2 /\ (d = 2 * h \/ d = 2 * h + 1)
        BY <3>3
      <4>2. PICK m \in Nat : m = n \div 2 /\ (n = 2 * m \/ n = 2 * m + 1)
        BY <3>3
      <4>3. CASE d = 2 * h
        BY <3>3, <4>2, <4>3 DEF Partner, IsOdd
      <4>4. CASE d = 2 * h + 1
        BY <3>3, <4>2, <4>4 DEF Partner, IsOdd
      <4>5. QED BY <4>1, <4>3, <4>4, Zenon
    <3>5. QED BY <2>1, <3>2, <3>4, Zenon DEF RightLink
  <2>3. IsOdd(Dst(RightMate[i])) = ~IsOdd(Dst(i))
    BY <2>1, PartnerFacts, Zenon
  <2>4. RightSwitch(Dst(RightMate[i])) = RightSwitch(Dst(i))
    BY <1>2, SwitchFacts, Zenon
  <2>5. RightSwitch(Dst(i)) \in DOMAIN sws => RightMate[i] \in R
    BY <1>2, Zenon DEF SwitchesTurned
  <2>6. ASSUME RightMate[i] \in R
        PROVE  /\ RightSwitch(Dst(i)) \in DOMAIN sws
               /\ sws[RightSwitch(Dst(i))] = (IsOdd(Dst(i)) = B[RightMate[i]])
    <3>1. /\ RightSwitch(Dst(RightMate[i])) \in DOMAIN sws
          /\ sws[RightSwitch(Dst(RightMate[i]))] = (IsOdd(Dst(RightMate[i])) # B[RightMate[i]])
      BY <2>1, <2>2, <2>6, Zenon DEF SwitchesTurned
    <3>2. /\ B[RightMate[i]] \in BOOLEAN
          /\ IsOdd(Dst(i)) \in BOOLEAN /\ IsOdd(Dst(RightMate[i])) \in BOOLEAN
      BY <2>6, Zenon DEF IsOdd
    <3>3. (IsOdd(Dst(RightMate[i])) # B[RightMate[i]]) = (IsOdd(Dst(i)) = B[RightMate[i]])
      BY <2>3, <3>2, Zenon
    <3>4. sws[RightSwitch(Dst(i))] = (IsOdd(Dst(RightMate[i])) # B[RightMate[i]])
      BY <2>4, <3>1, Zenon
    <3>5. QED BY <2>4, <3>1, <3>3, <3>4, Zenon
  <2>7. QED BY <2>5, <2>6, Zenon
<1>3. QED BY <1>1, <1>2, Zenon

LEMMA NodesAfter ==
    ASSUME IsPermutation(Frame), Frame.n >= 3, NEW R, NEW B, NEW i, NEW b \in BOOLEAN,
           NEW ivs, NEW new, R \subseteq Packets, i \in Packets, i \notin R,
           B \in [R -> BOOLEAN], NodesAssigned(R, B, ivs),
           DOMAIN new = DOMAIN ivs
                          \cup (IF LeftLink(i) THEN {} ELSE {LeftNode(i, b)})
                          \cup (IF RightLink(Dst(i)) THEN {} ELSE {RightNode(i, b)})
    PROVE  NodesAssigned(R \cup {i}, Assign(B, i, b), new)
<1> DEFINE C == Assign(B, i, b)
<1>1. C[i] = b /\ \A k \in R : C[k] = B[k]
  BY Zenon DEF Assign
<1> HIDE DEF C
<1>2. /\ Frame.n \in Nat /\ Frame.sw \in Nat /\ Frame.iv \in Nat /\ LeftSwitchCt \in Nat
      /\ LeftSwitchCt = Frame.n \div 2 /\ Dst(i) \in Nat /\ i \in Nat
  BY EndFacts, SMTT(30) DEF IsPermutation, LeftSwitchCt
<1>3. NodesEnd(Frame) \in Nat
  BY <1>2 DEF NodesEnd
<1>4. Bit(b) \in 0 .. 1
  BY DEF Bit
<1>5. ~LeftLink(i) => LeftNode(i, b) \in 0 .. NodesEnd(Frame) - 1
  <2> SUFFICES ASSUME ~LeftLink(i) PROVE LeftNode(i, b) \in 0 .. NodesEnd(Frame) - 1
    BY Zenon
  <2>1. Frame.sw + (i \div 2) =< Frame.sw + LeftSwitchCt - 1
    BY SwitchFacts DEF LeftSwitch
  <2>2. i \div 2 \in Nat /\ i \div 2 =< LeftSwitchCt - 1
    BY <1>2, <2>1
  <2>3. QED BY <1>2, <1>4, <2>2 DEF LeftNode, NodesEnd
<1>6. ~RightLink(Dst(i)) => RightNode(i, b) \in 0 .. NodesEnd(Frame) - 1
  <2> SUFFICES ASSUME ~RightLink(Dst(i)) PROVE RightNode(i, b) \in 0 .. NodesEnd(Frame) - 1
    BY Zenon
  <2>1. Frame.sw + LeftSwitchCt + (Dst(i) \div 2) =< Frame.sw + Frame.n - 2
    BY SwitchFacts DEF RightSwitch
  <2>2. PICK h \in Nat : h = Dst(i) \div 2
    BY <1>2
  <2>3. LeftSwitchCt + h =< Frame.n - 2
    BY <1>2, <2>1, <2>2
  <2>4. QED BY <1>2, <1>4, <2>2, <2>3, SMTT(30) DEF RightNode, NodesEnd
<1>7. /\ 0 .. Frame.iv - 1 \subseteq DOMAIN new
      /\ DOMAIN new \subseteq 0 .. NodesEnd(Frame) - 1
  BY <1>5, <1>6, Zenon DEF NodesAssigned
<1>8. ASSUME NEW k \in R \cup {i}
      PROVE  /\ ~LeftLink(k) => LeftNode(k, C[k]) \in DOMAIN new
             /\ ~RightLink(Dst(k)) => RightNode(k, C[k]) \in DOMAIN new
  <2>1. CASE k = i
    BY <1>1, <2>1, Zenon
  <2>2. CASE k \in R
    BY <1>1, <2>2, Zenon DEF NodesAssigned
  <2>3. QED BY <2>1, <2>2, Zenon
<1>9. QED BY <1>7, <1>8, Zenon DEF NodesAssigned, C

LEMMA FilledAfter ==
    ASSUME NEW A, NEW m, NEW h \in 0 .. m - 1, NEW v \in Packet, PartOf(A, m)
    PROVE  PartOf(Assign(A, h, v), m)
<1> DEFINE E == Assign(A, h, v)
<1>1. E = [k \in DOMAIN A \cup {h} |-> IF k = h THEN v ELSE A[k]]
  BY Zenon DEF Assign
<1>2. DOMAIN E = DOMAIN A \cup {h}
  BY <1>1, Zenon
<1>3. \A k \in DOMAIN A \cup {h} : (IF k = h THEN v ELSE A[k]) \in Packet
  BY Zenon DEF PartOf
<1> HIDE DEF E
<1>4. E \in [DOMAIN A \cup {h} -> Packet]
  BY <1>1, <1>3, Zenon
<1>5. PartOf(E, m)
  BY <1>2, <1>4, Zenon DEF PartOf
<1>6. QED BY <1>5, Zenon DEF E

\* The half of a packet on a link is the bottom one.
LEMMA HandAfter ==
    ASSUME IsPermutation(Frame), Frame.n >= 3, NEW R, NEW B, NEW i, NEW b \in BOOLEAN,
           NEW lp, NEW next, R \subseteq Packets, i \in Packets, i \notin R,
           B \in [R -> BOOLEAN], HandedOver(R, B, lp), Agrees(R, B, i, b),
           ~b => i \in DOMAIN LeftMate /\ i \in DOMAIN RightMate
    PROVE  HandedOver(R \cup {i}, Assign(B, i, b),
                      Hand(lp, Frame.left[i].data, i, Dst(i), b, next))
<1> DEFINE C == Assign(B, i, b)
           new == Hand(lp, Frame.left[i].data, i, Dst(i), b, next)
           n == Frame.n
           h == i \div 2
           g == Dst(i) \div 2
           P == HalfPacket(i)
<1>1. C[i] = b /\ \A k \in R : C[k] = B[k]
  BY Zenon DEF Assign
<1>2. /\ n \in Nat /\ n >= 3 /\ i \in 0 .. n - 1 /\ Dst(i) \in 0 .. n - 1
      /\ \A k \in Packets : k \in Nat /\ Dst(k) \in Nat
      /\ \A k, l \in Packets : Dst(k) = Dst(l) => k = l
  BY EndFacts, Zenon DEF Packets
<1>3. P \in Packet
  <2>1. Frame.left[i] \in Packet
    BY <1>2, Zenon DEF IsPermutation
  <2>2. Frame.left[i].data \in Nat
    BY <2>1, Zenon DEF Packet
  <2>3. QED BY <1>2, <2>2 DEF HalfPacket, Packet
<1>4. h \in 0 .. (n + 1) \div 2 - 1 /\ g \in 0 .. (n + 1) \div 2 - 1
  BY <1>2
<1>5. ~b => h \in 0 .. n \div 2 - 1 /\ g \in 0 .. n \div 2 - 1
  <2> SUFFICES ASSUME ~b PROVE h \in 0 .. n \div 2 - 1 /\ g \in 0 .. n \div 2 - 1
    BY Zenon
  <2>1. ~(i = n - 1 /\ IsOdd(n)) /\ ~(Dst(i) = n - 1 /\ IsOdd(n))
    BY MateFacts, Zenon DEF LeftLink
  <2>2. \A d \in 0 .. n - 1 : ~(d = n - 1 /\ IsOdd(n)) => d \div 2 \in 0 .. n \div 2 - 1
    BY <1>2 DEF IsOdd
  <2>3. QED BY <1>2, <2>1, <2>2, Zenon
\* Two packets of one half never share a place.
<1>6. ASSUME NEW k \in R, B[k] = b
      PROVE  k \div 2 # h /\ Dst(k) \div 2 # g
  <2>1. k \div 2 # h
    <3> SUFFICES ASSUME k \div 2 = h PROVE FALSE
      BY Zenon
    <3>1. k = Partner(i)
      BY <1>2, PartnerFacts, Zenon
    <3>2. ~LeftLink(i)
      <4> SUFFICES ASSUME LeftLink(i) PROVE FALSE
        BY Zenon
      <4>1. i = n - 1 /\ IsOdd(n)
        BY Zenon DEF LeftLink
      <4>2. Partner(i) = n
        BY <1>2, <4>1 DEF Partner, IsOdd
      <4>3. QED BY <1>2, <3>1, <4>2 DEF Packets
    <3>3. i \in DOMAIN LeftMate /\ LeftMate[i] = k
      BY <3>1, <3>2, MateFacts, Zenon
    <3>4. QED BY <1>6, <3>3, Zenon DEF Agrees
  <2>2. Dst(k) \div 2 # g
    <3> SUFFICES ASSUME Dst(k) \div 2 = g PROVE FALSE
      BY Zenon
    <3>0. Dst(k) # Dst(i) /\ Dst(k) \in 0 .. n - 1
      BY <1>2, EndFacts, Zenon DEF Packets
    <3>1. Dst(k) = Partner(Dst(i))
      BY <1>2, <3>0, PartnerFacts, Zenon
    <3>2. ~(Dst(i) = n - 1 /\ IsOdd(n))
      <4> SUFFICES ASSUME Dst(i) = n - 1 /\ IsOdd(n) PROVE FALSE
        BY Zenon
      <4>1. Partner(Dst(i)) = n
        BY <1>2 DEF Partner, IsOdd
      <4>2. QED BY <1>2, <3>0, <3>1, <4>1
    <3>3. i \in DOMAIN RightMate /\ RightMate[i] = k
      BY <1>2, <3>1, <3>2, MateFacts, ZenonT(30)
    <3>4. QED BY <1>6, <3>3, Zenon DEF Agrees
  <2>3. QED BY <2>1, <2>2, Zenon
<1>7. /\ new.routedL = R \cup {i}
      /\ new.routedR = {Dst(k) : k \in R \cup {i}}
      /\ new.topL = IF b THEN lp.topL ELSE Assign(lp.topL, h, P)
      /\ new.topR = IF b THEN lp.topR ELSE Assign(lp.topR, g, P)
      /\ new.botL = IF b THEN Assign(lp.botL, h, P) ELSE lp.botL
      /\ new.botR = IF b THEN Assign(lp.botR, g, P) ELSE lp.botR
  <2>1. lp.routedL = R /\ lp.routedR = {Dst(k) : k \in R}
    BY Zenon DEF HandedOver
  <2>2. new.routedL = lp.routedL \cup {i} /\ new.routedR = lp.routedR \cup {Dst(i)}
    BY Zenon DEF Hand
  <2>3. {Dst(k) : k \in R} \cup {Dst(i)} = {Dst(k) : k \in R \cup {i}}
    BY Zenon
  <2>4. /\ new.topL = IF b THEN lp.topL ELSE Assign(lp.topL, h, P)
        /\ new.topR = IF b THEN lp.topR ELSE Assign(lp.topR, g, P)
        /\ new.botL = IF b THEN Assign(lp.botL, h, P) ELSE lp.botL
        /\ new.botR = IF b THEN Assign(lp.botR, g, P) ELSE lp.botR
    BY Zenon DEF Hand, HalfPacket
  <2>5. QED BY <2>1, <2>2, <2>3, <2>4, Zenon
<1> HIDE DEF new, C, h, g, P, n
<1>8. /\ PartOf(lp.topL, n \div 2) /\ PartOf(lp.topR, n \div 2)
      /\ PartOf(lp.botL, (n + 1) \div 2) /\ PartOf(lp.botR, (n + 1) \div 2)
  BY Zenon DEF HandedOver, n
<1>9. CASE b
  <2>1. /\ new.topL = lp.topL /\ new.topR = lp.topR
        /\ new.botL = Assign(lp.botL, h, P) /\ new.botR = Assign(lp.botR, g, P)
    BY <1>7, <1>9, Zenon
  <2>2. PartOf(new.botL, (n + 1) \div 2) /\ PartOf(new.botR, (n + 1) \div 2)
    BY <1>3, <1>4, <1>8, <2>1, FilledAfter, SMTT(30)
  <2>3. /\ DOMAIN new.botL = DOMAIN lp.botL \cup {h} /\ new.botL[h] = P
        /\ \A d \in DOMAIN lp.botL : d # h => new.botL[d] = lp.botL[d]
        /\ DOMAIN new.botR = DOMAIN lp.botR \cup {g} /\ new.botR[g] = P
        /\ \A d \in DOMAIN lp.botR : d # g => new.botR[d] = lp.botR[d]
    <3>1. /\ DOMAIN new.botL = DOMAIN lp.botL \cup {h} /\ new.botL[h] = P
          /\ \A d \in DOMAIN lp.botL : d # h => new.botL[d] = lp.botL[d]
      BY <2>1, Zenon DEF Assign
    <3>2. /\ DOMAIN new.botR = DOMAIN lp.botR \cup {g} /\ new.botR[g] = P
          /\ \A d \in DOMAIN lp.botR : d # g => new.botR[d] = lp.botR[d]
      BY <2>1, Zenon DEF Assign
    <3>3. QED BY <3>1, <3>2, Zenon
  <2>4. ASSUME NEW k \in R \cup {i}
        PROVE  IF C[k]
               THEN /\ k \div 2 \in DOMAIN new.botL /\ new.botL[k \div 2] = HalfPacket(k)
                    /\ Dst(k) \div 2 \in DOMAIN new.botR
                    /\ new.botR[Dst(k) \div 2] = HalfPacket(k)
               ELSE /\ k \div 2 \in DOMAIN new.topL /\ new.topL[k \div 2] = HalfPacket(k)
                    /\ Dst(k) \div 2 \in DOMAIN new.topR
                    /\ new.topR[Dst(k) \div 2] = HalfPacket(k)
    <3>1. CASE k = i
      BY <1>1, <1>9, <2>3, <3>1, ZenonT(30) DEF h, g, P
    <3>2. CASE k \in R /\ B[k]
      <4>1. k \div 2 # h /\ Dst(k) \div 2 # g
        BY <1>6, <1>9, <3>2, Zenon
      <4>2. /\ k \div 2 \in DOMAIN lp.botL /\ lp.botL[k \div 2] = HalfPacket(k)
            /\ Dst(k) \div 2 \in DOMAIN lp.botR /\ lp.botR[Dst(k) \div 2] = HalfPacket(k)
        BY <3>2, Zenon DEF HandedOver
      <4>3. QED BY <1>1, <2>3, <3>2, <4>1, <4>2, Zenon
    <3>3. CASE k \in R /\ ~B[k]
      BY <1>1, <2>1, <3>3, Zenon DEF HandedOver
    <3>4. QED BY <3>1, <3>2, <3>3, Zenon
  <2>5. QED BY <1>7, <1>8, <2>1, <2>2, <2>4, ZenonT(30) DEF HandedOver, n, C, new
<1>10. CASE ~b
  <2>1. /\ new.botL = lp.botL /\ new.botR = lp.botR
        /\ new.topL = Assign(lp.topL, h, P) /\ new.topR = Assign(lp.topR, g, P)
    BY <1>7, <1>10, Zenon
  <2>2. PartOf(new.topL, n \div 2) /\ PartOf(new.topR, n \div 2)
    BY <1>3, <1>5, <1>8, <1>10, <2>1, FilledAfter, SMTT(30)
  <2>3. /\ DOMAIN new.topL = DOMAIN lp.topL \cup {h} /\ new.topL[h] = P
        /\ \A d \in DOMAIN lp.topL : d # h => new.topL[d] = lp.topL[d]
        /\ DOMAIN new.topR = DOMAIN lp.topR \cup {g} /\ new.topR[g] = P
        /\ \A d \in DOMAIN lp.topR : d # g => new.topR[d] = lp.topR[d]
    <3>1. /\ DOMAIN new.topL = DOMAIN lp.topL \cup {h} /\ new.topL[h] = P
          /\ \A d \in DOMAIN lp.topL : d # h => new.topL[d] = lp.topL[d]
      BY <2>1, Zenon DEF Assign
    <3>2. /\ DOMAIN new.topR = DOMAIN lp.topR \cup {g} /\ new.topR[g] = P
          /\ \A d \in DOMAIN lp.topR : d # g => new.topR[d] = lp.topR[d]
      BY <2>1, Zenon DEF Assign
    <3>3. QED BY <3>1, <3>2, Zenon
  <2>4. ASSUME NEW k \in R \cup {i}
        PROVE  IF C[k]
               THEN /\ k \div 2 \in DOMAIN new.botL /\ new.botL[k \div 2] = HalfPacket(k)
                    /\ Dst(k) \div 2 \in DOMAIN new.botR
                    /\ new.botR[Dst(k) \div 2] = HalfPacket(k)
               ELSE /\ k \div 2 \in DOMAIN new.topL /\ new.topL[k \div 2] = HalfPacket(k)
                    /\ Dst(k) \div 2 \in DOMAIN new.topR
                    /\ new.topR[Dst(k) \div 2] = HalfPacket(k)
    <3>1. CASE k = i
      BY <1>1, <1>10, <2>3, <3>1, Zenon DEF h, g, P
    <3>2. CASE k \in R /\ ~B[k]
      <4>0. B[k] = b
        BY <1>10, <3>2, Zenon
      <4>1. k \div 2 # h /\ Dst(k) \div 2 # g
        BY <1>6, <3>2, <4>0, Zenon
      <4>2. /\ k \div 2 \in DOMAIN lp.topL /\ lp.topL[k \div 2] = HalfPacket(k)
            /\ Dst(k) \div 2 \in DOMAIN lp.topR /\ lp.topR[Dst(k) \div 2] = HalfPacket(k)
        BY <3>2, Zenon DEF HandedOver
      <4>3. QED BY <1>1, <2>3, <3>2, <4>1, <4>2, Zenon
    <3>3. CASE k \in R /\ B[k]
      BY <1>1, <2>1, <3>3, Zenon DEF HandedOver
    <3>4. QED BY <3>1, <3>2, <3>3, Zenon
  <2>5. QED BY <1>7, <1>8, <2>1, <2>2, <2>4, ZenonT(30) DEF HandedOver, n, C, new
<1>11. QED BY <1>9, <1>10, Zenon DEF C, new
-----------------------------------------------------------------------------
(***************************************************************************)
(* The halves, when every packet is routed.                                *)
(***************************************************************************)

LEMMA AllRouted ==
    ASSUME IsPermutation(Frame), NEW R, NEW B, NEW sws, NEW ivs, NEW lp,
           Routed(R, B, sws, ivs, lp), Unrouted(lp.routedL) = {} \/ Unrouted(lp.routedR) = {}
    PROVE  R = Packets
<1>1. R \subseteq Packets /\ lp.routedL = R /\ lp.routedR = {Dst(i) : i \in R}
  BY Zenon DEF Routed, HandedOver
<1>2. CASE Unrouted(lp.routedL) = {}
  BY <1>1, <1>2, Zenon DEF Unrouted, Packets
<1>3. CASE Unrouted(lp.routedR) = {}
  <2>1. Packets \subseteq {Dst(i) : i \in R}
    BY <1>1, <1>3, Zenon DEF Unrouted, Packets
  <2>2. ASSUME NEW i \in Packets PROVE i \in R
    <3>1. Dst(i) \in Packets
      BY EndFacts, Zenon
    <3>2. PICK k \in R : Dst(k) = Dst(i)
      BY <2>1, <3>1, Zenon
    <3>3. k \in Packets
      BY <1>1, Zenon
    <3>4. k = i
      BY <3>2, <3>3, EndFacts, Zenon
    <3>5. QED BY <3>4, Zenon
  <2>3. QED BY <1>1, <2>2, Zenon
<1>4. QED BY <1>2, <1>3, Zenon

\* Each half has a packet at the m-th position of either column.
BothHalves(B, m) ==
    \A b \in BOOLEAN :
        /\ \E i \in Packets : B[i] = b /\ i \div 2 = m
        /\ \E i \in Packets : B[i] = b /\ Dst(i) \div 2 = m

LEMMA HalvesMeet ==
    ASSUME IsPermutation(Frame), Frame.n >= 3, NEW B \in [Packets -> BOOLEAN],
           Alternates(LeftMate, Packets, B), Alternates(RightMate, Packets, B),
           NEW m \in 0 .. (Frame.n \div 2) - 1
    PROVE  BothHalves(B, m)
<1> DEFINE n == Frame.n
<1>1. PICK i, k : /\ i \in Nat /\ k \in Nat /\ i = 2 * m /\ k = 2 * m + 1
                  /\ i \in Packets /\ k \in Packets /\ k < n
                  /\ i \div 2 = m /\ k \div 2 = m /\ Partner(i) = k /\ i # n - 1
  <2>1. n \in Nat /\ m \in Nat /\ 2 * m + 1 < n
    BY DEF IsPermutation
  <2>2. Partner(2 * m) = 2 * m + 1
    BY <2>1 DEF Partner, IsOdd
  <2>3. (2 * m) \div 2 = m /\ (2 * m + 1) \div 2 = m
    BY <2>1
  <2>4. 2 * m \in Packets /\ 2 * m + 1 \in Packets
    BY <2>1 DEF Packets
  <2>5. QED BY <2>1, <2>2, <2>3, <2>4
<1>2. B[i] # B[k] /\ B[i] \in BOOLEAN /\ B[k] \in BOOLEAN
  <2>1. ~LeftLink(i)
    BY <1>1, Zenon DEF LeftLink
  <2>2. i \in DOMAIN LeftMate /\ LeftMate[i] = k
    BY <1>1, <2>1, MateFacts, Zenon
  <2>3. QED BY <1>1, <2>2, Zenon DEF Alternates
<1>3. PICK s, t : /\ s \in Packets /\ t \in Packets /\ Dst(s) = i /\ Dst(t) = k
                  /\ B[s] # B[t] /\ B[s] \in BOOLEAN /\ B[t] \in BOOLEAN
  <2>1. PICK s, t : s = Src(i) /\ t = Src(k)
    BY Zenon
  <2>2. s \in Packets /\ t \in Packets /\ Dst(s) = i /\ Dst(t) = k
    BY <1>1, <2>1, EndFacts, Zenon
  <2>3. s \in DOMAIN RightMate
    BY <1>1, <2>2, MateFacts, Zenon
  <2>4. RightMate[s] \in Packets /\ Dst(RightMate[s]) = Dst(t)
    BY <1>1, <2>2, <2>3, MateFacts, Zenon
  <2>5. RightMate[s] = t
    BY <2>2, <2>4, EndFacts, Zenon
  <2>6. B[s] # B[t]
    BY <2>2, <2>3, <2>5, Zenon DEF Alternates
  <2>7. QED BY <2>2, <2>6, Zenon
<1>4. ASSUME NEW b \in BOOLEAN PROVE \E l \in Packets : B[l] = b /\ l \div 2 = m
  BY <1>1, <1>2, Zenon
<1>5. ASSUME NEW b \in BOOLEAN PROVE \E l \in Packets : B[l] = b /\ Dst(l) \div 2 = m
  <2>1. Dst(s) \div 2 = m /\ Dst(t) \div 2 = m
    BY <1>1, <1>3, Zenon
  <2>2. QED BY <1>3, <2>1
<1>6. QED BY <1>4, <1>5, Zenon DEF BothHalves

\* The packets P are in the arrays L and A of a half.
Fill(P, L, A) ==
    \A i \in P : /\ i \div 2 \in DOMAIN L /\ L[i \div 2] = HalfPacket(i)
                 /\ Dst(i) \div 2 \in DOMAIN A /\ A[Dst(i) \div 2] = HalfPacket(i)

LEMMA HalfIsPermutation ==
    ASSUME NEW h \in Nat, h >= 1, NEW sw \in Nat, NEW iv \in Nat, NEW L, NEW A, NEW P,
           PartOf(L, h), PartOf(A, h), Fill(P, L, A),
           \A m \in 0 .. h - 1 : \E i \in P : i \div 2 = m,
           \A m \in 0 .. h - 1 : \E i \in P : Dst(i) \div 2 = m
    PROVE  IsPermutation([n |-> h, left |-> L, right |-> A, sw |-> sw, iv |-> iv])
<1>1. DOMAIN L = 0 .. h - 1 /\ DOMAIN A = 0 .. h - 1
  BY Zenon DEF PartOf, Fill
<1>2. L \in [0 .. h - 1 -> Packet] /\ A \in [0 .. h - 1 -> Packet]
  BY <1>1, Zenon DEF PartOf
<1>3. \A i : HalfPacket(i).src = i \div 2 /\ HalfPacket(i).dst = Dst(i) \div 2
  BY Zenon DEF HalfPacket
<1>4. ASSUME NEW m \in 0 .. h - 1
      PROVE  L[m].src = m /\ L[m].dst \in 0 .. h - 1 /\ A[L[m].dst] = L[m]
  <2>1. PICK i \in P : i \div 2 = m
    BY Zenon
  <2>2. /\ L[m] = HalfPacket(i) /\ Dst(i) \div 2 \in 0 .. h - 1
        /\ A[Dst(i) \div 2] = HalfPacket(i)
    BY <1>1, <2>1, Zenon DEF Fill
  <2>3. QED BY <1>3, <2>1, <2>2, Zenon
<1>5. ASSUME NEW m \in 0 .. h - 1
      PROVE  A[m].dst = m /\ A[m].src \in 0 .. h - 1 /\ L[A[m].src] = A[m]
  <2>1. PICK i \in P : Dst(i) \div 2 = m
    BY Zenon
  <2>2. A[m] = HalfPacket(i) /\ i \div 2 \in 0 .. h - 1 /\ L[i \div 2] = HalfPacket(i)
    BY <1>1, <2>1, Zenon DEF Fill
  <2>3. QED BY <1>3, <2>1, <2>2, Zenon
<1> DEFINE f == [n |-> h, left |-> L, right |-> A, sw |-> sw, iv |-> iv]
<1>6. f.n = h /\ f.left = L /\ f.right = A /\ f.sw = sw /\ f.iv = iv
  BY Zenon
<1> HIDE DEF f
<1>7. IsPermutation(f)
  BY <1>2, <1>4, <1>5, <1>6, Zenon DEF IsPermutation
<1>8. QED BY <1>7, Zenon DEF f

\* When the walk is over, both halves are permutations.
LEMMA HalvesArePermutations ==
    ASSUME IsPermutation(Frame), Frame.n >= 3, NEW B, NEW sws, NEW ivs, NEW lp,
           Routed(Packets, B, sws, ivs, lp), LinksBelow(Packets, B),
           NEW s \in Nat, NEW v \in Nat, NEW t \in Nat, NEW u \in Nat
    PROVE  /\ IsPermutation([n |-> Frame.n \div 2, left |-> lp.topL, right |-> lp.topR,
                             sw |-> s, iv |-> v])
           /\ IsPermutation([n |-> (Frame.n + 1) \div 2, left |-> lp.botL, right |-> lp.botR,
                             sw |-> t, iv |-> u])
<1> DEFINE n == Frame.n
           Top == {i \in Packets : ~B[i]}
           Bottom == {i \in Packets : B[i]}
<1>1. n \in Nat /\ n >= 3 /\ Packets = 0 .. n - 1
  BY Zenon DEF IsPermutation, Packets
<1>2. /\ B \in [Packets -> BOOLEAN]
      /\ Alternates(LeftMate, Packets, B) /\ Alternates(RightMate, Packets, B)
      /\ HandedOver(Packets, B, lp)
  BY Zenon DEF Routed
<1>3. PICK a, b : /\ a \in Nat /\ a = n \div 2 /\ a >= 1
                  /\ b \in Nat /\ b = (n + 1) \div 2 /\ b >= 1
                  /\ (b = a \/ (b = a + 1 /\ n = 2 * a + 1))
  <2> HIDE DEF n
  <2>1. PICK a \in Nat : a = n \div 2 /\ (n = 2 * a \/ n = 2 * a + 1)
    BY <1>1
  <2>2. CASE n = 2 * a
    BY <1>1, <2>1, <2>2
  <2>3. CASE n = 2 * a + 1
    BY <1>1, <2>1, <2>3
  <2>4. QED BY <2>1, <2>2, <2>3, Zenon
<1>4. \A m \in 0 .. a - 1 : BothHalves(B, m)
  BY <1>2, <1>3, HalvesMeet, Zenon
<1>5. /\ PartOf(lp.topL, a) /\ PartOf(lp.topR, a) /\ PartOf(lp.botL, b) /\ PartOf(lp.botR, b)
      /\ Fill(Top, lp.topL, lp.topR) /\ Fill(Bottom, lp.botL, lp.botR)
  BY <1>2, <1>3, Zenon DEF HandedOver, Fill
<1>6. /\ \A m \in 0 .. a - 1 : \E i \in Top : i \div 2 = m
      /\ \A m \in 0 .. a - 1 : \E i \in Top : Dst(i) \div 2 = m
  BY <1>4, Zenon DEF BothHalves
<1>7. /\ \A m \in 0 .. b - 1 : \E i \in Bottom : i \div 2 = m
      /\ \A m \in 0 .. b - 1 : \E i \in Bottom : Dst(i) \div 2 = m
  <2> SUFFICES ASSUME NEW m \in 0 .. b - 1
               PROVE  (\E i \in Bottom : i \div 2 = m) /\ (\E i \in Bottom : Dst(i) \div 2 = m)
    BY Zenon
  <2>1. CASE m \in 0 .. a - 1
    BY <1>4, <2>1, Zenon DEF BothHalves
  <2>2. CASE m \notin 0 .. a - 1
    <3>1. m = a /\ n = 2 * a + 1 /\ (n - 1) \div 2 = m /\ n - 1 \in Packets /\ IsOdd(n)
      <4>1. m = a /\ n = 2 * a + 1
        BY <1>3, <2>2
      <4>2. n - 1 = 2 * a /\ n % 2 = 1 /\ (2 * a) \div 2 = a
        BY <1>3, <4>1
      <4>3. QED BY <1>1, <4>1, <4>2 DEF IsOdd
    <3>2. n - 1 \in Bottom
      BY <3>1, Zenon DEF LinksBelow, LeftLink
    <3>3. First \in Packets /\ Dst(First) = n - 1
      BY <3>1, EndFacts, Zenon DEF First
    <3>4. First \in Bottom
      BY <3>3, Zenon DEF LinksBelow
    <3>5. QED BY <3>1, <3>2, <3>3, <3>4, Zenon
  <2>3. QED BY <2>1, <2>2, Zenon
<1> HIDE DEF n, Top, Bottom
<1>8. IsPermutation([n |-> a, left |-> lp.topL, right |-> lp.topR, sw |-> s, iv |-> v])
  <2>1. PICK L, A : L = lp.topL /\ A = lp.topR
    BY Zenon
  <2>2. PartOf(L, a) /\ PartOf(A, a) /\ Fill(Top, L, A)
    BY <1>5, <2>1, Zenon
  <2>3. IsPermutation([n |-> a, left |-> L, right |-> A, sw |-> s, iv |-> v])
    BY <1>3, <1>6, <2>2, HalfIsPermutation, Zenon
  <2>4. QED BY <2>1, <2>3, Zenon
<1>9. IsPermutation([n |-> b, left |-> lp.botL, right |-> lp.botR, sw |-> t, iv |-> u])
  <2>1. PICK L, A : L = lp.botL /\ A = lp.botR
    BY Zenon
  <2>2. PartOf(L, b) /\ PartOf(A, b) /\ Fill(Bottom, L, A)
    BY <1>5, <2>1, Zenon
  <2>3. IsPermutation([n |-> b, left |-> L, right |-> A, sw |-> t, iv |-> u])
    BY <1>3, <1>7, <2>2, HalfIsPermutation, Zenon
  <2>4. QED BY <2>1, <2>3, Zenon
<1>10. QED BY <1>3, <1>8, <1>9, Zenon DEF n

\* The two columns are set completely.
LEMMA ColumnsSet ==
    ASSUME IsPermutation(Frame), Frame.n >= 3, NEW B, NEW sws,
           SwitchesTurned(Packets, B, sws)
    PROVE  DOMAIN sws = 0 .. Frame.sw + Frame.n - 2
<1> DEFINE n == Frame.n
           sw == Frame.sw
           lc == LeftSwitchCt
<1>1. n \in Nat /\ n >= 3 /\ sw \in Nat /\ Packets = 0 .. n - 1
  BY Zenon DEF IsPermutation, Packets
<1>2. /\ 0 .. sw - 1 \subseteq DOMAIN sws /\ DOMAIN sws \subseteq 0 .. sw + n - 2
      /\ \A i \in Packets : /\ ~LeftLink(i) => LeftSwitch(i) \in DOMAIN sws
                            /\ ~RightLink(Dst(i)) => RightSwitch(Dst(i)) \in DOMAIN sws
  BY Zenon DEF SwitchesTurned
<1>3. lc \in Nat /\ (n = 2 * lc \/ n = 2 * lc + 1)
  BY <1>1 DEF LeftSwitchCt
<1>4. \A k : LeftSwitch(k) = sw + (k \div 2) /\ RightSwitch(k) = sw + lc + (k \div 2)
  BY Zenon DEF LeftSwitch, RightSwitch
<1>5. \A k : /\ LeftLink(k) => k = n - 1
             /\ RightLink(k) => k = n - 1 \/ (k = n - 2 /\ ~IsOdd(n))
  BY Zenon DEF LeftLink, RightLink
<1>6. IsOdd(n) \/ n = 2 * lc
  BY <1>3 DEF IsOdd
<1> HIDE DEF n, sw, lc
<1>7. ASSUME NEW w \in sw .. sw + n - 2 PROVE w \in DOMAIN sws
  <2>1. CASE w < sw + lc
    <3>1. PICK i, m : /\ m \in Nat /\ m = w - sw /\ i \in Nat /\ i = 2 * m /\ i \div 2 = m
                      /\ i \in Packets /\ i < n - 1
      BY <1>1, <1>3, <2>1
    <3>2. ~LeftLink(i) /\ LeftSwitch(i) = w
      BY <1>1, <1>4, <1>5, <3>1
    <3>3. QED BY <1>2, <3>1, <3>2, Zenon
  <2>2. CASE w >= sw + lc
    <3>1. PICK j, m : /\ m \in Nat /\ m = w - sw - lc /\ j \in Nat /\ j = 2 * m
                      /\ j \div 2 = m /\ j \in Packets /\ j < n - 1
                      /\ n = 2 * lc => j < n - 2
      BY <1>1, <1>3, <2>2
    <3>2. ~RightLink(j) /\ RightSwitch(j) = w
      BY <1>1, <1>3, <1>4, <1>5, <1>6, <3>1, SMTT(30)
    <3>3. Src(j) \in Packets /\ Dst(Src(j)) = j
      BY <3>1, EndFacts, Zenon
    <3>4. QED BY <1>2, <3>2, <3>3, Zenon
  <2>3. QED BY <1>1, <1>3, <2>1, <2>2
<1>8. DOMAIN sws = 0 .. sw + n - 2
  <2>1. \A w \in 0 .. sw + n - 2 : w \in 0 .. sw - 1 \/ w \in sw .. sw + n - 2
    BY <1>1
  <2>2. QED BY <1>2, <1>7, <2>1, Zenon
<1>9. QED BY <1>8, Zenon DEF n, sw

\* The nodes of the two columns are all assigned.
LEMMA ColumnsAssigned ==
    ASSUME IsPermutation(Frame), Frame.n >= 3, NEW B \in [Packets -> BOOLEAN], NEW ivs,
           Alternates(LeftMate, Packets, B), Alternates(RightMate, Packets, B),
           NodesAssigned(Packets, B, ivs)
    PROVE  DOMAIN ivs = 0 .. NodesEnd(Frame) - 1
<1> DEFINE n == Frame.n
           iv == Frame.iv
           lc == LeftSwitchCt
           end == iv + (IF n = 3 THEN 3 ELSE 2 * (n - 1))
<1>1. n \in Nat /\ n >= 3 /\ iv \in Nat /\ Packets = 0 .. n - 1
  BY Zenon DEF IsPermutation, Packets
<1>2. /\ 0 .. iv - 1 \subseteq DOMAIN ivs /\ DOMAIN ivs \subseteq 0 .. end - 1
      /\ \A i \in Packets : /\ ~LeftLink(i) => LeftNode(i, B[i]) \in DOMAIN ivs
                            /\ ~RightLink(Dst(i)) => RightNode(i, B[i]) \in DOMAIN ivs
  BY Zenon DEF NodesAssigned, NodesEnd
<1>3. lc \in Nat /\ (n = 2 * lc \/ n = 2 * lc + 1) /\ lc = n \div 2
  BY <1>1 DEF LeftSwitchCt
<1>4. ASSUME NEW i, NEW b
      PROVE  /\ LeftNode(i, b) = iv + 2 * (i \div 2) + Bit(b)
             /\ n = 3 => RightNode(i, b) = iv + 2
             /\ n # 3 => RightNode(i, b) = iv + 2 * lc + 2 * (Dst(i) \div 2) + Bit(b)
  BY Zenon DEF LeftNode, RightNode
<1>5. \A k : /\ LeftLink(k) => k = n - 1 /\ n = 2 * lc + 1
             /\ RightLink(k) => k = n - 1 \/ (k = n - 2 /\ n = 2 * lc)
  BY <1>3 DEF LeftLink, RightLink, IsOdd
<1>6. \A m \in 0 .. lc - 1 : BothHalves(B, m)
  BY <1>3, HalvesMeet, Zenon
<1>7. \A j \in Packets : Src(j) \in Packets /\ Dst(Src(j)) = j
  BY EndFacts, Zenon
<1> HIDE DEF n, iv, lc
<1>8. ASSUME NEW v \in iv .. iv + 2 * lc - 1 PROVE v \in DOMAIN ivs
  <2>1. PICK m, b : /\ m \in 0 .. lc - 1 /\ b \in BOOLEAN
                    /\ v = iv + 2 * m + Bit(b)
    <3>1. PICK d \in Nat : d = v - iv /\ v = iv + d /\ d < 2 * lc
      BY <1>1, <1>3
    <3>2. PICK m \in Nat : m = d \div 2 /\ (d = 2 * m \/ d = 2 * m + 1)
      OBVIOUS
    <3>3. m \in 0 .. lc - 1
      BY <1>3, <3>1, <3>2
    <3>4. d = 2 * m + Bit(d # 2 * m) /\ Bit(d # 2 * m) \in Nat
      BY <3>2 DEF Bit
    <3>5. v = iv + 2 * m + Bit(d # 2 * m)
      BY <1>1, <3>1, <3>4, SMTT(30)
    <3>6. QED BY <3>3, <3>5, Zenon
  <2>2. PICK i \in Packets : B[i] = b /\ i \div 2 = m
    BY <1>6, <2>1, Zenon DEF BothHalves
  <2>3. ~LeftLink(i)
    BY <1>3, <1>5, <2>1, <2>2
  <2>4. LeftNode(i, B[i]) = v
    BY <1>4, <2>1, <2>2, Zenon
  <2>5. QED BY <1>2, <2>3, <2>4, Zenon
<1>9. ASSUME NEW v \in iv + 2 * lc .. end - 1 PROVE v \in DOMAIN ivs
  <2>1. CASE n = 3
    <3>1. 0 \in Packets /\ lc = 1 /\ v = iv + 2
      BY <1>1, <1>3, <2>1
    <3>2. ~RightLink(0)
      BY <1>5, <2>1, <3>1
    <3>3. PICK i \in Packets : Dst(i) = 0
      BY <1>7, <3>1, Zenon
    <3>4. RightNode(i, B[i]) = v
      BY <1>4, <2>1, <3>1, Zenon
    <3>5. QED BY <1>2, <3>2, <3>3, <3>4, Zenon
  <2>2. CASE n # 3
    <3>1. PICK m, b : /\ m \in 0 .. lc - 1 /\ b \in BOOLEAN /\ m < n - 1 - lc
                      /\ v = iv + 2 * lc + 2 * m + Bit(b)
      <4>1. PICK d \in Nat : /\ d = v - iv - 2 * lc /\ v = iv + 2 * lc + d
                             /\ d < 2 * (n - 1 - lc)
        BY <1>1, <1>3, <2>2
      <4>2. PICK m \in Nat : m = d \div 2 /\ (d = 2 * m \/ d = 2 * m + 1)
        OBVIOUS
      <4>3. m < n - 1 - lc /\ m \in 0 .. lc - 1
        BY <1>1, <1>3, <4>1, <4>2
      <4>4. d = 2 * m + Bit(d # 2 * m) /\ Bit(d # 2 * m) \in Nat
        BY <4>2 DEF Bit
      <4>5. v = iv + 2 * lc + 2 * m + Bit(d # 2 * m)
        BY <1>1, <1>3, <4>1, <4>4
      <4>6. QED BY <4>3, <4>5, Zenon
    <3>2. PICK i \in Packets : B[i] = b /\ Dst(i) \div 2 = m
      BY <1>6, <3>1, Zenon DEF BothHalves
    <3>3. ~RightLink(Dst(i))
      <4>1. SUFFICES ASSUME Dst(i) = n - 1 \/ (Dst(i) = n - 2 /\ n = 2 * lc) PROVE FALSE
        BY <1>5, Zenon
      <4>2. CASE n = 2 * lc
        BY <1>3, <3>1, <3>2, <4>1, <4>2
      <4>3. CASE n = 2 * lc + 1
        BY <1>3, <3>1, <3>2, <4>1, <4>3
      <4>4. QED BY <1>3, <4>2, <4>3, Zenon
    <3>4. RightNode(i, B[i]) = v
      BY <1>4, <2>2, <3>1, <3>2, Zenon
    <3>5. QED BY <1>2, <3>3, <3>4, Zenon
  <2>3. QED BY <2>1, <2>2, Zenon
<1>10. DOMAIN ivs = 0 .. end - 1
  <2>1. \A v \in 0 .. end - 1 : \/ v \in 0 .. iv - 1 \/ v \in iv .. iv + 2 * lc - 1
                                \/ v \in iv + 2 * lc .. end - 1
    BY <1>1, <1>3
  <2>2. QED BY <1>2, <1>8, <1>9, <2>1, Zenon
<1>11. QED BY <1>10, Zenon DEF n, iv, NodesEnd

-----------------------------------------------------------------------------
(***************************************************************************)
(* The steps of the walk in the model: routing a packet to the right or to *)
(* the left keeps the invariant of the walk, and fails no assertion.       *)
(***************************************************************************)
\* The steps of the walk leave the frame alone.
LEMMA SameFrame ==
    ASSUME frames' = frames, LoopOK(loop', switches', intermediate', pc')
    PROVE  LoopOK(loop, switches, intermediate, pc)'
<1>1. Frame' = Frame
  BY Zenon DEF Frame
<1>2. /\ Packets' = Packets /\ First' = First
      /\ \A i : Dst(i)' = Dst(i) /\ Src(i)' = Src(i) /\ HalfPacket(i)' = HalfPacket(i)
      /\ \A i : LeftLink(i)' = LeftLink(i) /\ RightLink(i)' = RightLink(i)
      /\ \A i : LeftSwitch(i)' = LeftSwitch(i) /\ RightSwitch(i)' = RightSwitch(i)
      /\ \A i, b : LeftNode(i, b)' = LeftNode(i, b) /\ RightNode(i, b)' = RightNode(i, b)
  BY <1>1, Zenon DEF Packets, First, Dst, Src, HalfPacket, LeftLink, RightLink, LeftSwitch, RightSwitch,
              LeftNode, RightNode, LeftSwitchCt
<1>3. LeftMate' = LeftMate
  BY <1>2, Zenon DEF LeftMate
<1>4. RightMate' = RightMate
  BY <1>1, <1>2, Zenon DEF RightMate
<1>5. \A R, B, sws : SwitchesTurned(R, B, sws)' = SwitchesTurned(R, B, sws)
  BY <1>1, <1>2, <1>3, <1>4 DEF SwitchesTurned
<1>6. \A R, B, ivs : NodesAssigned(R, B, ivs)' = NodesAssigned(R, B, ivs)
  BY <1>1, <1>2, Zenon DEF NodesAssigned, NodesEnd
<1>7. \A R, B, lp : HandedOver(R, B, lp)' = HandedOver(R, B, lp)
  <2>1. \A R : {Dst(i) : i \in R}' = {Dst(i) : i \in R}
    BY <1>2, Zenon
  <2>2. QED BY <1>1, <1>2, <2>1 DEF HandedOver
<1>8. \A R, B, sws, ivs, lp : Routed(R, B, sws, ivs, lp)' = Routed(R, B, sws, ivs, lp)
  BY <1>2, <1>3, <1>4, <1>5, <1>6, <1>7 DEF Routed
<1>9. \A R, B, at : /\ LinksBelow(R, B)' = LinksBelow(R, B)
                    /\ ThreeInOrder(R, B, at)' = ThreeInOrder(R, B, at)
  BY <1>1, <1>2, Zenon DEF LinksBelow, ThreeInOrder
<1>10. \A R, B, lp, at : Walking(R, B, lp, at)' = Walking(R, B, lp, at)
  <2>1. \A next, lp : Before(next, lp)' = Before(next, lp)
    BY <1>2, Zenon DEF Before
  <2> SUFFICES ASSUME NEW R, NEW B, NEW lp, NEW at
               PROVE  Walking(R, B, lp, at)' = Walking(R, B, lp, at)
    BY Zenon
  <2>2. /\ InCycle(LeftMate, RightMate, Packets, R, B, lp.next)'
             = InCycle(LeftMate, RightMate, Packets, R, B, lp.next)
        /\ InCycle(RightMate, LeftMate, Packets, R, B, Before(lp.next, lp))'
             = InCycle(RightMate, LeftMate, Packets, R, B, Before(lp.next, lp))
        /\ OnPath(LeftMate, RightMate, R, B, lp.next, TRUE)'
             = OnPath(LeftMate, RightMate, R, B, lp.next, TRUE)
        /\ OnPath(RightMate, LeftMate, R, B, Before(lp.next, lp), FALSE)'
             = OnPath(RightMate, LeftMate, R, B, Before(lp.next, lp), FALSE)
    BY <1>2, <1>3, <1>4, <2>1, Zenon
  <2>3. QED BY <2>2, Zenon DEF Walking
<1>11. QED BY <1>8, <1>9, <1>10, Zenon DEF LoopOK

\* The packets that are routed once packet i is handed over.
LEMMA HandFacts ==
    ASSUME NEW R, NEW B, NEW lp, HandedOver(R, B, lp), NEW data, NEW i, NEW b, NEW next
    PROVE  /\ Hand(lp, data, i, Dst(i), b, next).routedL = R \cup {i}
           /\ Hand(lp, data, i, Dst(i), b, next).routedR = {Dst(k) : k \in R \cup {i}}
           /\ Hand(lp, data, i, Dst(i), b, next).next = next
<1>1. lp.routedL = R /\ lp.routedR = {Dst(k) : k \in R}
  BY Zenon DEF HandedOver
<1>2. {Dst(k) : k \in R} \cup {Dst(i)} = {Dst(k) : k \in R \cup {i}}
  BY Zenon
<1>3. QED BY <1>1, <1>2, Zenon DEF Hand

\* The nodes that routing packet i through half b assigns.
Written(ivs, new, i, b) ==
    DOMAIN new = DOMAIN ivs
                   \cup (IF LeftLink(i) THEN {} ELSE {LeftNode(i, b)})
                   \cup (IF RightLink(Dst(i)) THEN {} ELSE {RightNode(i, b)})

RoutedOneMore(R, B, sws, ivs, lp, i, b, next, sws2, ivs2) ==
    /\ Assign(B, i, b) \in [R \cup {i} -> BOOLEAN]
    /\ Routed(R \cup {i}, Assign(B, i, b), sws2, ivs2,
              Hand(lp, Frame.left[i].data, i, Dst(i), b, next))

LEMMA RoutedAfter ==
    ASSUME IsPermutation(Frame), Frame.n >= 3,
           NEW R, NEW B, NEW sws, NEW ivs, NEW lp, Routed(R, B, sws, ivs, lp),
           NEW i \in Packets, i \notin R, NEW b \in BOOLEAN, NEW next, NEW sws2, NEW ivs2,
           Agrees(R, B, i, b), ~b => i \in DOMAIN LeftMate /\ i \in DOMAIN RightMate,
           Turned(sws, sws2, i, b), Written(ivs, ivs2, i, b)
    PROVE  RoutedOneMore(R, B, sws, ivs, lp, i, b, next, sws2, ivs2)
<1>1. /\ R \subseteq Packets /\ B \in [R -> BOOLEAN]
      /\ Alternates(LeftMate, R, B) /\ Alternates(RightMate, R, B)
      /\ SwitchesTurned(R, B, sws) /\ NodesAssigned(R, B, ivs) /\ HandedOver(R, B, lp)
  BY Zenon DEF Routed
<1>2. R \cup {i} \subseteq Packets
  BY <1>1, Zenon
<1>3. Assign(B, i, b) \in [R \cup {i} -> BOOLEAN]
  <2>1. DOMAIN B = R
    BY <1>1, Zenon
  <2>2. \A k \in R \cup {i} : (IF k = i THEN b ELSE B[k]) \in BOOLEAN
    BY <1>1, Zenon
  <2>3. [k \in R \cup {i} |-> IF k = i THEN b ELSE B[k]] \in [R \cup {i} -> BOOLEAN]
    BY <2>2, Zenon
  <2>4. QED BY <2>1, <2>3, Zenon DEF Assign
<1>4. Mates(LeftMate, Packets) /\ Mates(RightMate, Packets)
  BY MateFacts, Zenon
<1>5. Alternates(LeftMate, R \cup {i}, Assign(B, i, b))
  BY <1>1, <1>4, AlternatesAfter, Zenon DEF Agrees
<1>6. Alternates(RightMate, R \cup {i}, Assign(B, i, b))
  BY <1>1, <1>4, AlternatesAfter, Zenon DEF Agrees
<1>7. SwitchesTurned(R \cup {i}, Assign(B, i, b), sws2)
  BY <1>1, SwitchesAfter, Zenon
<1>8. NodesAssigned(R \cup {i}, Assign(B, i, b), ivs2)
  BY <1>1, NodesAfter, Zenon DEF Written
<1>9. HandedOver(R \cup {i}, Assign(B, i, b),
                 Hand(lp, Frame.left[i].data, i, Dst(i), b, next))
  BY <1>1, HandAfter, Zenon
<1>10. QED BY <1>2, <1>3, <1>5, <1>6, <1>7, <1>8, <1>9, Zenon DEF Routed, RoutedOneMore

\* The half that a switch sends a packet to.
LEMMA HalfOfSwitch ==
    ASSUME NEW i \in Nat, NEW s \in BOOLEAN, NEW b, b = IsOdd(Side(i, s))
    PROVE  /\ b \in BOOLEAN
           /\ s = (IsOdd(i) # b)
           /\ \A m \in BOOLEAN : s = (IsOdd(i) = m) => b # m
<1>1. b \in BOOLEAN /\ IsOdd(i) \in BOOLEAN
  BY Zenon DEF IsOdd
<1>2. b = (IsOdd(i) # s)
  BY SideFacts
<1>3. QED BY <1>1, <1>2, Zenon

LEMMA NodeOfSide ==
    ASSUME IsPermutation(Frame), NEW i \in Packets, NEW b \in BOOLEAN
    PROVE  /\ LeftVar(i, IsOdd(i) # b) = LeftNode(i, b)
           /\ RightVar(Dst(i), IsOdd(Dst(i)) # b) \in Int
           /\ Frame.n # 3 => RightVar(Dst(i), IsOdd(Dst(i)) # b) = RightNode(i, b)
           /\ Frame.n = 3 /\ ~RightLink(Dst(i)) =>
                RightVar(Dst(i), IsOdd(Dst(i)) # b) - Bit(b) = RightNode(i, b)
<1>1. /\ Frame.n \in Nat /\ Frame.iv \in Nat /\ LeftSwitchCt = Frame.n \div 2
      /\ i \in Nat /\ Dst(i) \in Nat /\ Dst(i) \in Packets
  BY EndFacts, Zenon DEF IsPermutation, LeftSwitchCt
<1>2. /\ Side(i, IsOdd(i) # b) = 2 * (i \div 2) + Bit(b)
      /\ Side(Dst(i), IsOdd(Dst(i)) # b) = 2 * (Dst(i) \div 2) + Bit(b)
  BY <1>1, SideFacts, Zenon
<1>3. Bit(b) \in 0 .. 1
  BY DEF Bit
<1>4. LeftVar(i, IsOdd(i) # b) = LeftNode(i, b)
  BY <1>1, <1>2, <1>3 DEF LeftVar, LeftNode
<1>5. /\ RightVar(Dst(i), IsOdd(Dst(i)) # b) \in Int
      /\ Frame.n # 3 => RightVar(Dst(i), IsOdd(Dst(i)) # b) = RightNode(i, b)
  BY <1>1, <1>2, <1>3 DEF RightVar, RightNode
<1>6. ASSUME Frame.n = 3, ~RightLink(Dst(i))
      PROVE  RightVar(Dst(i), IsOdd(Dst(i)) # b) - Bit(b) = RightNode(i, b)
  <2>1. Dst(i) \in 0 .. 1
    BY <1>1, <1>6 DEF RightLink, Packets
  <2>2. Dst(i) \div 2 = 0 /\ LeftSwitchCt = 1
    BY <1>1, <1>6, <2>1
  <2>3. QED BY <1>1, <1>2, <1>3, <1>6, <2>2 DEF RightVar, RightNode
<1>7. QED BY <1>4, <1>5, <1>6, Zenon

\* The packet of an output that is not routed yet.
LEMMA BeforeFacts ==
    ASSUME IsPermutation(Frame), NEW T, T \subseteq Packets, NEW lp,
           lp.routedR = {Dst(k) : k \in T}
    PROVE  /\ Before(-1, lp) = -1 /\ -1 \notin Packets
           /\ \A m \in Packets : Before(Dst(m), lp) = IF m \in T THEN -1 ELSE m
<1>1. -1 \notin Packets
  BY EndFacts DEF Packets
<1>2. ASSUME NEW m \in Packets PROVE Before(Dst(m), lp) = IF m \in T THEN -1 ELSE m
  <2>1. Dst(m) \in Packets /\ Src(Dst(m)) = m
    BY EndFacts, Zenon
  <2>2. Dst(m) \in lp.routedR <=> m \in T
    BY EndFacts, Zenon
  <2>3. QED BY <2>1, <2>2, Zenon DEF Before
<1>3. QED BY <1>1, <1>2, Zenon DEF Before

\* A packet that is not routed yet has a mate on the right.
LEMMA RightMateOfUnrouted ==
    ASSUME IsPermutation(Frame), NEW R, NEW B, LinksBelow(R, B), NEW i \in Packets, i \notin R
    PROVE  /\ i \in DOMAIN RightMate
           /\ RightLink(Dst(i)) => RightMate[i] = First
<1>1. /\ Frame.n \in Nat /\ Frame.n >= 1 /\ Frame.n - 1 \in Packets /\ Dst(i) \in Packets
      /\ Dst(First) = Frame.n - 1 /\ First \in Packets
  BY EndFacts DEF Packets, First
<1>2. Dst(i) # Frame.n - 1
  BY <1>1, EndFacts, Zenon DEF LinksBelow
<1>3. i \in DOMAIN RightMate /\ RightMate[i] \in Packets /\ Dst(RightMate[i]) = Partner(Dst(i))
  BY <1>2, MateFacts, Zenon
<1>4. ASSUME RightLink(Dst(i)) PROVE RightMate[i] = First
  <2>1. Dst(i) = Frame.n - 2 /\ ~IsOdd(Frame.n)
    BY <1>2, <1>4, Zenon DEF RightLink
  <2>2. Partner(Dst(i)) = Frame.n - 1
    BY <1>1, <2>1 DEF Partner, IsOdd, Packets
  <2>3. QED BY <1>1, <1>3, <2>2, EndFacts, Zenon
<1>5. QED BY <1>3, <1>4, Zenon

HasSet(sws, new, w, v) ==
    /\ DOMAIN new = DOMAIN sws \cup {w}
    /\ \A u \in DOMAIN sws : new[u] = sws[u]
    /\ w \notin DOMAIN sws => new[w] = v

LEMMA SetFacts ==
    ASSUME NEW sws, NEW w, NEW v
    PROVE  HasSet(sws, SetUnlessSet(sws, w, v), w, v)
  BY Zenon DEF HasSet, SetUnlessSet, Assign

SetLeft(sws, i, v) == IF LeftLink(i) THEN sws ELSE SetUnlessSet(sws, LeftSwitch(i), v)
SetRight(sws, i, v) ==
    IF RightLink(Dst(i)) THEN sws ELSE SetUnlessSet(sws, RightSwitch(Dst(i)), v)

\* Setting the two switches unless they are set turns both the right way,
\* in either order.
LEMMA TurnsBoth ==
    ASSUME IsPermutation(Frame), Frame.n >= 3, NEW R, NEW B, NEW sws,
           R \subseteq Packets, B \in [R -> BOOLEAN], SwitchesTurned(R, B, sws),
           NEW i \in Packets, i \notin R, NEW b \in BOOLEAN, Agrees(R, B, i, b), NEW vl, NEW vr,
           ~LeftLink(i) /\ LeftMate[i] \notin R => vl = (IsOdd(i) # b),
           ~RightLink(Dst(i)) /\ RightMate[i] \notin R => vr = (IsOdd(Dst(i)) # b)
    PROVE  /\ Turned(sws, SetRight(SetLeft(sws, i, vl), i, vr), i, b)
           /\ Turned(sws, SetLeft(SetRight(sws, i, vr), i, vl), i, b)
<1> DEFINE l == LeftSwitch(i)
           r == RightSwitch(Dst(i))
           vL == (IsOdd(i) # b)
           vR == (IsOdd(Dst(i)) # b)
<1>1. ASSUME ~LeftLink(i)
      PROVE  l \in DOMAIN sws => sws[l] = vL
  <2>1. l \in DOMAIN sws => LeftMate[i] \in R /\ sws[l] = (IsOdd(i) = B[LeftMate[i]])
    BY <1>1, SwitchOfMate
  <2>2. LeftMate[i] \in R => b # B[LeftMate[i]] /\ B[LeftMate[i]] \in BOOLEAN
    BY <1>1, MateFacts, Zenon DEF Agrees
  <2>3. IsOdd(i) \in BOOLEAN
    BY Zenon DEF IsOdd
  <2>4. LeftMate[i] \in R => (IsOdd(i) = B[LeftMate[i]]) = vL
    BY <2>2, <2>3, Zenon
  <2>5. QED BY <2>1, <2>4, Zenon
<1>2. ASSUME ~RightLink(Dst(i))
      PROVE  r \in DOMAIN sws => sws[r] = vR
  <2>1. r \in DOMAIN sws => RightMate[i] \in R /\ sws[r] = (IsOdd(Dst(i)) = B[RightMate[i]])
    BY <1>2, SwitchOfMate
  <2>2. RightMate[i] \in R => b # B[RightMate[i]] /\ B[RightMate[i]] \in BOOLEAN
    BY <1>2, MateFacts, Zenon DEF Agrees
  <2>3. IsOdd(Dst(i)) \in BOOLEAN
    BY Zenon DEF IsOdd
  <2>4. RightMate[i] \in R => (IsOdd(Dst(i)) = B[RightMate[i]]) = vR
    BY <2>2, <2>3, Zenon
  <2>5. QED BY <2>1, <2>4, Zenon
<1>3. ~LeftLink(i) /\ ~RightLink(Dst(i)) => l # r
  <2>1. Frame.sw \in Nat /\ LeftSwitchCt \in Nat
    BY DEF IsPermutation, LeftSwitchCt
  <2>2. QED BY <2>1, SwitchFacts
<1>4. ~LeftLink(i) /\ l \notin DOMAIN sws => vl = vL
  BY SwitchOfMate, Zenon
<1>5. ~RightLink(Dst(i)) /\ r \notin DOMAIN sws => vr = vR
  BY SwitchOfMate, Zenon
<1> HIDE DEF l, r, vL, vR
<1>6. Turned(sws, SetRight(SetLeft(sws, i, vl), i, vr), i, b)
  <2> DEFINE s1 == SetLeft(sws, i, vl)
             s2 == SetRight(s1, i, vr)
  <2>1. /\ DOMAIN s1 = DOMAIN sws \cup (IF LeftLink(i) THEN {} ELSE {l})
        /\ \A w \in DOMAIN sws : s1[w] = sws[w]
        /\ ~LeftLink(i) => s1[l] = vL
    <3>1. CASE LeftLink(i)
      BY <3>1, Zenon DEF SetLeft
    <3>2. CASE ~LeftLink(i)
      <4>1. s1 = SetUnlessSet(sws, l, vl)
        BY <3>2, Zenon DEF l, SetLeft
      <4>2. HasSet(sws, s1, l, vl)
        BY <4>1, SetFacts, Zenon
      <4>3. QED BY <1>1, <1>4, <3>2, <4>2, Zenon DEF HasSet
    <3>3. QED BY <3>1, <3>2, Zenon
  <2> HIDE DEF s1
  <2>2. /\ DOMAIN s2 = DOMAIN s1 \cup (IF RightLink(Dst(i)) THEN {} ELSE {r})
        /\ \A w \in DOMAIN s1 : s2[w] = s1[w]
        /\ ~RightLink(Dst(i)) /\ r \notin DOMAIN s1 => s2[r] = vr
    <3>1. CASE RightLink(Dst(i))
      BY <3>1, Zenon DEF SetRight
    <3>2. CASE ~RightLink(Dst(i))
      <4>1. s2 = SetUnlessSet(s1, r, vr)
        BY <3>2, Zenon DEF r, SetRight
      <4>2. HasSet(s1, s2, r, vr)
        BY <4>1, SetFacts, Zenon
      <4>3. QED BY <3>2, <4>2, Zenon DEF HasSet
    <3>3. QED BY <3>1, <3>2, Zenon
  <2> HIDE DEF s2
  <2>3. ~LeftLink(i) => s2[l] = vL
    BY <2>1, <2>2, Zenon
  <2>4. ~RightLink(Dst(i)) => s2[r] = vR
    BY <1>2, <1>3, <1>5, <2>1, <2>2, Zenon
  <2>5. Turned(sws, s2, i, b)
    BY <2>1, <2>2, <2>3, <2>4, Zenon DEF Turned, l, r, vL, vR
  <2>6. QED BY <2>5, Zenon DEF s1, s2
<1>7. Turned(sws, SetLeft(SetRight(sws, i, vr), i, vl), i, b)
  <2> DEFINE s1 == SetRight(sws, i, vr)
             s2 == SetLeft(s1, i, vl)
  <2>1. /\ DOMAIN s1 = DOMAIN sws \cup (IF RightLink(Dst(i)) THEN {} ELSE {r})
        /\ \A w \in DOMAIN sws : s1[w] = sws[w]
        /\ ~RightLink(Dst(i)) => s1[r] = vR
    <3>1. CASE RightLink(Dst(i))
      BY <3>1, Zenon DEF SetRight
    <3>2. CASE ~RightLink(Dst(i))
      <4>1. s1 = SetUnlessSet(sws, r, vr)
        BY <3>2, Zenon DEF r, SetRight
      <4>2. HasSet(sws, s1, r, vr)
        BY <4>1, SetFacts, Zenon
      <4>3. QED BY <1>2, <1>5, <3>2, <4>2, Zenon DEF HasSet
    <3>3. QED BY <3>1, <3>2, Zenon
  <2> HIDE DEF s1
  <2>2. /\ DOMAIN s2 = DOMAIN s1 \cup (IF LeftLink(i) THEN {} ELSE {l})
        /\ \A w \in DOMAIN s1 : s2[w] = s1[w]
        /\ ~LeftLink(i) /\ l \notin DOMAIN s1 => s2[l] = vl
    <3>1. CASE LeftLink(i)
      BY <3>1, Zenon DEF SetLeft
    <3>2. CASE ~LeftLink(i)
      <4>1. s2 = SetUnlessSet(s1, l, vl)
        BY <3>2, Zenon DEF l, SetLeft
      <4>2. HasSet(s1, s2, l, vl)
        BY <4>1, SetFacts, Zenon
      <4>3. QED BY <3>2, <4>2, Zenon DEF HasSet
    <3>3. QED BY <3>1, <3>2, Zenon
  <2> HIDE DEF s2
  <2>3. ~RightLink(Dst(i)) => s2[r] = vR
    BY <2>1, <2>2, Zenon
  <2>4. ~LeftLink(i) => s2[l] = vL
    BY <1>1, <1>3, <1>4, <2>1, <2>2, Zenon
  <2>5. Turned(sws, s2, i, b)
    BY <2>1, <2>2, <2>3, <2>4, Zenon DEF Turned, l, r, vL, vR
  <2>6. QED BY <2>5, Zenon DEF s1, s2
<1>8. QED BY <1>6, <1>7, Zenon

-----------------------------------------------------------------------------
(***************************************************************************)
(* The walk from left to right.                                            *)
(***************************************************************************)

\* It never starts from the link of an odd network.
LEMMA LeftNeverLink ==
    ASSUME IsPermutation(Frame), NEW R, NEW B, NEW lp, Walking(R, B, lp, "left"),
           B \in [R -> BOOLEAN], NEW i \in Packets, i \notin R,
           lp.next \in Packets \ R => i = lp.next
    PROVE  i \in DOMAIN LeftMate /\ ~LeftLink(i)
<1>1. Mates(LeftMate, Packets) /\ Mates(RightMate, Packets)
  BY MateFacts, Zenon
<1>2. CASE InCycle(LeftMate, RightMate, Packets, R, B, lp.next)
  BY <1>2, MateFacts, Zenon DEF InCycle
<1>3. CASE OnPath(LeftMate, RightMate, R, B, lp.next, TRUE)
  <2>1. PICK e \in R : Open(LeftMate, R) = {e} /\ lp.next = LeftMate[e]
    BY <1>3, Zenon DEF OnPath
  <2>2. e \in DOMAIN LeftMate /\ LeftMate[e] \notin R
    BY <2>1, Zenon DEF Open
  <2>3. lp.next \in Packets \ R /\ lp.next \in DOMAIN LeftMate
    BY <1>1, <2>1, <2>2, Zenon DEF Mates
  <2>4. QED BY <2>3, MateFacts, Zenon
<1>4. QED BY <1>2, <1>3, Zenon DEF Walking

LeftGoesOn(R, B, i, b, y) ==
    /\ Agrees(R, B, i, b)
    /\ \/ InCycle(RightMate, LeftMate, Packets, R \cup {i}, Assign(B, i, b), y)
       \/ OnPath(RightMate, LeftMate, R \cup {i}, Assign(B, i, b), y, FALSE)
    /\ Frame.n = 3 => R = {First} /\ ~b

LEMMA LeftWalk ==
    ASSUME IsPermutation(Frame), NEW R, NEW B, NEW lp, R \subseteq Packets,
           B \in [R -> BOOLEAN], LinksBelow(R, B), ThreeInOrder(R, B, "left"),
           Walking(R, B, lp, "left"), NEW i \in Packets, i \notin R, NEW b \in BOOLEAN, NEW y,
           ComesTo(LeftMate, Packets, R, B, lp.next, i, b),
           lp.next \notin Packets \ R => \A k \in Packets \ R : i =< k,
           LeftMate[i] \notin R => b = IsOdd(i),
           GoesTo(RightMate, Packets, R, i, y)
    PROVE  LeftGoesOn(R, B, i, b, y)
<1>1. Mates(LeftMate, Packets) /\ Mates(RightMate, Packets)
  BY MateFacts, Zenon
<1>2. i \in DOMAIN LeftMate /\ i \in DOMAIN RightMate
  BY LeftNeverLink, RightMateOfUnrouted, Zenon DEF ComesTo
<1>3. Frame.n = 3 => R = {First}
  BY Zenon DEF ThreeInOrder
<1>4. CASE InCycle(LeftMate, RightMate, Packets, R, B, lp.next)
  <2>1. /\ RightMate[i] \in R => b # B[RightMate[i]]
        /\ InCycle(RightMate, LeftMate, Packets, R \cup {i}, Assign(B, i, b), y)
    <3>1. CycleGoesOn(LeftMate, RightMate, Packets, R, B, i, b, y)
      BY <1>1, <1>4, CycleStep
    <3>2. QED BY <3>1, Zenon DEF CycleGoesOn
  <2>2. ASSUME Frame.n = 3 PROVE ~b
    <3>1. Packets = 0 .. 2 /\ R = {First} /\ \A k : LeftLink(k) <=> k = 2
      BY <1>3, <2>2 DEF Packets, LeftLink, IsOdd
    <3>2. First = 2
      BY <1>4, <3>1, MateFacts DEF InCycle
    <3>3. LeftMate[i] \in Packets /\ LeftMate[i] \in DOMAIN LeftMate /\ LeftMate[i] # 2
      BY <1>1, <1>2, <3>1, MateFacts, Zenon DEF Mates
    <3>4. LeftMate[i] \notin R
      BY <3>1, <3>2, <3>3, Zenon
    <3>5. lp.next \notin Packets \ R
      <4>1. \A e \in R : e \notin DOMAIN LeftMate
        BY <3>1, <3>2, MateFacts, Zenon
      <4>2. QED BY <1>4, <4>1, Zenon DEF InCycle
    <3>6. i = 0
      BY <3>1, <3>2, <3>5
    <3>7. QED BY <3>4, <3>6 DEF IsOdd
  <2>3. QED BY <1>2, <1>3, <2>1, <2>2, Zenon DEF Agrees, ComesTo, LeftGoesOn
<1>5. CASE OnPath(LeftMate, RightMate, R, B, lp.next, TRUE)
  <2>1. /\ i = lp.next /\ LeftMate[i] \in R /\ B[LeftMate[i]] = TRUE
        /\ RightMate[i] \notin R
        /\ OnPath(RightMate, LeftMate, R \cup {i}, Assign(B, i, ~TRUE), RightMate[i], ~TRUE)
    <3>1. PathGoesOn(LeftMate, RightMate, R, B, lp.next, TRUE, i)
      BY <1>1, <1>5, PathStep, Zenon DEF ComesTo
    <3>2. QED BY <1>2, <3>1, Zenon DEF PathGoesOn
  <2>2. b = ~TRUE /\ ~TRUE = FALSE /\ y = RightMate[i]
    BY <2>1, Zenon DEF ComesTo, GoesTo
  <2>3. OnPath(RightMate, LeftMate, R \cup {i}, Assign(B, i, b), y, FALSE)
    BY <2>1, <2>2, Zenon
  <2>4. QED BY <1>3, <2>1, <2>2, <2>3, Zenon DEF Agrees, LeftGoesOn
<1>6. QED BY <1>4, <1>5, Zenon DEF Walking

\* What a step from left to right does to packet i: the switch on its left, set
\* or just set, sends it through half b, and the switch on its right follows.
LeftTakes(R, B, i, b) ==
    /\ ComesTo(LeftMate, Packets, R, B, loop.next, i, b)
    /\ loop.next \notin Packets \ R => \A k \in Packets \ R : i =< k
    /\ LeftMate[i] \notin R => b = IsOdd(i)
    /\ ~LeftLink(i)
    /\ switches' = SetRight(SetLeft(switches, i, FALSE), i, IsOdd(Dst(i)) # b)
    /\ intermediate' = IF RightLink(Dst(i))
                       THEN Assign(intermediate, LeftVar(i, IsOdd(i) # b), Frame.left[i].data)
                       ELSE Assign(Assign(intermediate, LeftVar(i, IsOdd(i) # b), Frame.left[i].data),
                                   RightVar(Dst(i), IsOdd(Dst(i)) # b), Frame.left[i].data)
    /\ loop' = Hand(loop, Frame.left[i].data, i, Dst(i), b,
                    IF RightLink(Dst(i)) THEN -1 ELSE Partner(Dst(i)))
    /\ pc' = IF RightLink(Dst(i)) \/ switches'[RightSwitch(Dst(i))] = (IsOdd(Dst(i)) # b)
             THEN "right" ELSE "abort"

LEMMA LeftStep ==
    ASSUME IsPermutation(Frame), Frame.n >= 3, RouteLeftToRight,
           NEW B \in [loop.routedL -> BOOLEAN], LinksBelow(loop.routedL, B),
           Routed(loop.routedL, B, switches, intermediate, loop),
           Walking(loop.routedL, B, loop, "left")
    PROVE  \E i \in Packets \ loop.routedL : \E b \in BOOLEAN : LeftTakes(loop.routedL, B, i, b)
<1> DEFINE R == loop.routedL
<1>1. PICK i \in Unrouted(R) : Following(i, loop.next, R) /\ GoRight(i)
  BY Zenon DEF RouteLeftToRight
<1> DEFINE sw1 == SetUnlessSet(switches, LeftSwitch(i), FALSE)
           s == sw1[LeftSwitch(i)]
           b == IsOdd(Side(i, s))
<1>2. /\ i \in Packets \ R
      /\ loop.next \in Packets \ R => i = loop.next
      /\ loop.next \notin Packets \ R => \A k \in Packets \ R : i =< k
  BY <1>1, Zenon DEF Unrouted, Following, Packets
<1>3. R \subseteq Packets /\ SwitchesTurned(R, B, switches)
  BY Zenon DEF Routed
<1>4. i \in DOMAIN LeftMate /\ ~LeftLink(i) /\ i \in Nat
  BY <1>2, LeftNeverLink, EndFacts, Zenon
\* The switch gives the half.
<1>5. /\ s \in BOOLEAN
      /\ LeftMate[i] \in R => s = (IsOdd(i) = B[LeftMate[i]]) /\ B[LeftMate[i]] \in BOOLEAN
      /\ LeftMate[i] \notin R => s = FALSE
  <2>1. HasSet(switches, sw1, LeftSwitch(i), FALSE)
    BY SetFacts, Zenon
  <2>2. /\ LeftSwitch(i) \in DOMAIN switches <=> LeftMate[i] \in R
        /\ LeftMate[i] \in R => switches[LeftSwitch(i)] = (IsOdd(i) = B[LeftMate[i]])
    BY <1>2, <1>3, <1>4, SwitchOfMate
  <2> HIDE DEF sw1
  <2>3. LeftMate[i] \in R => s = (IsOdd(i) = B[LeftMate[i]])
    BY <2>1, <2>2, Zenon DEF HasSet
  <2>4. LeftMate[i] \notin R => s = FALSE
    BY <2>1, <2>2, Zenon DEF HasSet
  <2>5. LeftMate[i] \in R => B[LeftMate[i]] \in BOOLEAN /\ (IsOdd(i) = B[LeftMate[i]]) \in BOOLEAN
    BY Zenon
  <2> HIDE DEF s
  <2>6. CASE LeftMate[i] \in R
    BY <2>3, <2>5, <2>6, Zenon
  <2>7. CASE LeftMate[i] \notin R
    BY <2>4, <2>7, Zenon
  <2>8. QED BY <2>6, <2>7, Zenon
<1>6. /\ b \in BOOLEAN /\ s = (IsOdd(i) # b)
      /\ LeftMate[i] \in R => b # B[LeftMate[i]]
      /\ LeftMate[i] \notin R => b = IsOdd(i)
  <2> HIDE DEF s
  <2>1. b \in BOOLEAN /\ s = (IsOdd(i) # b) /\ \A m \in BOOLEAN : s = (IsOdd(i) = m) => b # m
    BY <1>4, <1>5, HalfOfSwitch, Zenon
  <2>2. s = FALSE => b = IsOdd(i)
    BY Zenon DEF Side
  <2>3. QED BY <1>5, <2>1, <2>2, Zenon
<1>7. ComesTo(LeftMate, Packets, R, B, loop.next, i, b)
  BY <1>2, <1>6, Zenon DEF ComesTo
<1>8. LeftTakes(R, B, i, b)
  <2>1. (~LeftLink(i) /\ s) = s /\ (LeftLink(i) \/ b) = b /\ SetLeft(switches, i, FALSE) = sw1
    BY <1>4, <1>5, <1>6, Zenon DEF SetLeft
  <2>2. /\ switches' = IF RightLink(Dst(i)) THEN sw1
                       ELSE SetUnlessSet(sw1, RightSwitch(Dst(i)), IsOdd(Dst(i)) # b)
        /\ intermediate' = IF RightLink(Dst(i))
                           THEN Assign(intermediate, LeftVar(i, s), Frame.left[i].data)
                           ELSE Assign(Assign(intermediate, LeftVar(i, s), Frame.left[i].data),
                                       RightVar(Dst(i), IsOdd(Dst(i)) # b), Frame.left[i].data)
        /\ loop' = Hand(loop, Frame.left[i].data, i, Dst(i), b,
                        IF RightLink(Dst(i)) THEN -1 ELSE Partner(Dst(i)))
        /\ pc' = IF RightLink(Dst(i)) \/ switches'[RightSwitch(Dst(i))] = (IsOdd(Dst(i)) # b)
                 THEN "right" ELSE "abort"
    BY <1>1, <1>4, <2>1, Zenon DEF GoRight, Dst
  <2> HIDE DEF s, b, sw1
  <2>3. QED BY <1>2, <1>4, <1>6, <1>7, <2>1, <2>2, Zenon DEF LeftTakes, SetRight
<1>9. QED BY <1>2, <1>6, <1>8, Zenon

LEMMA LeftToRight ==
    ASSUME IsPermutation(Frame), Frame.n >= 3,
           LoopOK(loop, switches, intermediate, "left"), RouteLeftToRight
    PROVE  /\ pc' = "right"
           /\ LoopOK(loop', switches', intermediate', "right")
<1> DEFINE R == loop.routedL
<1>1. PICK B \in [R -> BOOLEAN] : /\ Routed(R, B, switches, intermediate, loop)
                                  /\ LinksBelow(R, B)
                                  /\ ThreeInOrder(R, B, "left")
                                  /\ Walking(R, B, loop, "left")
  BY Zenon DEF LoopOK
<1>2. PICK i \in Packets \ R : \E b \in BOOLEAN : LeftTakes(R, B, i, b)
  BY <1>1, LeftStep, Zenon
<1>3. PICK b \in BOOLEAN : LeftTakes(R, B, i, b)
  BY <1>2, Zenon
<1> DEFINE next == IF RightLink(Dst(i)) THEN -1 ELSE Partner(Dst(i))
           y == Before(next, loop')
<1>4. R \subseteq Packets /\ SwitchesTurned(R, B, switches)
  BY <1>1, Zenon DEF Routed
<1>5. i \in DOMAIN RightMate /\ (RightLink(Dst(i)) => RightMate[i] = First)
  BY <1>1, RightMateOfUnrouted, Zenon
<1>6. loop'.routedL = R \cup {i} /\ loop'.next = next
       /\ loop'.routedR = {Dst(k) : k \in R \cup {i}}
  <2> DEFINE lp == Hand(loop, Frame.left[i].data, i, Dst(i), b, next)
  <2>1. HandedOver(R, B, loop)
    BY <1>1, Zenon DEF Routed
  <2>2. loop' = lp
    BY <1>3, Zenon DEF LeftTakes
  <2> HIDE DEF next
  <2>3. lp.routedL = R \cup {i} /\ lp.routedR = {Dst(k) : k \in R \cup {i}} /\ lp.next = next
    BY <2>1, HandFacts, SMTT(30)
  <2>4. QED BY <2>2, <2>3, Zenon
<1>7. GoesTo(RightMate, Packets, R, i, y)
  <2>1. /\ Before(-1, loop') = -1 /\ -1 \notin Packets
        /\ \A m \in Packets : Before(Dst(m), loop') = IF m \in R \cup {i} THEN -1 ELSE m
    <3>1. R \cup {i} \subseteq Packets
      BY <1>4, Zenon
    <3>2. QED BY <1>6, <3>1, BeforeFacts, Zenon
  <2>2. RightMate[i] \in Packets /\ Dst(RightMate[i]) = Partner(Dst(i)) /\ RightMate[i] # i
    BY <1>5, MateFacts, Zenon DEF Mates
  <2>3. CASE RightLink(Dst(i))
    BY <1>1, <1>5, <2>1, <2>3, Zenon DEF LinksBelow, GoesTo
  <2>4. CASE ~RightLink(Dst(i))
    BY <2>1, <2>2, <2>4, Zenon DEF GoesTo
  <2>5. QED BY <2>3, <2>4, Zenon
<1> HIDE DEF next, y
<1>8. LeftGoesOn(R, B, i, b, y)
  <2>1. /\ ComesTo(LeftMate, Packets, R, B, loop.next, i, b)
        /\ loop.next \notin Packets \ R => \A k \in Packets \ R : i =< k
        /\ LeftMate[i] \notin R => b = IsOdd(i)
    BY <1>3, Zenon DEF LeftTakes
  <2>2. QED BY <1>1, <1>4, <1>7, <2>1, LeftWalk, SMTT(30)
<1>9. Agrees(R, B, i, b)
  BY <1>8, Zenon DEF LeftGoesOn
<1>10. Turned(switches, switches', i, b)
  <2>1. PICK vl, vr : vl = FALSE /\ vr = (IsOdd(Dst(i)) # b)
    BY Zenon
  <2>2. /\ LeftMate[i] \notin R => vl = (IsOdd(i) # b)
        /\ switches' = SetRight(SetLeft(switches, i, vl), i, vr)
    BY <1>3, <2>1, ZenonT(30) DEF LeftTakes
  <2>3. Turned(switches, SetRight(SetLeft(switches, i, vl), i, vr), i, b)
    BY <1>4, <1>9, <2>1, <2>2, TurnsBoth
  <2>4. QED BY <2>2, <2>3, Zenon
<1>11. pc' = "right"
  BY <1>3, <1>10, Zenon DEF LeftTakes, Turned
<1>12. Written(intermediate, intermediate', i, b)
  <2>1. LeftVar(i, IsOdd(i) # b) = LeftNode(i, b)
    BY NodeOfSide, Zenon
  <2>2. ~RightLink(Dst(i)) => RightVar(Dst(i), IsOdd(Dst(i)) # b) = RightNode(i, b)
    <3>1. CASE Frame.n # 3
      BY <3>1, NodeOfSide, Zenon
    <3>2. ASSUME Frame.n = 3, ~RightLink(Dst(i))
          PROVE  RightVar(Dst(i), IsOdd(Dst(i)) # b) = RightNode(i, b)
      <4>1. Bit(b) = 0
        BY <1>8, <3>2, Zenon DEF Bit, LeftGoesOn
      <4>2. /\ RightVar(Dst(i), IsOdd(Dst(i)) # b) \in Int
            /\ RightVar(Dst(i), IsOdd(Dst(i)) # b) - Bit(b) = RightNode(i, b)
        BY <3>2, NodeOfSide, Zenon
      <4>3. QED BY <4>1, <4>2, SMTT(30)
    <3>3. QED BY <3>1, <3>2, Zenon
  <2>3. \A f, d, v : DOMAIN Assign(f, v, d) = DOMAIN f \cup {v}
    BY Zenon DEF Assign
  <2>4. PICK ivs : ivs = Assign(intermediate, LeftNode(i, b), Frame.left[i].data)
    BY Zenon
  <2>5. DOMAIN ivs = DOMAIN intermediate \cup {LeftNode(i, b)} /\ ~LeftLink(i)
    BY <1>3, <2>3, <2>4, ZenonT(30) DEF LeftTakes
  <2>6. CASE RightLink(Dst(i))
    <3>1. intermediate' = ivs
      BY <1>3, <2>1, <2>4, <2>6, Zenon DEF LeftTakes
    <3>2. QED BY <2>5, <2>6, <3>1, Zenon DEF Written
  <2>7. CASE ~RightLink(Dst(i))
    <3>1. intermediate' = Assign(ivs, RightNode(i, b), Frame.left[i].data)
      BY <1>3, <2>1, <2>2, <2>4, <2>7, Zenon DEF LeftTakes
    <3>2. DOMAIN intermediate' = DOMAIN ivs \cup {RightNode(i, b)}
      BY <2>3, <3>1, Zenon
    <3>3. QED BY <2>5, <2>7, <3>2, Zenon DEF Written
  <2>8. QED BY <2>6, <2>7, Zenon
<1>13. /\ Assign(B, i, b) \in [R \cup {i} -> BOOLEAN]
       /\ Routed(R \cup {i}, Assign(B, i, b), switches', intermediate', loop')
  <2>1. i \in DOMAIN LeftMate
    BY <1>3, MateFacts, Zenon DEF LeftTakes
  <2>2. RoutedOneMore(R, B, switches, intermediate, loop, i, b, next, switches', intermediate')
    <3>1. i \in Packets /\ i \notin R /\ Routed(R, B, switches, intermediate, loop)
      BY <1>1, Zenon
    <3>2. ~b => i \in DOMAIN LeftMate /\ i \in DOMAIN RightMate
      BY <1>5, <2>1, Zenon
    <3> HIDE DEF R
    <3>3. QED BY <1>9, <1>10, <1>12, <3>1, <3>2, RoutedAfter, Zenon
  <2>3. QED BY <1>3, <2>2, ZenonT(30) DEF RoutedOneMore, LeftTakes, next
<1>14. Assign(B, i, b)[i] = b /\ \A k \in R : Assign(B, i, b)[k] = B[k]
  BY Zenon DEF Assign
<1>15. LinksBelow(R \cup {i}, Assign(B, i, b))
  BY <1>1, <1>3, <1>14, Zenon DEF LinksBelow, LeftTakes
<1>16. ThreeInOrder(R \cup {i}, Assign(B, i, b), "right")
  BY <1>8, <1>14, Zenon DEF ThreeInOrder, LeftGoesOn
<1>17. Walking(R \cup {i}, Assign(B, i, b), loop', "right")
  BY <1>6, <1>8, Zenon DEF Walking, LeftGoesOn, y
<1>18. QED BY <1>6, <1>11, <1>13, <1>15, <1>16, <1>17, Zenon DEF LoopOK

-----------------------------------------------------------------------------
(***************************************************************************)
(* The walk from right to left.                                            *)
(***************************************************************************)

RightGoesOn(R, B, i, b, y) ==
    /\ Agrees(R, B, i, b)
    /\ LeftLink(i) => b
    /\ \/ InCycle(LeftMate, RightMate, Packets, R \cup {i}, Assign(B, i, b), y)
       \/ OnPath(LeftMate, RightMate, R \cup {i}, Assign(B, i, b), y, TRUE)
    /\ Frame.n = 3 => R \cup {i} = Packets /\ b

LEMMA RightWalk ==
    ASSUME IsPermutation(Frame), NEW R, NEW B, NEW lp, R \subseteq Packets,
           B \in [R -> BOOLEAN], LinksBelow(R, B), ThreeInOrder(R, B, "right"),
           Walking(R, B, lp, "right"), NEW i \in Packets, i \notin R, NEW b \in BOOLEAN, NEW y,
           ComesTo(RightMate, Packets, R, B, Before(lp.next, lp), i, b),
           i \in DOMAIN LeftMate => GoesTo(LeftMate, Packets, R, i, y),
           i \notin DOMAIN LeftMate => y \notin Packets
    PROVE  RightGoesOn(R, B, i, b, y)
<1> DEFINE x == Before(lp.next, lp)
<1>1. Mates(LeftMate, Packets) /\ Mates(RightMate, Packets)
  BY MateFacts, Zenon
<1>2. i \in DOMAIN RightMate
  BY RightMateOfUnrouted, Zenon
<1>3. ASSUME Frame.n = 3 PROVE R \cup {i} = Packets /\ b
  <2>1. PICK e \in R : e # First /\ R = {First, e} /\ ~B[e]
    BY <1>3, Zenon DEF ThreeInOrder
  <2>2. Packets = 0 .. 2
    BY <1>3 DEF Packets
  <2>3. First \in 0 .. 2 /\ e \in 0 .. 2 /\ i \in 0 .. 2 /\ i # First /\ i # e
    BY <2>1, <2>2, Zenon
  <2>4. R \cup {i} = Packets
    BY <2>1, <2>2, <2>3
  <2>5. /\ Dst(First) = 2 /\ Dst(e) \in 0 .. 2 /\ Dst(i) \in 0 .. 2
        /\ Dst(e) # 2 /\ Dst(i) # 2 /\ Dst(i) # Dst(e)
    <3>1. Dst(First) = 2
      BY <1>3, <2>2, EndFacts DEF First
    <3>2. QED BY <2>1, <2>2, <2>3, <3>1, EndFacts, Zenon
  <2>6. Partner(Dst(i)) = Dst(e)
    BY <2>5, SMTT(30) DEF Partner, IsOdd
  <2>7. RightMate[i] = e
    BY <1>2, <2>2, <2>3, <2>6, MateFacts, EndFacts, SMTT(30)
  <2>8. QED BY <2>1, <2>4, <2>7, Zenon DEF ComesTo
<1>4. CASE InCycle(RightMate, LeftMate, Packets, R, B, x)
  <2>1. i \in DOMAIN LeftMate
    BY <1>4, Zenon DEF InCycle
  <2>2. CycleGoesOn(RightMate, LeftMate, Packets, R, B, i, b, y)
    BY <1>1, <1>4, <2>1, CycleStep
  <2>3. ~LeftLink(i)
    BY <2>1, MateFacts, Zenon
  <2>4. QED BY <1>2, <1>3, <2>2, <2>3, Zenon DEF CycleGoesOn, Agrees, ComesTo, RightGoesOn
<1>5. CASE OnPath(RightMate, LeftMate, R, B, x, FALSE)
  <2>1. PathGoesOn(RightMate, LeftMate, R, B, x, FALSE, i)
    BY <1>1, <1>5, PathStep, ZenonT(30) DEF ComesTo
  <2>2. RightMate[i] \in R /\ B[RightMate[i]] = FALSE
    BY <2>1, Zenon DEF PathGoesOn
  <2>3. b = TRUE /\ ~FALSE = TRUE
    BY <2>2, Zenon DEF ComesTo
  <2>4. CASE i \in DOMAIN LeftMate
    <3>1. /\ LeftMate[i] \notin R
          /\ OnPath(LeftMate, RightMate, R \cup {i}, Assign(B, i, ~FALSE), LeftMate[i], ~FALSE)
      BY <2>1, <2>4, Zenon DEF PathGoesOn
    <3>2. y = LeftMate[i]
      BY <2>4, <3>1, Zenon DEF GoesTo
    <3>3. OnPath(LeftMate, RightMate, R \cup {i}, Assign(B, i, b), y, TRUE)
      BY <2>3, <3>1, <3>2, Zenon
    <3>4. QED BY <1>3, <2>2, <2>3, <3>1, <3>3, ZenonT(30) DEF Agrees, RightGoesOn
  <2>5. CASE i \notin DOMAIN LeftMate
    <3>1. Open(RightMate, R \cup {i}) = {} /\ Open(LeftMate, R \cup {i}) = {}
      BY <2>1, <2>5, Zenon DEF PathGoesOn
    <3>2. Packets \ (R \cup {i}) \subseteq DOMAIN LeftMate
      BY <1>1, <2>5, Zenon DEF Mates
    <3>3. Packets \ (R \cup {i}) \subseteq DOMAIN RightMate
      BY RightMateOfUnrouted, Zenon
    <3>4. InCycle(LeftMate, RightMate, Packets, R \cup {i}, Assign(B, i, b), y)
      BY <2>5, <3>1, <3>2, <3>3, Zenon DEF InCycle
    <3>5. QED BY <1>3, <2>2, <2>3, <2>5, <3>4, ZenonT(30) DEF Agrees, RightGoesOn
  <2>6. QED BY <2>4, <2>5, Zenon
<1>6. QED BY <1>4, <1>5, Zenon DEF Walking

\* What a step from right to left does to the packet of output Dst(i), which
\* came in at i: a packet on a link goes through the top half.
RightTakes(R, B, i, b) ==
    /\ ComesTo(RightMate, Packets, R, B, Before(loop.next, loop), i, b)
    /\ ~RightLink(Dst(i)) /\ RightMate[i] \notin R => FALSE = (IsOdd(Dst(i)) # b)
    /\ switches' = SetLeft(SetRight(switches, i, FALSE), i, IsOdd(i) # b)
    /\ \E ivs : /\ ivs = IF RightLink(Dst(i)) THEN intermediate
                         ELSE Assign(intermediate, RightVar(Dst(i), IsOdd(Dst(i)) # b) - IsThree,
                                     Frame.left[i].data)
                /\ intermediate' = IF LeftLink(i) THEN ivs
                                   ELSE Assign(ivs, LeftVar(i, IsOdd(i) # b), Frame.left[i].data)
    /\ loop' = Hand(loop, Frame.left[i].data, i, Dst(i), b,
                    IF LeftLink(i) THEN -1 ELSE Partner(i))
    /\ pc' = IF LeftLink(i) \/ switches'[LeftSwitch(i)] = (IsOdd(i) # b)
             THEN "left" ELSE "abort"

LEMMA RightStep ==
    ASSUME IsPermutation(Frame), Frame.n >= 3, RouteRightToLeft,
           NEW B \in [loop.routedL -> BOOLEAN], LinksBelow(loop.routedL, B),
           Routed(loop.routedL, B, switches, intermediate, loop)
    PROVE  \E i \in Packets \ loop.routedL : \E b \in BOOLEAN : RightTakes(loop.routedL, B, i, b)
<1> DEFINE R == loop.routedL
<1>1. PICK j \in Unrouted(loop.routedR) : Following(j, loop.next, loop.routedR) /\ GoLeft(j)
  BY Zenon DEF RouteRightToLeft
<1> DEFINE i == Src(j)
           sw1 == SetRight(switches, i, FALSE)
           s == IF RightLink(j) THEN FALSE ELSE sw1[RightSwitch(j)]
           b == IF RightLink(j) THEN FALSE ELSE IsOdd(Side(j, s))
<1>2. R \subseteq Packets /\ SwitchesTurned(R, B, switches) /\ loop.routedR = {Dst(k) : k \in R}
  BY Zenon DEF Routed, HandedOver
<1>3. /\ j \in Packets /\ j \in Nat /\ i \in Packets \ R /\ Dst(i) = j
      /\ Frame.right[j].data = Frame.left[i].data
  <2>1. j \in Packets /\ j \notin loop.routedR
    BY <1>1, Zenon DEF Unrouted, Packets
  <2>2. Frame.left[i] = Frame.right[j]
    BY <2>1, Zenon DEF IsPermutation, Src, Packets
  <2>3. QED BY <1>2, <2>1, <2>2, EndFacts, SMTT(30)
<1>4. Before(loop.next, loop) \in Packets \ R => i = Before(loop.next, loop)
  <2>1. -1 \notin Packets
    BY DEF Packets
  <2>2. loop.next \in Packets \ loop.routedR => j = loop.next
    BY <1>1, Zenon DEF Following, Unrouted, Packets
  <2>3. QED BY <2>1, <2>2, Zenon DEF Before
\* The switch gives the half.
<1>5. ASSUME ~RightLink(j)
      PROVE  /\ s \in BOOLEAN
             /\ RightMate[i] \in R =>
                  s = (IsOdd(j) = B[RightMate[i]]) /\ B[RightMate[i]] \in BOOLEAN
             /\ RightMate[i] \notin R => s = FALSE
  <2> HIDE DEF i
  <2>1. HasSet(switches, sw1, RightSwitch(j), FALSE)
    BY <1>3, <1>5, SetFacts, ZenonT(30) DEF SetRight
  <2>2. /\ RightSwitch(j) \in DOMAIN switches <=> RightMate[i] \in R
        /\ RightMate[i] \in R => switches[RightSwitch(j)] = (IsOdd(j) = B[RightMate[i]])
    <3>1. i \in Packets /\ i \notin R /\ ~RightLink(Dst(i))
      BY <1>3, <1>5, Zenon
    <3>2. /\ RightSwitch(Dst(i)) \in DOMAIN switches <=> RightMate[i] \in R
          /\ RightMate[i] \in R => switches[RightSwitch(Dst(i))] = (IsOdd(Dst(i)) = B[RightMate[i]])
      BY <1>2, <3>1, SwitchOfMate, SMTT(30)
    <3>3. QED BY <1>3, <3>2, Zenon
  <2> HIDE DEF sw1
  <2>3. RightMate[i] \in R => s = (IsOdd(j) = B[RightMate[i]])
    BY <1>5, <2>1, <2>2, Zenon DEF HasSet
  <2>4. RightMate[i] \notin R => s = FALSE
    BY <1>5, <2>1, <2>2, Zenon DEF HasSet
  <2>5. RightMate[i] \in R => B[RightMate[i]] \in BOOLEAN /\ (IsOdd(j) = B[RightMate[i]]) \in BOOLEAN
    BY Zenon
  <2> HIDE DEF s
  <2>6. CASE RightMate[i] \in R
    BY <2>3, <2>5, <2>6, Zenon
  <2>7. CASE RightMate[i] \notin R
    BY <2>4, <2>7, Zenon
  <2>8. QED BY <2>6, <2>7, Zenon
<1>6. /\ b \in BOOLEAN /\ (~RightLink(j) => s = (IsOdd(j) # b))
      /\ RightMate[i] \in R => b # B[RightMate[i]]
      /\ ~RightLink(j) /\ RightMate[i] \notin R => FALSE = (IsOdd(j) # b)
  <2>1. CASE RightLink(j)
    <3>1. RightMate[i] = First
      BY <1>3, <2>1, RightMateOfUnrouted, ZenonT(30)
    <3>2. QED BY <2>1, <3>1, Zenon DEF LinksBelow
  <2>2. CASE ~RightLink(j)
    <3> HIDE DEF s
    <3>1. b = IsOdd(Side(j, s))
      BY <2>2, Zenon
    <3> HIDE DEF b
    <3>2. b \in BOOLEAN /\ s = (IsOdd(j) # b) /\ \A m \in BOOLEAN : s = (IsOdd(j) = m) => b # m
      BY <1>3, <1>5, <2>2, <3>1, HalfOfSwitch, Zenon
    <3>3. RightMate[i] \notin R => FALSE = (IsOdd(j) # b)
      BY <1>5, <2>2, <3>2, Zenon
    <3>4. QED BY <1>5, <2>2, <3>2, <3>3, Zenon
  <2>3. QED BY <2>1, <2>2, Zenon
<1>7. ComesTo(RightMate, Packets, R, B, Before(loop.next, loop), i, b)
  BY <1>4, <1>6, ZenonT(30) DEF ComesTo
<1>8. RightTakes(R, B, i, b)
  <2> DEFINE t1 == IF RightLink(j) THEN switches
                   ELSE SetUnlessSet(switches, RightSwitch(j), FALSE)
             ivs == IF RightLink(j) THEN intermediate
                    ELSE Assign(intermediate, RightVar(j, IsOdd(j) # b) - IsThree,
                                Frame.left[i].data)
  <2>1. t1 = sw1
    BY <1>3, Zenon DEF SetRight
  <2>2. (~RightLink(j) /\ t1[RightSwitch(j)]) = s
    BY <1>5, <2>1, Zenon
  <2>3. (~RightLink(j) /\ IsOdd(Side(j, s))) = b
    BY <1>6, Zenon
  <2>4. /\ switches' = SetLeft(sw1, i, IsOdd(i) # b)
        /\ intermediate' = IF LeftLink(i) THEN ivs
                           ELSE Assign(ivs, LeftVar(i, IsOdd(i) # b), Frame.left[i].data)
        /\ loop' = Hand(loop, Frame.left[i].data, i, j, b,
                        IF LeftLink(i) THEN -1 ELSE Partner(i))
        /\ pc' = IF LeftLink(i) \/ switches'[LeftSwitch(i)] = (IsOdd(i) # b)
                 THEN "left" ELSE "abort"
    BY <1>1, <1>3, <1>6, <2>1, <2>2, <2>3, ZenonT(30) DEF GoLeft, Src, SetLeft
  <2> HIDE DEF s, b, i
  <2>5. QED BY <1>3, <1>6, <1>7, <2>4, Zenon DEF RightTakes
<1>9. QED BY <1>3, <1>6, <1>8, Zenon

LEMMA RightToLeft ==
    ASSUME IsPermutation(Frame), Frame.n >= 3,
           LoopOK(loop, switches, intermediate, "right"), RouteRightToLeft
    PROVE  /\ pc' = "left"
           /\ LoopOK(loop', switches', intermediate', "left")
<1> DEFINE R == loop.routedL
<1>1. PICK B \in [R -> BOOLEAN] : /\ Routed(R, B, switches, intermediate, loop)
                                  /\ LinksBelow(R, B)
                                  /\ ThreeInOrder(R, B, "right")
                                  /\ Walking(R, B, loop, "right")
  BY Zenon DEF LoopOK
<1>2. PICK i \in Packets \ R : \E b \in BOOLEAN : RightTakes(R, B, i, b)
  BY <1>1, RightStep, Zenon
<1>3. PICK b \in BOOLEAN : RightTakes(R, B, i, b)
  BY <1>2, Zenon
<1> DEFINE next == IF LeftLink(i) THEN -1 ELSE Partner(i)
<1>4. R \subseteq Packets /\ SwitchesTurned(R, B, switches)
  BY <1>1, Zenon DEF Routed
<1>5. loop'.routedL = R \cup {i} /\ loop'.next = next
  <2> DEFINE lp == Hand(loop, Frame.left[i].data, i, Dst(i), b, next)
  <2>1. HandedOver(R, B, loop)
    BY <1>1, Zenon DEF Routed
  <2>2. loop' = lp
    BY <1>3, Zenon DEF RightTakes
  <2> HIDE DEF next
  <2>3. lp.routedL = R \cup {i} /\ lp.routedR = {Dst(k) : k \in R \cup {i}} /\ lp.next = next
    BY <2>1, HandFacts, SMTT(30)
  <2>4. QED BY <2>2, <2>3, Zenon
<1>6. /\ i \in DOMAIN LeftMate => GoesTo(LeftMate, Packets, R, i, next)
      /\ i \notin DOMAIN LeftMate => next \notin Packets
  <2>1. i \in DOMAIN LeftMate => next = LeftMate[i]
    BY MateFacts, Zenon
  <2>2. i \notin DOMAIN LeftMate => next = -1
    BY MateFacts, Zenon
  <2>3. -1 \notin Packets
    BY DEF Packets
  <2>4. QED BY <2>1, <2>2, <2>3, Zenon DEF GoesTo
<1> HIDE DEF next
<1>7. RightGoesOn(R, B, i, b, next)
  <2>1. ComesTo(RightMate, Packets, R, B, Before(loop.next, loop), i, b)
    BY <1>3, Zenon DEF RightTakes
  <2>2. QED BY <1>1, <1>4, <1>6, <2>1, RightWalk, SMTT(30)
<1>8. Agrees(R, B, i, b) /\ (LeftLink(i) => b)
  BY <1>7, Zenon DEF RightGoesOn
<1>9. Turned(switches, switches', i, b)
  <2>1. PICK vl, vr : vr = FALSE /\ vl = (IsOdd(i) # b)
    BY Zenon
  <2>2. /\ ~RightLink(Dst(i)) /\ RightMate[i] \notin R => vr = (IsOdd(Dst(i)) # b)
        /\ switches' = SetLeft(SetRight(switches, i, vr), i, vl)
    BY <1>3, <2>1, ZenonT(30) DEF RightTakes
  <2>3. Turned(switches, SetLeft(SetRight(switches, i, vr), i, vl), i, b)
    BY <1>4, <1>8, <2>1, <2>2, TurnsBoth
  <2>4. QED BY <2>2, <2>3, Zenon
<1>10. pc' = "left"
  BY <1>3, <1>9, Zenon DEF RightTakes, Turned
<1>11. Written(intermediate, intermediate', i, b)
  <2>1. LeftVar(i, IsOdd(i) # b) = LeftNode(i, b)
    BY NodeOfSide, Zenon
  <2>2. ~RightLink(Dst(i)) => RightVar(Dst(i), IsOdd(Dst(i)) # b) - IsThree = RightNode(i, b)
    <3>1. RightVar(Dst(i), IsOdd(Dst(i)) # b) \in Int
      BY NodeOfSide, Zenon
    <3>2. CASE Frame.n # 3
      <4>1. RightVar(Dst(i), IsOdd(Dst(i)) # b) = RightNode(i, b)
        BY <3>2, NodeOfSide, Zenon
      <4>2. QED BY <3>1, <3>2, <4>1 DEF IsThree
    <3>3. ASSUME Frame.n = 3, ~RightLink(Dst(i))
          PROVE  RightVar(Dst(i), IsOdd(Dst(i)) # b) - IsThree = RightNode(i, b)
      <4>1. Bit(b) = 1 /\ IsThree = 1
        BY <1>7, <3>3, Zenon DEF Bit, RightGoesOn, IsThree
      <4>2. RightVar(Dst(i), IsOdd(Dst(i)) # b) - Bit(b) = RightNode(i, b)
        BY <3>3, NodeOfSide, Zenon
      <4>3. QED BY <4>1, <4>2, Zenon
    <3>4. QED BY <3>2, <3>3, Zenon
  <2>3. \A f, d, v : DOMAIN Assign(f, v, d) = DOMAIN f \cup {v}
    BY Zenon DEF Assign
  <2>4. PICK ivs : /\ ivs = IF RightLink(Dst(i)) THEN intermediate
                            ELSE Assign(intermediate,
                                        RightVar(Dst(i), IsOdd(Dst(i)) # b) - IsThree,
                                        Frame.left[i].data)
                   /\ intermediate' = IF LeftLink(i) THEN ivs
                                      ELSE Assign(ivs, LeftVar(i, IsOdd(i) # b),
                                                  Frame.left[i].data)
    BY <1>3, Zenon DEF RightTakes
  <2>5. DOMAIN ivs = DOMAIN intermediate
                       \cup (IF RightLink(Dst(i)) THEN {} ELSE {RightNode(i, b)})
    <3>1. CASE RightLink(Dst(i))
      BY <2>4, <3>1, Zenon
    <3>2. CASE ~RightLink(Dst(i))
      <4>1. ivs = Assign(intermediate, RightNode(i, b), Frame.left[i].data)
        BY <2>2, <2>4, <3>2, Zenon
      <4>2. DOMAIN ivs = DOMAIN intermediate \cup {RightNode(i, b)}
        BY <2>3, <4>1, Zenon
      <4>3. QED BY <3>2, <4>2, Zenon
    <3>3. QED BY <3>1, <3>2, Zenon
  <2>6. DOMAIN intermediate' = DOMAIN ivs \cup (IF LeftLink(i) THEN {} ELSE {LeftNode(i, b)})
    <3>1. CASE LeftLink(i)
      BY <2>4, <3>1, Zenon
    <3>2. CASE ~LeftLink(i)
      <4>1. intermediate' = Assign(ivs, LeftNode(i, b), Frame.left[i].data)
        BY <2>1, <2>4, <3>2, Zenon
      <4>2. DOMAIN intermediate' = DOMAIN ivs \cup {LeftNode(i, b)}
        BY <2>3, <4>1, Zenon
      <4>3. QED BY <3>2, <4>2, Zenon
    <3>3. QED BY <3>1, <3>2, Zenon
  <2>7. QED BY <2>5, <2>6, Zenon DEF Written
<1>12. /\ Assign(B, i, b) \in [R \cup {i} -> BOOLEAN]
       /\ Routed(R \cup {i}, Assign(B, i, b), switches', intermediate', loop')
  <2>1. ~b => i \in DOMAIN LeftMate /\ i \in DOMAIN RightMate
    BY <1>1, <1>8, MateFacts, RightMateOfUnrouted, Zenon
  <2>2. RoutedOneMore(R, B, switches, intermediate, loop, i, b, next, switches', intermediate')
    <3>1. i \in Packets /\ i \notin R /\ Routed(R, B, switches, intermediate, loop)
      BY <1>1, Zenon
    <3>2. Agrees(R, B, i, b)
      BY <1>8, Zenon
    <3> HIDE DEF R
    <3>3. QED BY <1>9, <1>11, <2>1, <3>1, <3>2, RoutedAfter, Zenon
  <2>3. QED BY <1>3, <2>2, ZenonT(30) DEF RoutedOneMore, RightTakes, next
<1>13. Assign(B, i, b)[i] = b /\ \A k \in R : Assign(B, i, b)[k] = B[k]
  BY Zenon DEF Assign
<1>14. LinksBelow(R \cup {i}, Assign(B, i, b))
  BY <1>1, <1>8, <1>13, Zenon DEF LinksBelow
<1>15. ThreeInOrder(R \cup {i}, Assign(B, i, b), "left")
  BY <1>7, Zenon DEF ThreeInOrder, RightGoesOn
<1>16. Walking(R \cup {i}, Assign(B, i, b), loop', "left")
  BY <1>5, <1>7, Zenon DEF Walking, RightGoesOn
<1>17. QED BY <1>5, <1>10, <1>12, <1>14, <1>15, <1>16, Zenon DEF LoopOK

-----------------------------------------------------------------------------
(***************************************************************************)
(* The first packet, from the last output.                                 *)
(***************************************************************************)

\* Nothing is routed when an activation begins.
LEMMA NothingRouted ==
    ASSUME IsPermutation(Frame), Frame.n >= 3, NEW B \in [{} -> BOOLEAN],
           NEW sws, DOMAIN sws = 0 .. Frame.sw - 1,
           NEW ivs, DOMAIN ivs = 0 .. Frame.iv - 1
    PROVE  Routed({}, B, sws, ivs, NoLoop)
<1>1. Frame.n \in Nat /\ Frame.sw \in Nat /\ Frame.iv \in Nat /\ LeftSwitchCt \in Nat
  BY DEF IsPermutation, LeftSwitchCt
<1>2. Alternates(LeftMate, {}, B) /\ Alternates(RightMate, {}, B)
  BY Zenon DEF Alternates
<1>3. SwitchesTurned({}, B, sws)
  <2>1. 0 .. Frame.sw - 1 \subseteq DOMAIN sws /\ DOMAIN sws \subseteq 0 .. Frame.sw + Frame.n - 2
    BY <1>1, SMTT(30)
  <2>2. \A i \in Packets : ~LeftLink(i) => LeftSwitch(i) \notin DOMAIN sws
    BY <1>1, SwitchFacts
  <2>3. \A i \in Packets : ~RightLink(Dst(i)) => RightSwitch(Dst(i)) \notin DOMAIN sws
    BY <1>1, SwitchFacts
  <2>4. QED BY <2>1, <2>2, <2>3, Zenon DEF SwitchesTurned
<1>4. NodesAssigned({}, B, ivs)
  BY <1>1, SMTT(30) DEF NodesAssigned, NodesEnd
<1>5. HandedOver({}, B, NoLoop)
  <2>1. /\ NoLoop.routedL = {} /\ NoLoop.routedR = {}
        /\ NoLoop.topL = <<>> /\ NoLoop.topR = <<>> /\ NoLoop.botL = <<>> /\ NoLoop.botR = <<>>
    BY Zenon DEF NoLoop
  <2>2. DOMAIN <<>> = {}
    OBVIOUS
  <2>3. <<>> \in [{} -> Packet]
    OBVIOUS
  <2>4. \A m : PartOf(<<>>, m)
    BY <2>2, <2>3, Zenon DEF PartOf
  <2>5. {Dst(i) : i \in {}} = {}
    BY Zenon
  <2>6. QED BY <2>1, <2>4, <2>5, Zenon DEF HandedOver
<1>6. QED BY <1>2, <1>3, <1>4, <1>5, Zenon DEF Routed

LEMMA RoutesFirst ==
    ASSUME IsPermutation(Frame), Frame.n >= 3, DOMAIN switches = 0 .. Frame.sw - 1,
           DOMAIN intermediate = 0 .. Frame.iv - 1, RouteFirst
    PROVE  /\ pc' = "left"
           /\ LoopOK(loop', switches', intermediate', "left")
<1> DEFINE n == Frame.n
           i == First
           B == [k \in {} |-> TRUE]
           C == Assign(B, i, TRUE)
           data == Frame.left[i].data
           next == IF LeftLink(i) THEN -1 ELSE Partner(i)
<1>1. /\ n \in Nat /\ n >= 3 /\ n - 1 \in Packets /\ Frame.sw \in Nat
      /\ i \in Packets /\ i \in Nat /\ Dst(i) = n - 1
      /\ Frame.right[n - 1].src = i /\ Frame.right[n - 1].data = data
  <2>1. n \in Nat /\ n - 1 \in Packets /\ Frame.right[n - 1].src = i /\ Frame.sw \in Nat
    BY DEF IsPermutation, Packets, First, Src
  <2>2. i \in Packets /\ i \in Nat /\ Dst(i) = n - 1
    BY <2>1, EndFacts, Zenon DEF First
  <2>3. Frame.left[i] = Frame.right[n - 1]
    BY <2>1, Zenon DEF IsPermutation, First, Src, Packets
  <2>4. QED BY <2>1, <2>2, <2>3, Zenon
<1>2. /\ switches' = IF LeftLink(i) THEN switches
                     ELSE Assign(switches, LeftSwitch(i), ~IsOdd(i))
      /\ intermediate' = IF LeftLink(i) THEN intermediate
                         ELSE Assign(intermediate, LeftVar(i, ~IsOdd(i)), data)
      /\ loop' = Hand(NoLoop, data, i, Dst(i), TRUE, next)
      /\ pc' = "left"
  BY <1>1, Zenon DEF RouteFirst
<1> HIDE DEF i
<1>3. B \in [{} -> BOOLEAN]
  BY Zenon
<1>4. C = [k \in {i} |-> TRUE]
  BY Zenon DEF Assign
<1> HIDE DEF B
<1>5. Routed({}, B, switches, intermediate, NoLoop)
  BY <1>3, NothingRouted, Zenon
<1>6. Agrees({}, B, i, TRUE)
  BY Zenon DEF Agrees
<1>7. RightLink(Dst(i)) /\ (IsOdd(i) # TRUE) = ~IsOdd(i)
  BY <1>1, Zenon DEF RightLink
<1>8. Turned(switches, switches', i, TRUE)
  <2>1. CASE LeftLink(i)
    BY <1>2, <1>7, <2>1, Zenon DEF Turned
  <2>2. CASE ~LeftLink(i)
    <3>1. LeftSwitch(i) \in Frame.sw .. Frame.sw + LeftSwitchCt - 1
      BY <1>1, <2>2, SwitchFacts, Zenon
    <3>2. LeftSwitch(i) \notin DOMAIN switches
      BY <1>1, <3>1 DEF LeftSwitchCt
    <3>3. /\ DOMAIN switches' = DOMAIN switches \cup {LeftSwitch(i)}
          /\ switches'[LeftSwitch(i)] = ~IsOdd(i)
          /\ \A w \in DOMAIN switches : w # LeftSwitch(i) => switches'[w] = switches[w]
      BY <1>2, <2>2, Zenon DEF Assign
    <3>4. QED BY <1>7, <2>2, <3>2, <3>3, ZenonT(30) DEF Turned
  <2>3. QED BY <2>1, <2>2, Zenon
<1>9. Written(intermediate, intermediate', i, TRUE)
  <2>1. LeftVar(i, ~IsOdd(i)) = LeftNode(i, TRUE)
    <3>1. LeftVar(i, IsOdd(i) # TRUE) = LeftNode(i, TRUE)
      BY <1>1, NodeOfSide, Zenon
    <3>2. QED BY <1>7, <3>1, Zenon
  <2>2. DOMAIN Assign(intermediate, LeftNode(i, TRUE), data)
          = DOMAIN intermediate \cup {LeftNode(i, TRUE)}
    BY Zenon DEF Assign
  <2>3. QED BY <1>2, <1>7, <2>1, <2>2, Zenon DEF Written
<1> HIDE DEF next, C
<1>10. /\ C \in [{i} -> BOOLEAN]
       /\ Routed({i}, C, switches', intermediate', loop')
  <2>1. PICK b \in BOOLEAN : b = TRUE
    BY Zenon
  <2>2. RoutedOneMore({}, B, switches, intermediate, NoLoop, i, b, next,
                      switches', intermediate')
    BY <1>1, <1>5, <1>6, <1>8, <1>9, <2>1, RoutedAfter, Zenon
  <2>3. {} \cup {i} = {i}
    BY Zenon
  <2>4. QED BY <1>2, <2>1, <2>2, <2>3, Zenon DEF RoutedOneMore, C
<1>11. LinksBelow({i}, C)
  BY <1>4, Zenon DEF LinksBelow, i
<1>12. ThreeInOrder({i}, C, "left")
  BY Zenon DEF ThreeInOrder, i
<1>13. loop'.routedL = {i} /\ loop'.next = next
  BY <1>2, Zenon DEF Hand, NoLoop
<1>14. Walking({i}, C, loop', "left")
  <2>1. Mates(LeftMate, Packets) /\ Mates(RightMate, Packets)
    BY MateFacts, Zenon
  <2>2. Open(RightMate, {i}) = IF IsOdd(n) THEN {} ELSE {i}
    <3>1. i \in DOMAIN RightMate <=> ~IsOdd(n)
      BY <1>1, MateFacts, Zenon
    <3>2. i \in DOMAIN RightMate => RightMate[i] # i
      BY <2>1, Zenon DEF Mates
    <3>3. QED BY <3>1, <3>2, Zenon DEF Open
  <2>3. Open(LeftMate, {i}) = IF LeftLink(i) THEN {} ELSE {i}
    <3>1. i \in DOMAIN LeftMate <=> ~LeftLink(i)
      BY <1>1, MateFacts, Zenon
    <3>2. i \in DOMAIN LeftMate => LeftMate[i] # i
      BY <2>1, Zenon DEF Mates
    <3>3. QED BY <3>1, <3>2, Zenon DEF Open
  <2>4. ~LeftLink(i) => i \in DOMAIN LeftMate /\ next = LeftMate[i] /\ next # i
    BY <1>1, <2>1, MateFacts, Zenon DEF next, Mates
  <2>5. Packets \ {i} \subseteq DOMAIN RightMate
    BY <1>1, MateFacts, EndFacts, SMTT(30)
  <2>6. CASE LeftLink(i)
    <3>1. IsOdd(n) /\ Packets \ {i} \subseteq DOMAIN LeftMate
      BY <2>6, MateFacts, Zenon DEF LeftLink
    <3>2. next \notin Packets
      BY <1>1, <2>6 DEF next, Packets
    <3>3. InCycle(LeftMate, RightMate, Packets, {i}, C, next)
      BY <2>2, <2>3, <2>5, <2>6, <3>1, <3>2, Zenon DEF InCycle
    <3>4. QED BY <1>13, <3>3, Zenon DEF Walking
  <2>7. CASE ~LeftLink(i) /\ IsOdd(n)
    <3>1. OnPath(LeftMate, RightMate, {i}, C, next, TRUE)
      BY <1>4, <2>2, <2>3, <2>4, <2>7, ZenonT(30) DEF OnPath
    <3>2. QED BY <1>13, <3>1, Zenon DEF Walking
  <2>8. CASE ~LeftLink(i) /\ ~IsOdd(n)
    <3>1. Packets \ {i} \subseteq DOMAIN LeftMate
      BY <2>8, MateFacts, Zenon DEF LeftLink
    <3>2. InCycle(LeftMate, RightMate, Packets, {i}, C, next)
      BY <2>2, <2>3, <2>4, <2>5, <2>8, <3>1, Zenon DEF InCycle
    <3>3. QED BY <1>13, <3>2, Zenon DEF Walking
  <2>9. QED BY <2>6, <2>7, <2>8, Zenon
<1>15. QED BY <1>2, <1>10, <1>11, <1>12, <1>13, <1>14, Zenon DEF LoopOK
=============================================================================
