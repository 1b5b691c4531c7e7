--------------------------- MODULE WaksmanRouter ---------------------------
(***************************************************************************)
(* The prover's routing of the sorting permutation through the permutation *)
(* network (waksman_router.cpp): which way each switch turns, and the data *)
(* at each intermediate node.                                              *)
(*                                                                         *)
(* A packet's data is the position of its operation in the program; the    *)
(* sort gives it its destination.  A frame is one activation of route();   *)
(* `loop' holds the locals of the activation that is running.              *)
(***************************************************************************)
EXTENDS Integers, Sequences, Functions

CONSTANT MaxWidth   \* bound: width of the network

ASSUME WaksmanAssumptions == MaxWidth \in Nat /\ MaxWidth >= 2

-----------------------------------------------------------------------------
VARIABLES
    width,         \* number of memory operations
    frames,        \* activations of route() not yet run, next one first
    loop,          \* locals of the running activation
    switches,      \* swap of the switches that are set
    intermediate,  \* data of the nodes assigned so far
    output,        \* the sorted data
    pc             \* "call", "left", "right", "done" or "abort"

vars == <<width, frames, loop, switches, intermediate, output, pc>>

NoLoop == [routedL |-> {}, routedR |-> {}, next |-> -1,
           topL |-> <<>>, topR |-> <<>>, botL |-> <<>>, botR |-> <<>>]

CeilLog2[i \in Nat] == IF i =< 1 THEN 0 ELSE 1 + CeilLog2[(i + 1) \div 2]

numSwitches[n \in Nat] == IF n = 0 THEN 0 ELSE CeilLog2[n] + numSwitches[n - 1]

NumIntermediate(n) == 2 * numSwitches[n] - n

\* wak_route: dst is where the sort puts the operation at each position.
Init ==
    \E n \in 2 .. MaxWidth :
      \E dst \in Bijection(0 .. n - 1, 0 .. n - 1) :
        LET src(j) == CHOOSE i \in 0 .. n - 1 : dst[i] = j
            left == [i \in 0 .. n - 1 |-> [data |-> i, src |-> i, dst |-> dst[i]]]
            right == [j \in 0 .. n - 1 |-> left[src(j)]]
        IN /\ width = n
           /\ frames = <<[n |-> n, left |-> left, right |-> right, sw |-> 0, iv |-> 0]>>
           /\ loop = NoLoop
           /\ switches = <<>>
           /\ intermediate = <<>>
           /\ output = [j \in 0 .. n - 1 |-> right[j].data]
           /\ pc = "call"

-----------------------------------------------------------------------------
(***************************************************************************)
(* route()                                                                 *)
(***************************************************************************)

Frame == Head(frames)
LeftSwitchCt == Frame.n \div 2
RightSwitchCt == LeftSwitchCt - 1 + (Frame.n % 2)
IsOdd(i) == i % 2 = 1

\* The other side of a switch, and the side where a packet leaves it.
Partner(i) == IF IsOdd(i) THEN i - 1 ELSE i + 1
Side(i, swap) == IF swap THEN Partner(i) ELSE i

Assign(f, i, v) == [k \in DOMAIN f \cup {i} |-> IF k = i THEN v ELSE f[k]]

\* A switch keeps the direction it was given first.
SetUnlessSet(sws, i, swap) == IF i \in DOMAIN sws THEN sws ELSE Assign(sws, i, swap)

LeftSwitch(i) == Frame.sw + (i \div 2)
RightSwitch(j) == Frame.sw + LeftSwitchCt + (j \div 2)
LeftLink(i) == i = Frame.n - 1 /\ IsOdd(Frame.n)

\* Mutant: an even network's second link is taken for a switch.
RightLinkLast(j) == j = Frame.n - 1

RightLink(j) == j = Frame.n - 1 \/ (j = Frame.n - 2 /\ ~IsOdd(Frame.n))

\* Mutant: the node on the packet's own side, whatever the switch does.
LeftVarStraight(i, swap) == Frame.iv + i

LeftVar(i, swap) == Frame.iv + Side(i, swap)
RightVar(j, swap) == Frame.iv + 2 * LeftSwitchCt + Side(j, swap)

\* Mutant: a network of three is numbered like the others.
IsThreeNever == 0

\* In a network of three the top half is a wire: its two ends are one node.
IsThree == IF Frame.n = 3 THEN 1 ELSE 0

\* Mutant: the bottom half's packet is handed to the top half's outputs.
HandCrossed(lp, data, i, j, bottom, next) ==
    LET p == [data |-> data, src |-> i \div 2, dst |-> j \div 2]
    IN [routedL |-> lp.routedL \cup {i}, routedR |-> lp.routedR \cup {j}, next |-> next,
        topL |-> IF bottom THEN lp.topL ELSE Assign(lp.topL, p.src, p),
        topR |-> Assign(lp.topR, p.dst, p),
        botL |-> IF bottom THEN Assign(lp.botL, p.src, p) ELSE lp.botL,
        botR |-> lp.botR]

\* The packet from left i to right j goes through the bottom or the top half;
\* next is the packet to follow.
Hand(lp, data, i, j, bottom, next) ==
    LET p == [data |-> data, src |-> i \div 2, dst |-> j \div 2]
    IN [routedL |-> lp.routedL \cup {i}, routedR |-> lp.routedR \cup {j}, next |-> next,
        topL |-> IF bottom THEN lp.topL ELSE Assign(lp.topL, p.src, p),
        topR |-> IF bottom THEN lp.topR ELSE Assign(lp.topR, p.dst, p),
        botL |-> IF bottom THEN Assign(lp.botL, p.src, p) ELSE lp.botL,
        botR |-> IF bottom THEN Assign(lp.botR, p.dst, p) ELSE lp.botR]

Unrouted(routed) == (0 .. Frame.n - 1) \ routed

\* Mutant: the walk does not follow the cycle it is in.
FirstUnrouted(i, next, routed) == \A k \in Unrouted(routed) : i =< k

\* The packet to follow: the given one, or the first that is not routed yet.
Following(i, next, routed) ==
    IF next \in Unrouted(routed) THEN i = next ELSE \A k \in Unrouted(routed) : i =< k

\* A network of two is one switch; a network of one is a wire.
RouteBase ==
    /\ pc = "call" /\ frames # <<>> /\ Frame.n =< 2
    /\ LET swap == Frame.left[0].data # Frame.right[0].data
           sound == IF Frame.n = 2
                    THEN /\ Frame.sw \notin DOMAIN switches
                         /\ swap => Frame.left[0].data = Frame.right[1].data
                    ELSE ~swap
       IN /\ pc' = IF sound THEN "call" ELSE "abort"
          /\ switches' = IF Frame.n = 2 THEN Assign(switches, Frame.sw, swap) ELSE switches
    /\ frames' = Tail(frames)
    /\ UNCHANGED <<width, loop, intermediate, output>>

\* The last output always goes through the bottom half, back to its input.
RouteFirst ==
    /\ pc = "call" /\ frames # <<>> /\ Frame.n > 2
    /\ LET j == Frame.n - 1
           i == Frame.right[j].src
           swap == ~IsOdd(i)
           link == LeftLink(i)
       IN /\ switches' = IF link THEN switches ELSE Assign(switches, LeftSwitch(i), swap)
          /\ intermediate' = IF link THEN intermediate
                             ELSE Assign(intermediate, LeftVar(i, swap), Frame.right[j].data)
          /\ loop' = Hand(NoLoop, Frame.right[j].data, i, j, TRUE, IF link THEN -1 ELSE Partner(i))
    /\ pc' = "left"
    /\ UNCHANGED <<width, frames, output>>

\* Packet i, from the left, goes on to its output on the right.
GoRight(i) ==
    LET j == Frame.left[i].dst
        data == Frame.left[i].data
        sw1 == IF LeftLink(i) THEN switches
               ELSE SetUnlessSet(switches, LeftSwitch(i), FALSE)
        swapL == ~LeftLink(i) /\ sw1[LeftSwitch(i)]
        bottom == LeftLink(i) \/ IsOdd(Side(i, swapL))
        swapR == IsOdd(j) # bottom
        sw2 == IF RightLink(j) THEN sw1 ELSE SetUnlessSet(sw1, RightSwitch(j), swapR)
        iv1 == IF LeftLink(i) THEN intermediate
               ELSE Assign(intermediate, LeftVar(i, swapL), data)
    IN /\ switches' = sw2
       /\ intermediate' = IF RightLink(j) THEN iv1 ELSE Assign(iv1, RightVar(j, swapR), data)
       /\ loop' = Hand(loop, data, i, j, bottom, IF RightLink(j) THEN -1 ELSE Partner(j))
       /\ pc' = IF RightLink(j) \/ sw2[RightSwitch(j)] = swapR THEN "right" ELSE "abort"

RouteLeftToRight ==
    /\ pc = "left"
    /\ \E i \in Unrouted(loop.routedL) : Following(i, loop.next, loop.routedL) /\ GoRight(i)
    /\ UNCHANGED <<width, frames, output>>

\* The packet of output j, on the right, goes back to its input on the left.
GoLeft(j) ==
    LET i == Frame.right[j].src
        data == Frame.right[j].data
        sw1 == IF RightLink(j) THEN switches
               ELSE SetUnlessSet(switches, RightSwitch(j), FALSE)
        swapR == ~RightLink(j) /\ sw1[RightSwitch(j)]
        bottom == ~RightLink(j) /\ IsOdd(Side(j, swapR))
        swapL == IsOdd(i) # bottom
        sw2 == IF LeftLink(i) THEN sw1 ELSE SetUnlessSet(sw1, LeftSwitch(i), swapL)
        iv1 == IF RightLink(j) THEN intermediate
               ELSE Assign(intermediate, RightVar(j, swapR) - IsThree, data)
    IN /\ switches' = sw2
       /\ intermediate' = IF LeftLink(i) THEN iv1 ELSE Assign(iv1, LeftVar(i, swapL), data)
       /\ loop' = Hand(loop, data, i, j, bottom, IF LeftLink(i) THEN -1 ELSE Partner(i))
       /\ pc' = IF LeftLink(i) \/ sw2[LeftSwitch(i)] = swapL THEN "left" ELSE "abort"

RouteRightToLeft ==
    /\ pc = "right"
    /\ \E j \in Unrouted(loop.routedR) : Following(j, loop.next, loop.routedR) /\ GoLeft(j)
    /\ UNCHANGED <<width, frames, output>>

\* Every packet is in a half: route the top half, then the bottom half.
Descend ==
    /\ \/ pc = "left" /\ Unrouted(loop.routedL) = {}
       \/ pc = "right" /\ Unrouted(loop.routedR) = {}
    /\ LET n == Frame.n
           top == [n |-> n \div 2, left |-> loop.topL, right |-> loop.topR,
                   sw |-> Frame.sw + LeftSwitchCt + RightSwitchCt,
                   iv |-> Frame.iv + 2 * LeftSwitchCt + 2 * RightSwitchCt]
           bottom == [n |-> (n + 1) \div 2, left |-> loop.botL, right |-> loop.botR,
                      sw |-> top.sw + numSwitches[top.n],
                      iv |-> top.iv + NumIntermediate(top.n)]
       IN frames' = <<top, bottom>> \o Tail(frames)
    /\ loop' = NoLoop
    /\ pc' = "call"
    /\ UNCHANGED <<width, switches, intermediate, output>>

Return ==
    /\ pc = "call" /\ frames = <<>>
    /\ pc' = "done"
    /\ UNCHANGED <<width, frames, loop, switches, intermediate, output>>

Next ==
    \/ RouteBase
    \/ RouteFirst
    \/ RouteLeftToRight
    \/ RouteRightToLeft
    \/ Descend
    \/ Return

Spec == Init /\ [][Next]_vars /\ WF_vars(Next)

-----------------------------------------------------------------------------
\* No assertion of route() fails: two packets never need one switch in
\* different positions, and the base cases get the packets they expect.
NoAssertFails == pc # "abort"

\* A call of route() never reads an entry of topLeft, topRight, botLeft or
\* botRight that the caller's loop has not written: the arrays are not
\* initialised, and only the walk through the cycles fills them.
HalvesFilled ==
    \A k \in DOMAIN frames :
        LET f == frames[k]
        IN /\ DOMAIN f.left = 0 .. f.n - 1
           /\ DOMAIN f.right = 0 .. f.n - 1
           /\ \A i \in 0 .. f.n - 1 : f.right[f.left[i].dst].src = i

\* route() writes within the arrays that compute_waksman_network allocates,
\* and when it returns every switch and every intermediate node is assigned:
\* the prover copies all of them to its variables.
AllAssigned ==
    /\ DOMAIN switches \subseteq 0 .. numSwitches[width] - 1
    /\ DOMAIN intermediate \subseteq 0 .. NumIntermediate(width) - 1
    /\ pc = "done" => /\ DOMAIN switches = 0 .. numSwitches[width] - 1
                      /\ DOMAIN intermediate = 0 .. NumIntermediate(width) - 1

\* The routing ends.
Terminates == <>(pc = "done")
=============================================================================
