------------------------------ MODULE Waksman ------------------------------
(***************************************************************************)
(* The permutation network that sorts a program's memory operations.  The  *)
(* back-end lays the network out (wak.py) and generates one constraint per *)
(* switch output; the prover routes the sorting permutation through the    *)
(* same network (WaksmanRouter) and assigns the switches and the           *)
(* intermediate nodes by their positions in the two arrays.  Nothing but   *)
(* the two recursions' agreement on that numbering ties the two together.  *)
(***************************************************************************)
EXTENDS WaksmanRouter

-----------------------------------------------------------------------------
(***************************************************************************)
(* The layout of the network, as the back-end builds it                    *)
(***************************************************************************)

Node(kind, k) == <<kind, k>>

\* The entries of s that go to the top or the bottom subnetwork: even and odd
\* positions, an odd network's last entry to the bottom.
ToTop(s) == [k \in 1 .. Len(s) \div 2 |-> s[2 * k - 1]]
ToBottom(s) ==
    [k \in 1 .. (Len(s) + 1) \div 2 |-> IF 2 * k > Len(s) THEN s[Len(s)] ELSE s[2 * k]]

\* st holds the counters swc and varct and the list of hooked switches.
RECURSIVE buildwak(_, _, _)
buildwak(ins, outs, st) ==
    LET n == Len(ins)
        lc == n \div 2
        rc == lc - 1 + (n % 2)
        leftVars == [i \in 1 .. n |-> IF i > 2 * lc THEN ins[i]
                                      ELSE Node("V", st.varct + i - 1)]
        rightVars == [i \in 1 .. n |-> IF i > 2 * rc THEN outs[i]
                                       ELSE Node("V", st.varct + 2 * lc + i - 1)]
        hook(s, t, k, sw) == [s1 |-> s[2 * k - 1], s2 |-> s[2 * k],
                              t1 |-> t[2 * k - 1], t2 |-> t[2 * k], sw |-> sw]
        last == Len(st.hooked)
    IN CASE n = 1 -> [st EXCEPT !.hooked[last - 1].t1 = st.hooked[last].s1]
         [] n = 2 -> [st EXCEPT !.hooked = Append(@, hook(ins, outs, 1, st.swc)),
                                !.swc = @ + 1]
         [] OTHER ->
              LET outer == [swc |-> st.swc + lc + rc,
                            varct |-> st.varct + 2 * lc + 2 * rc,
                            hooked |-> st.hooked
                              \o [k \in 1 .. lc |-> hook(ins, leftVars, k, st.swc + k - 1)]
                              \o [k \in 1 .. rc |-> hook(rightVars, outs, k,
                                                         st.swc + lc + k - 1)]]
              IN buildwak(ToBottom(leftVars), ToBottom(rightVars),
                          buildwak(ToTop(leftVars), ToTop(rightVars), outer))

waksman(n) ==
    buildwak([k \in 1 .. n |-> Node("I", k - 1)], [k \in 1 .. n |-> Node("O", k - 1)],
             [swc |-> 0, varct |-> 0, hooked |-> <<>>]).hooked

Networks == [n \in 2 .. MaxWidth |-> waksman(n)]

\* The intermediate nodes in the order in which they get their variables.
RECURSIVE Distinct(_)
Distinct(s) ==
    IF s = <<>> THEN <<>>
    ELSE LET front == Distinct(SubSeq(s, 1, Len(s) - 1))
         IN IF \E i \in DOMAIN front : front[i] = s[Len(s)] THEN front
            ELSE Append(front, s[Len(s)])

NodesOf(net) ==
    Distinct(SelectSeq([i \in 1 .. 4 * Len(net) |->
                          LET h == net[(i + 3) \div 4]
                          IN <<h.s1, h.s2, h.t1, h.t2>>[((i - 1) % 4) + 1]],
                       LAMBDA v : v[1] = "V"))

IntermediateNodes == [n \in 2 .. MaxWidth |-> NodesOf(Networks[n])]

-----------------------------------------------------------------------------
(***************************************************************************)
(* The constraints on the network, over an assignment of its variables     *)
(***************************************************************************)

\* The data at node v: inputs are the operations in program order.
At(v, inter, out) ==
    CASE v[1] = "I" -> v[2]
      [] v[1] = "O" -> out[v[2]]
      [] OTHER -> inter[(CHOOSE k \in DOMAIN IntermediateNodes[width] :
                            IntermediateNodes[width][k] = v) - 1]

\* A switch passes its two packets on, straight or crossed.
Passes(h, sws, inter, out) ==
    LET at(v) == At(v, inter, out)
    IN /\ at(h.t1) = at(IF sws[h.sw] THEN h.s2 ELSE h.s1)
       /\ at(h.t2) = at(IF sws[h.sw] THEN h.s1 ELSE h.s2)

\* The switches for which the back-end writes a constraint.
Constrained(h) == h.s1[1] # "I" /\ h.s2[1] # "I"

waksman_network_as_basic_constraints(sws, inter, out) ==
    \A k \in DOMAIN Networks[width] :
        LET h == Networks[width][k] IN Constrained(h) => Passes(h, sws, inter, out)

-----------------------------------------------------------------------------
\* The prover's routing is a run of the network the back-end laid out: at each
\* switch of that network, taken with the numbering of the variables that the
\* back-end gives them, the values the prover assigns are those of the sources,
\* straight or crossed as its switch says.
RoutesNetwork ==
    pc = "done" =>
        /\ Len(Networks[width]) = numSwitches[width]
        /\ Len(IntermediateNodes[width]) = NumIntermediate(width)
        /\ \A k \in DOMAIN Networks[width] :
               Passes(Networks[width][k], switches, intermediate, output)

\* "satisfiable if and only if" for the network: whatever outputs satisfy its
\* constraints, for some switches and intermediate nodes, are the inputs in
\* some order.
OutputsArePermutation ==
    pc = "done" =>
        \A out \in [0 .. width - 1 -> 0 .. width - 1] :
            (\E sws \in [0 .. numSwitches[width] - 1 -> BOOLEAN] :
               \E inter \in [0 .. NumIntermediate(width) - 1 -> 0 .. width - 1] :
                 waksman_network_as_basic_constraints(sws, inter, out))
            => {out[j] : j \in 0 .. width - 1} = 0 .. width - 1
=============================================================================
