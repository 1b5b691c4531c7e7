---------------------------- MODULE MCStudentDB ----------------------------
(***************************************************************************)
(* Databases of 5 and 7 rows, in 2, 3 or 4 chunks, of 2 or 4 subtrees: one *)
(* build for every permutation of the keys, and two whose trees programs   *)
(* then use.                                                               *)
(***************************************************************************)
EXTENDS StudentDB

SmallBuilds ==
    {[rows |-> 5, chunks |-> 2, depth |-> 1, permuted |-> TRUE, calls |-> 0],
     [rows |-> 5, chunks |-> 4, depth |-> 1, permuted |-> FALSE, calls |-> 2],
     [rows |-> 7, chunks |-> 2, depth |-> 2, permuted |-> FALSE, calls |-> 2]}

\* The build with more than one top node, whose trees are only read.
DeepBuild == {b \in SmallBuilds : b.depth > 1}

=============================================================================
