------------------------------ MODULE AvlTree ------------------------------
(***************************************************************************)
(* The self-certifying AVL tree of pepper/include/avl_tree.cpp, which the  *)
(* prover's tools link, and of compiler/cstdinc/avl_tree.h, which programs *)
(* include: the two differ in comments and in initialisations that are     *)
(* overwritten before use.  A node is a block of the store and its links   *)
(* are the hashes of its children.                                         *)
(*                                                                         *)
(* Hashes are ideal: the hash of a node is the node, so that a tree is a   *)
(* nested record.  Every operation also returns the calls it makes on the  *)
(* store, in order, as a log; the modules of the store say what each call  *)
(* does, and whether it is answered at all.                                *)
(***************************************************************************)
EXTENDS Integers, Sequences, SequencesExt

CONSTANTS
    NULL_HASH,              \* the hash of no node
    MAX_TREE_DEPTH,
    MAX_TREE_RESULTS,
    MAX_TREE_NODE_VALUES

ASSUME TreeLimits ==
    /\ MAX_TREE_DEPTH \in Nat \ {0}
    /\ MAX_TREE_RESULTS \in Nat
    /\ MAX_TREE_NODE_VALUES \in Nat \ {0}

Got(h) == <<"hashget", h>>
Stored(n) == <<"hashput", n>>

NO_ROW == -1        \* the hash in a slot that no row was written to

\* The slots after the first n.
EmptySlots(n) == [i \in 1 .. MAX_TREE_NODE_VALUES - n |-> NO_ROW]

\* tree_node_t.  The value slots in use are a sequence, and so are the rest of
\* the slots, those past num_values: no query looks at them, but they are
\* hashed with the node, and keep what an operation left there.
NewNode(key, value) ==
    [left |-> NULL_HASH, right |-> NULL_HASH, key |-> key,
     values |-> <<value>>, rest |-> EmptySlots(1),
     height |-> 1, height_left |-> 0, height_right |-> 0]

\* The node a block store that answers for NULL_HASH holds there: all zeros.
ZeroNode ==
    [left |-> NULL_HASH, right |-> NULL_HASH, key |-> 0,
     values |-> <<>>, rest |-> EmptySlots(0),
     height |-> 0, height_left |-> 0, height_right |-> 0]

hashget(h) == IF h = NULL_HASH THEN ZeroNode ELSE h

\* node->height = MAX(node->height_left, node->height_right) + 1
WithHeight(n) ==
    [n EXCEPT !.height =
        (IF n.height_right > n.height_left THEN n.height_right ELSE n.height_left) + 1]

Lean(n) == n.height_left - n.height_right

-----------------------------------------------------------------------------
(***************************************************************************)
(* Rotations: the new root of the subtree, and the calls.                  *)
(***************************************************************************)

_rotate_left_left(root) ==
    LET y == hashget(root.left)
        old == WithHeight([root EXCEPT !.left = y.right, !.height_left = y.height_right])
    IN [node |-> WithHeight([y EXCEPT !.right = old, !.height_right = old.height]),
        log |-> <<Got(root.left), Stored(old)>>]

_rotate_right_right(root) ==
    LET y == hashget(root.right)
        old == WithHeight([root EXCEPT !.right = y.left, !.height_right = y.height_left])
    IN [node |-> WithHeight([y EXCEPT !.left = old, !.height_left = old.height]),
        log |-> <<Got(root.right), Stored(old)>>]

_rotate_left_right(root) ==
    LET y == hashget(root.left)
        z == hashget(y.right)
        old == WithHeight([root EXCEPT !.left = z.right, !.height_left = z.height_right])
        left == WithHeight([y EXCEPT !.right = z.left, !.height_right = z.height_left])
    IN [node |-> WithHeight([z EXCEPT !.left = left, !.height_left = left.height,
                                      !.right = old, !.height_right = old.height]),
        log |-> <<Got(root.left), Got(y.right), Stored(left), Stored(old)>>]

\* Mutant: the inner subtrees change sides.
RotateRightLeftCrossed(root) ==
    LET y == hashget(root.right)
        z == hashget(y.left)
        old == WithHeight([root EXCEPT !.right = z.right, !.height_right = z.height_right])
        right == WithHeight([y EXCEPT !.left = z.left, !.height_left = z.height_left])
    IN [node |-> WithHeight([z EXCEPT !.left = old, !.height_left = old.height,
                                      !.right = right, !.height_right = right.height]),
        log |-> <<Got(root.right), Got(y.left), Stored(right), Stored(old)>>]

_rotate_right_left(root) ==
    LET y == hashget(root.right)
        z == hashget(y.left)
        old == WithHeight([root EXCEPT !.right = z.left, !.height_right = z.height_left])
        right == WithHeight([y EXCEPT !.left = z.right, !.height_left = z.height_right])
    IN [node |-> WithHeight([z EXCEPT !.left = old, !.height_left = old.height,
                                      !.right = right, !.height_right = right.height]),
        log |-> <<Got(root.right), Got(y.left), Stored(right), Stored(old)>>]

-----------------------------------------------------------------------------
(***************************************************************************)
(* The values of a node and of a result set.                               *)
(***************************************************************************)

HasValue(n, value) == \E i \in DOMAIN n.values : n.values[i] = value

\* A value in the first slot past num_values, which is then in use.
WithValue(n, value) == [n EXCEPT !.values = Append(@, value), !.rest = Tail(@)]

_copy_value(n, value) ==
    IF Len(n.values) = MAX_TREE_NODE_VALUES \/ HasValue(n, value)
    THEN [ok |-> FALSE, node |-> n]
    ELSE [ok |-> TRUE, node |-> WithValue(n, value)]

\* Every slot that holds the old value is overwritten; the new value is
\* appended when none before the free slot did.
_replace_value(n, old, new) ==
    IF HasValue(n, old)
    THEN [ok |-> TRUE,
          node |-> [n EXCEPT !.values = [i \in DOMAIN @ |-> IF @[i] = old THEN new ELSE @[i]]]]
    ELSE IF Len(n.values) < MAX_TREE_NODE_VALUES
    THEN [ok |-> TRUE, node |-> WithValue(n, new)]
    ELSE [ok |-> FALSE, node |-> n]

\* The loop of tree_remove_value: what follows the first such value moves
\* down a slot, except a further copy of it; the last slot keeps its value.
DropValue(n, value) ==
    LET vs == n.values
        seen(j) == \E i \in 1 .. j : vs[i] = value
    IN IF HasValue(n, value)
       THEN [ok |-> TRUE,
             node |-> [n EXCEPT !.values = [j \in 1 .. Len(vs) - 1 |->
                                   IF seen(j) /\ vs[j + 1] # value THEN vs[j + 1] ELSE vs[j]],
                                !.rest = <<Last(vs)>> \o @]]
       ELSE [ok |-> FALSE, node |-> n]

NodeResults(n) == [i \in DOMAIN n.values |-> [key |-> n.key, value |-> n.values[i]]]

_copy_results(results, n) ==
    LET all == results \o NodeResults(n)
    IN SubSeq(all, 1, IF Len(all) < MAX_TREE_RESULTS THEN Len(all) ELSE MAX_TREE_RESULTS)

-----------------------------------------------------------------------------
(***************************************************************************)
(* Paths: the nodes read from the root down and the branch taken at each.  *)
(***************************************************************************)

EmptyPath == [nodes |-> <<>>, branches |-> <<>>]

Extend(path, n, branch) ==
    [nodes |-> Append(path.nodes, n), branches |-> Append(path.branches, branch)]

GetsOf(nodes) == [i \in DOMAIN nodes |-> Got(nodes[i])]

RECURSIVE Search(_, _, _)
Search(path, h, key) ==
    LET n == hashget(h)
    IN IF h = NULL_HASH \/ Len(path.nodes) = MAX_TREE_DEPTH
       THEN [found |-> FALSE, path |-> path]
       ELSE IF key = n.key THEN [found |-> TRUE, path |-> Extend(path, n, "equals")]
       ELSE IF key < n.key THEN Search(Extend(path, n, "left"), n.left, key)
       ELSE Search(Extend(path, n, "right"), n.right, key)

_find_path(root, key) == Search(EmptyPath, root, key)

\* The path extended by the left spine of the subtree h, while it has room.
RECURSIVE LeftSpine(_, _)
LeftSpine(path, h) ==
    IF h = NULL_HASH \/ Len(path.nodes) = MAX_TREE_DEPTH THEN path
    ELSE LeftSpine(Extend(path, hashget(h), "left"), hashget(h).left)

_find_first(root) == LeftSpine(EmptyPath, root)

_find_next_below(path) ==
    LET d == Len(path.nodes)
    IN LeftSpine([path EXCEPT !.branches[d] = "right"], path.nodes[d].right)

\* The deepest ancestor entered from its left.
_find_next_above(path) ==
    LET turns == {i \in 1 .. Len(path.nodes) - 1 : path.branches[i] = "left"}
        cut(d) == [nodes |-> SubSeq(path.nodes, 1, d), branches |-> SubSeq(path.branches, 1, d)]
    IN IF turns = {} THEN [found |-> FALSE, path |-> path]
       ELSE [found |-> TRUE, path |-> cut(CHOOSE d \in turns : \A e \in turns : e <= d)]

_find_next(path) ==
    LET below == _find_next_below(path)
        d == Len(path.nodes)
    IN IF Len(below.nodes) > d
       THEN [found |-> TRUE, path |-> below,
             log |-> GetsOf(SubSeq(below.nodes, d + 1, Len(below.nodes)))]
       ELSE _find_next_above(below) @@ [log |-> <<>>]

-----------------------------------------------------------------------------
(***************************************************************************)
(* Queries: the results, and the calls.                                    *)
(***************************************************************************)

\* The nodes that so many calls of _find_next reach.
RECURSIVE NextNodes(_, _)
NextNodes(path, times) ==
    LET next == _find_next(path)
        more == NextNodes(next.path, times - 1)
    IN IF times = 0 \/ ~next.found THEN [nodes |-> <<>>, log |-> <<>>]
       ELSE [nodes |-> <<Last(next.path.nodes)>> \o more.nodes, log |-> next.log \o more.log]

Collect(nodes) == FoldLeft(_copy_results, <<>>, nodes)

tree_find_eq(root, key) ==
    LET p == _find_path(root, key)
    IN [results |-> IF p.found THEN _copy_results(<<>>, Last(p.path.nodes)) ELSE <<>>,
        log |-> GetsOf(p.path.nodes)]

\* The first node of the tree is copied whatever its key is.
tree_find_lt(root, key, equal_to) ==
    LET path == _find_first(root)
        next == NextNodes(path, MAX_TREE_RESULTS)
        below(n) == n.key < key \/ (equal_to /\ n.key = key)
    IN IF root = NULL_HASH THEN [results |-> <<>>, log |-> <<>>]
       ELSE [results |-> Collect(<<Last(path.nodes)>> \o SelectSeq(next.nodes, below)),
             log |-> GetsOf(path.nodes) \o next.log]

\* tree_find_gt and tree_find_range: from the end of the path to low on,
\* the first node under one condition and its successors under another.
FindFrom(root, low, First(_, _), After(_)) ==
    LET p == _find_path(root, low)
        last == Last(p.path.nodes)
        next == NextNodes(p.path, MAX_TREE_RESULTS)
        first == IF First(p.found, last) THEN <<last>> ELSE <<>>
    IN IF root = NULL_HASH THEN [results |-> <<>>, log |-> <<>>]
       ELSE [results |-> Collect(first \o SelectSeq(next.nodes, After)),
             log |-> GetsOf(p.path.nodes) \o next.log]


tree_find_gt(root, key, equal_to) ==
    LET first(found, n) == (found /\ equal_to) \/ n.key > key
        after(n) == TRUE
    IN FindFrom(root, key, first, after)

tree_find_range(root, low, low_equal_to, high, high_equal_to) ==
    LET first(found, n) == \/ found /\ low_equal_to
                           \/ n.key > low /\ n.key < high
                           \/ high_equal_to /\ n.key = high
        after(n) == n.key < high \/ (high_equal_to /\ n.key = high)
    IN FindFrom(root, low, first, after)

-----------------------------------------------------------------------------
(***************************************************************************)
(* Back up the path: each node is linked to the one below it, rotated when *)
(* it leans by two, and stored.                                            *)
(***************************************************************************)

Relinked(n, branch, below) ==
    WithHeight(IF branch = "left" THEN [n EXCEPT !.left = below, !.height_left = below.height]
               ELSE [n EXCEPT !.right = below, !.height_right = below.height])

\* Mutant: the outer rotation is chosen only when the child leans by two.
RotatedWrongTest(n, branch, below) ==
    IF branch = "left" /\ Lean(n) = 2
    THEN IF Lean(below) = 2 THEN _rotate_left_left(n) ELSE _rotate_left_right(n)
    ELSE IF branch = "right" /\ Lean(n) = -2
    THEN IF Lean(below) = -1 THEN _rotate_right_right(n) ELSE _rotate_right_left(n)
    ELSE [node |-> n, log |-> <<>>]

\* Mutant: a node is rotated once it leans by three.
RotatedLate(n, branch, below) ==
    IF branch = "left" /\ Lean(n) > 2
    THEN IF Lean(below) = 1 THEN _rotate_left_left(n) ELSE _rotate_left_right(n)
    ELSE IF branch = "right" /\ Lean(n) < -2
    THEN IF Lean(below) = -1 THEN _rotate_right_right(n) ELSE _rotate_right_left(n)
    ELSE [node |-> n, log |-> <<>>]

Rotated(n, branch, below) ==
    IF branch = "left" /\ Lean(n) = 2
    THEN IF Lean(below) = 1 THEN _rotate_left_left(n) ELSE _rotate_left_right(n)
    ELSE IF branch = "right" /\ Lean(n) = -2
    THEN IF Lean(below) = -1 THEN _rotate_right_right(n) ELSE _rotate_right_left(n)
    ELSE [node |-> n, log |-> <<>>]

\* The loop from the end of the path to the root.
Upwards(path, Step(_, _, _)) ==
    LET d == Len(path.nodes)
        up[i \in 1 .. d] ==
            IF i = d THEN [root |-> path.nodes[d], log |-> <<Stored(path.nodes[d])>>]
            ELSE LET below == up[i + 1]
                     s == Step(path.nodes[i], path.branches[i], below.root)
                 IN [root |-> s.node, log |-> below.log \o s.log \o <<Stored(s.node)>>]
    IN up[1]

\* Mutant: a node is linked on the side taken at the node below it.
RecomputePathShifted(path) ==
    LET step(n, branch, below) == Rotated(Relinked(n, branch, below), branch, below)
    IN Upwards([path EXCEPT !.branches = Append(Tail(@), "equals")], step)

_recompute_path(path) ==
    LET step(n, branch, below) == Rotated(Relinked(n, branch, below), branch, below)
    IN Upwards(path, step)

\* Mutant: the branch at the end of the path is encoded too.
EncodedPathPast(path) ==
    LET bit[i \in 0 .. Len(path.nodes)] ==
            IF i = 0 THEN 0
            ELSE bit[i - 1] + (IF path.branches[i] = "right" THEN 2 ^ i ELSE 0)
    IN [depth |-> Len(path.nodes), bits |-> bit[Len(path.nodes) - 1]]

\* path_depth and tree_path: bit i is set when the path turns right at the
\* i-th node from the root.
EncodedPath(path) ==
    LET bit[i \in 0 .. Len(path.nodes)] ==
            IF i = 0 THEN 0
            ELSE bit[i - 1] + (IF path.branches[i] = "right" THEN 2 ^ (i - 1) ELSE 0)
    IN [depth |-> Len(path.nodes), bits |-> bit[Len(path.nodes) - 1]]

_recompute_path_no_balance(path) ==
    LET step(n, branch, below) == [node |-> Relinked(n, branch, below), log |-> <<>>]
    IN Upwards(path, step) @@ [due |-> EncodedPath(path)]

\* A child the path asks for and the tree does not have ends the program
\* or yields the zero node: hashget(NULL_HASH).
_reconstruct_path(root, depth, bits) ==
    LET walk[i \in 0 .. MAX_TREE_DEPTH] ==
            IF i = 0 THEN [path |-> EmptyPath, next |-> root, log |-> <<>>]
            ELSE LET w == walk[i - 1]
                     n == hashget(w.next)
                     right == (bits \div 2 ^ (i - 1)) % 2 = 1
                 IN IF i > depth THEN w
                    ELSE [path |-> Extend(w.path, n, IF right THEN "right" ELSE "left"),
                          next |-> IF right THEN n.right ELSE n.left,
                          log |-> Append(w.log, Got(w.next))]
    IN [path |-> walk[MAX_TREE_DEPTH].path, log |-> walk[MAX_TREE_DEPTH].log]

\* The links of a node above a rotated one are left as they are.
tree_balance(root, depth, bits) ==
    LET p == _reconstruct_path(root, depth, bits)
        up == Upwards(p.path, Rotated)
    IN [root |-> up.root, log |-> p.log \o up.log]

-----------------------------------------------------------------------------
(***************************************************************************)
(* Updates.  Edit(n) is applied to the node the search finds; when it      *)
(* finds none, fresh (a node or <<>>) is added below the path.             *)
(***************************************************************************)

Written(root, key, Edit(_), fresh, Recompute(_)) ==
    LET p == _find_path(root, key)
        d == Len(p.path.nodes)
        edited == Edit(p.path.nodes[d])
        path == IF p.found THEN [p.path EXCEPT !.nodes[d] = edited.node]
                ELSE Extend(p.path, fresh[1], "equals")
        success == IF p.found THEN edited.ok ELSE fresh # <<>> /\ d < MAX_TREE_DEPTH
        gets == GetsOf(p.path.nodes)
    IN IF success
       THEN LET up == Recompute(path) IN [up EXCEPT !.log = gets \o @] @@ [success |-> TRUE]
       ELSE [root |-> root, log |-> gets, success |-> FALSE]

tree_insert(root, key, value) ==
    LET edit(n) == _copy_value(n, value)
    IN Written(root, key, edit, <<NewNode(key, value)>>, _recompute_path)

tree_update(root, key, old, new) ==
    LET edit(n) == _replace_value(n, old, new)
    IN Written(root, key, edit, <<NewNode(key, new)>>, _recompute_path)

tree_insert_no_balance(root, key, value) ==
    LET edit(n) == _copy_value(n, value)
    IN Written(root, key, edit, <<NewNode(key, value)>>, _recompute_path_no_balance)

tree_update_no_balance(root, key, old, new) ==
    LET edit(n) == _replace_value(n, old, new)
    IN Written(root, key, edit, <<NewNode(key, new)>>, _recompute_path_no_balance)

\* num_values becomes zero; the node stays in the tree and its slots keep
\* what they hold.
tree_remove(root, key) ==
    LET edit(n) == [ok |-> TRUE, node |-> [n EXCEPT !.values = <<>>, !.rest = n.values \o @]]
    IN Written(root, key, edit, <<>>, _recompute_path)

tree_remove_value(root, key, value) ==
    LET edit(n) == DropValue(n, value)
    IN Written(root, key, edit, <<>>, _recompute_path)

=============================================================================
