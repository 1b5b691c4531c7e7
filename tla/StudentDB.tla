----------------------------- MODULE StudentDB -----------------------------
(***************************************************************************)
(* The Student database: create_compressed_db builds the rows and one      *)
(* balanced, compressed tree per indexed column; programs then query and   *)
(* change the trees through a block store.                                 *)
(*                                                                         *)
(* The block store is the one the prover is built with.  With LevelDB the  *)
(* program starts from an empty tree, the KEY index, and may use every     *)
(* operation of the tree.  With DBBlockStore it starts from what the       *)
(* builder made; the builder is compiled with READONLY and leaves out the  *)
(* KEY index that tree_insert_no_balance and tree_balance work on.         *)
(***************************************************************************)
EXTENDS ExternalSort, DBBlockStore, FiniteSetsExt

CONSTANTS
    Configs,        \* builds: the arguments rows, chunks and depth, whether every
                    \* permutation of the keys is tried or only one, and the
                    \* calls programs make on the database
    Keys,           \* keys of the database and of queries
    WriteKeys,      \* keys a program inserts
    EditKeys,       \* keys a program changes in any other way
    ProbeKeys,      \* keys a program looks up between two changes
    NewRows,        \* rows a program stores
    MaxEdits,       \* calls on an existing LevelDB tree that are not inserts
    MaxReopens

Indexes == <<"Average", "Class", "Age">>
Trees == {"KEY"} \cup ToSet(Indexes)

\* Every partition of the tree below is perfect: with fewer rows some of the
\* subtrees would be empty.
ASSUME StudentDBAssumptions ==
    /\ \A c \in Configs : c.rows >= 2 ^ (c.depth + 1) - 1
    /\ \A c \in Configs : 0 .. c.rows - 1 \subseteq Keys /\ NewRows \cap 0 .. c.rows - 1 = {}
    /\ \A c \in Configs : c.rows % 2 = 1       \* 2i % rows is a permutation

VARIABLES
    config,     \* the arguments of create_compressed_db, or <<>>
    phase,      \* what the program is doing
    current,    \* the index being sorted or built
    rows,       \* rows.db while it is built
    kv_pairs,   \* the sorted array of every index
    subtrees,   \* subtree_info_t of the index being built
    index,      \* index.db and hash.db while they are built
    hashes,
    handles,    \* the _handle and _root files of every index
    store,      \* the open block store
    roots,      \* the root hash a program holds for every tree
    due,        \* path_depth and tree_path a tree_balance is due for
    deferred,   \* a tree was changed without balancing it
    calls,      \* calls counted against a bound
    reopens,
    lost,       \* trees changed in an earlier session of DBBlockStore
    ended,      \* the operation and the tree when the program stops
    table       \* what the calls made so far say the trees hold: a history
                \* variable, changed by the actions of StudentTable alone

buildVars == <<rows, kv_pairs, subtrees, index, hashes, handles>>
clientVars == <<store, roots, due, deferred, calls, reopens, lost, ended>>
vars == <<config, phase, current, sortVars, buildVars, clientVars, table>>

Table == INSTANCE StudentTable WITH Capacity <- MAX_TREE_NODE_VALUES

Row == 0 .. Max({c.rows : c \in Configs} \cup {1}) - 1
number_of_rows == config.rows
number_of_chunks == config.chunks
max_depth == config.depth

NotDue == <<>>

-----------------------------------------------------------------------------
(***************************************************************************)
(* Rows, keys and chunks.                                                  *)
(***************************************************************************)

\* generate_random_permutation: a row to key mapping.
RandomKeys(n) ==
    IF config.permuted
    THEN {f \in [0 .. n - 1 -> 0 .. n - 1] : \A i, j \in 0 .. n - 1 : f[i] = f[j] => i = j}
    ELSE {[i \in 0 .. n - 1 |-> (2 * i) % n]}

\* The columns are permuted independently; the bound ties the second and
\* the third to the first.
Column(f, i) == CASE i = 1 -> f
                  [] i = 2 -> [r \in DOMAIN f |-> Cardinality(DOMAIN f) - 1 - f[r]]
                  [] i = 3 -> [r \in DOMAIN f |-> (f[r] + 1) % Cardinality(DOMAIN f)]

entries_per_chunk == (number_of_rows + number_of_chunks - 1) \div number_of_chunks

\* Mutant: as many chunk files as were asked for.
ChunksRequested(column) ==
    [c \in 1 .. number_of_chunks |->
        LET from == (c - 1) * entries_per_chunk
            size == Max({0, Min({entries_per_chunk, number_of_rows - from})})
        IN [k \in 1 .. size |->
              [key |-> column[from + k - 1], value |-> from + k - 1, offset |-> from + k - 1]]]

\* The files generate_db_rows leaves: as many as it takes.
ChunksOf(column) ==
    [c \in 1 .. (number_of_rows + entries_per_chunk - 1) \div entries_per_chunk |->
        LET from == (c - 1) * entries_per_chunk
        IN [k \in 1 .. Min({entries_per_chunk, number_of_rows - from}) |->
              [key |-> column[from + k - 1], value |-> from + k - 1, offset |-> from + k - 1]]]

\* generate_random_permutation_as_keys and generate_db_rows; the array of
\* an index is read from its chunks when its turn to be sorted comes.
GenerateRows ==
    /\ phase = "generate"
    /\ \E f \in RandomKeys(number_of_rows) :
          /\ kv_pairs' = [i \in DOMAIN Indexes |-> ChunksOf(Column(f, i))]
          /\ Table!Load([t \in ToSet(Indexes) |-> Column(f, CHOOSE i \in DOMAIN Indexes : Indexes[i] = t)])
    /\ rows' = [o \in 0 .. number_of_rows - 1 |-> o]
    /\ phase' = "sort"
    /\ current' = 1
    /\ UNCHANGED <<config, sortVars, subtrees, index, hashes, handles, clientVars>>

\* external_sort of the chunks of the next index.
StartSort ==
    /\ phase = "sort"
    /\ chunks = <<>>
    /\ chunks' = kv_pairs[current]
    /\ unsorted' = DOMAIN kv_pairs[current]
    /\ UNCHANGED <<config, phase, current, inputs, sorted_buf, sorted_file, buildVars, clientVars, table>>

SortStep ==
    /\ phase = "sort"
    /\ \/ \E i \in unsorted : sort_one_chunk(i)
       \/ OpenChunks
       \/ MergeStep
    /\ UNCHANGED <<config, phase, current, buildVars, clientVars, table>>

FinishSort ==
    /\ phase = "sort"
    /\ MergeEnded
    /\ kv_pairs' = [kv_pairs EXCEPT ![current] = MergedFile]
    /\ chunks' = <<>>
    /\ inputs' = NoInputs
    /\ sorted_buf' = <<>>
    /\ sorted_file' = <<>>
    /\ IF current < Len(Indexes)
       THEN current' = current + 1 /\ UNCHANGED phase
       ELSE current' = 1 /\ phase' = "partition"
    /\ UNCHANGED <<config, unsorted, rows, subtrees, index, hashes, handles, clientVars, table>>

-----------------------------------------------------------------------------
(***************************************************************************)
(* The compressed trees, bottom up.                                        *)
(***************************************************************************)

RECURSIVE partition_tree(_, _, _)
partition_tree(left, right, depth) ==
    IF left >= right \/ depth > max_depth
    THEN <<[left |-> left, right |-> right, height |-> -1, root |-> NULL_HASH, root_index |-> 0]>>
    ELSE LET mid == left + (right - left) \div 2
         IN partition_tree(left, mid - 1, depth + 1) \o partition_tree(mid + 1, right, depth + 1)

\* Offset 0 of index.db and hash.db stands for no node.
existing_index_entries == 1 + (current - 1) * number_of_rows

\* build_compressed_tree_bottom_up begins; the first one after the reserved
\* entries are written.
Partition ==
    /\ phase = "partition"
    /\ subtrees' = partition_tree(0, number_of_rows - 1, 1)
    /\ index' = IF current = 1 THEN FileWrite(index, 0, <<ZeroCompressed>>, ZeroCompressed) ELSE index
    /\ hashes' = IF current = 1 THEN FileWrite(hashes, 0, <<NULL_HASH>>, NULL_HASH) ELSE hashes
    /\ phase' = "subtrees"
    /\ UNCHANGED <<config, current, sortVars, rows, kv_pairs, handles, clientVars, table>>

\* A node and its compressed form from a key-value pair and two subtrees.
FullNode(kv, l, r) ==
    WithHeight([left |-> l.root, right |-> r.root, key |-> kv.key,
                values |-> <<kv.value>>, rest |-> EmptySlots(1),
                height |-> 0, height_left |-> l.height, height_right |-> r.height])
CompressedNode(kv, l, r) ==
    WithHeight([left |-> l.root_index, right |-> r.root_index, key |-> kv.key,
                values |-> <<kv.offset>>, rest |-> <<>>,
                height |-> 0, height_left |-> l.height, height_right |-> r.height])

\* The subtree of kv[left .. right], its nodes written from offset on, the
\* children before the parent.
RECURSIVE build_compressed_subtree(_, _, _, _)
build_compressed_subtree(kv, left, right, offset) ==
    IF left > right
    THEN [root |-> NULL_HASH, root_index |-> 0, height |-> 0, c_nodes |-> <<>>, nodes |-> <<>>]
    ELSE LET mid == left + (right - left) \div 2
             l == build_compressed_subtree(kv, left, mid - 1, offset)
             r == build_compressed_subtree(kv, mid + 1, right, offset + Len(l.nodes))
             n == FullNode(kv[mid], l, r)
         IN [root |-> n, height |-> n.height,
             root_index |-> offset + Len(l.nodes) + Len(r.nodes),
             c_nodes |-> l.c_nodes \o r.c_nodes \o <<CompressedNode(kv[mid], l, r)>>,
             nodes |-> l.nodes \o r.nodes \o <<n>>]

\* build_one_compressed_subtree_bottom_up
BuildSubtree ==
    /\ phase = "subtrees"
    /\ \E i \in DOMAIN subtrees :
          /\ subtrees[i].height = -1
          /\ \A j \in 1 .. i - 1 : subtrees[j].height # -1
          /\ LET info == subtrees[i]
                 from == info.left + existing_index_entries
                 kv == [k \in 0 .. info.right - info.left |-> kv_pairs[current][info.left + k + 1]]
                 b == build_compressed_subtree(kv, 0, info.right - info.left, from)
             IN /\ subtrees' = [subtrees EXCEPT ![i] =
                      [@ EXCEPT !.root = b.root, !.height = b.height,
                                !.root_index = from + Len(b.nodes) - 1]]
                /\ index' = FileWrite(index, from, b.c_nodes, ZeroCompressed)
                /\ hashes' = FileWrite(hashes, from, b.nodes, NULL_HASH)
          /\ phase' = IF i = Len(subtrees) THEN "merge" ELSE phase
    /\ UNCHANGED <<config, current, sortVars, rows, kv_pairs, handles, clientVars, table>>

\* Mutant: top nodes are written one entry early, over the last subtree.
TopIndexShort(mid) == mid

\* merge_compressed_trees: root_index of a top node.  The entries of the
\* indexes built before are not counted.
TopIndex(mid) == mid + 1

RECURSIVE MergeLevels(_, _, _)
MergeLevels(infos, i_file, h_file) ==
    IF Len(infos) = 1 THEN [info |-> infos[1], index |-> i_file, hashes |-> h_file]
    ELSE LET pair(i) == <<infos[2 * i - 1], infos[2 * i]>>
             mid(i) == pair(i)[1].right + 1
             kv(i) == kv_pairs[current][mid(i) + 1]
             top(i) == FullNode(kv(i), pair(i)[1], pair(i)[2])
             c_top(i) == CompressedNode(kv(i), pair(i)[1], pair(i)[2])
             info(i) == [left |-> pair(i)[1].left, right |-> pair(i)[2].right,
                         height |-> top(i).height, root |-> top(i), root_index |-> TopIndex(mid(i))]
             I == 1 .. Len(infos) \div 2
             files == FoldLeft(LAMBDA f, i :
                         [index |-> FileWrite(f.index, TopIndex(mid(i)), <<c_top(i)>>, ZeroCompressed),
                          hashes |-> FileWrite(f.hashes, TopIndex(mid(i)), <<top(i)>>, NULL_HASH)],
                         [index |-> i_file, hashes |-> h_file], [i \in I |-> i])
         IN MergeLevels([i \in I |-> info(i)], files.index, files.hashes)

MergeTrees ==
    /\ phase = "merge"
    /\ LET m == MergeLevels(subtrees, index, hashes)
       IN /\ index' = m.index
          /\ hashes' = m.hashes
          /\ handles' = [handles EXCEPT ![current] =
                           [hash |-> m.info.root, root |-> m.index[m.info.root_index]]]
          /\ roots' = [roots EXCEPT ![Indexes[current]] = m.info.root]
    /\ subtrees' = <<>>
    /\ IF current < Len(Indexes)
       THEN current' = current + 1 /\ phase' = "partition"
       ELSE current' = 1 /\ phase' = "bootstrap"
    /\ UNCHANGED <<config, sortVars, rows, kv_pairs, store, due, deferred, calls, reopens, lost, ended, table>>

\* write_bootstrap_info_into_leveldb for every index, then the constructor of
\* DBBlockStore.  The temporary files are not read again.
Bootstrap ==
    /\ phase = "bootstrap"
    /\ store' = DBStore(rows, index, hashes,
                  [h \in {handles[i].hash : i \in DOMAIN handles} |->
                      handles[CHOOSE i \in DOMAIN handles : handles[i].hash = h].root])
    /\ phase' = "serve"
    /\ rows' = EmptyFile
    /\ index' = EmptyFile
    /\ hashes' = EmptyFile
    /\ handles' = <<>>
    /\ kv_pairs' = <<>>
    /\ UNCHANGED <<config, current, sortVars, subtrees, roots, due, deferred, calls, reopens, lost, ended, table>>

-----------------------------------------------------------------------------
(***************************************************************************)
(* Programs.                                                               *)
(***************************************************************************)

RECURSIVE NodesOf(_)
NodesOf(h) == IF h = NULL_HASH THEN {} ELSE {h} \cup NodesOf(h.left) \cup NodesOf(h.right)

\* Old versions of a LevelDB tree stay in the store; no program holds their
\* hashes, and they are left out of the state.
Trimmed(s, rts) ==
    IF s.kind = "leveldb" THEN [s EXCEPT !.blocks = @ \cap UNION {NodesOf(rts[t]) : t \in Trees}]
    ELSE s

FirstRow == Min(NewRows)
ProgramRows == IF store.kind = "leveldb" THEN NewRows ELSE {FirstRow}
RowsAt(t, k) == UNION {ToSet(n.values) : n \in {m \in NodesOf(roots[t]) : m.key = k}}
OpenTrees == IF store.kind = "leveldb" THEN {"KEY"} ELSE ToSet(Indexes)
Serving(t) == phase = "serve" /\ store.status = "open" /\ t \in OpenTrees

\* The bounds: inserts of the first row into a LevelDB tree are free.
Counted(free) ==
    IF store.kind = "leveldb" /\ free THEN UNCHANGED calls
    ELSE /\ calls < (IF store.kind = "leveldb" THEN MaxEdits ELSE config.calls)
         /\ calls' = calls + 1

\* The bounds: a tree has keys outside EditKeys only if they were inserted
\* into a LevelDB tree on which no call was counted.
WithinBounds(t, k, free) ==
    store.kind = "db" \/ calls > 0 \/ ~free =>
        /\ k \in EditKeys
        /\ store.kind = "leveldb" => \A n \in NodesOf(roots[t]) : n.key \in EditKeys

\* A program's calls on the store; it has the new root when they all return.
Perform(op, t, before, result) ==
    LET log == before \o result.log
    IN \E intact \in SUBSET UnfilledGets(store, log) :
        LET s == Replay(store, log, intact)
            rts == IF s.status = "open" THEN [roots EXCEPT ![t] = result.root] ELSE roots
        IN /\ store' = Trimmed(s, rts)
           /\ roots' = rts
           /\ ended' = IF s.status = "open" THEN ended ELSE <<op, t>>
           /\ lost' = IF rts[t] # roots[t] THEN lost \ {t} ELSE lost
           /\ UNCHANGED <<config, phase, current, sortVars, buildVars, reopens>>

RECURSIVE TrueHeight(_)
TrueHeight(h) == IF h = NULL_HASH THEN 0 ELSE 1 + Max({TrueHeight(h.left), TrueHeight(h.right)})

\* What the call means for the table, unless the program ended in it.  A new
\* key may be refused when the tree is as high as it may be.
Means(effect) == IF store'.status = "open" THEN effect ELSE UNCHANGED table
Adds(t, k, result, effect) ==
    Means(IF ~result.success /\ TrueHeight(roots[t]) = MAX_TREE_DEPTH /\ table[t][k] = <<>>
          THEN UNCHANGED table ELSE effect)

\* INSERT and UPDATE store the row, then change the tree.
Insert(t, k, r) ==
    /\ Serving(t) /\ due = NotDue
    /\ Counted(r = FirstRow) /\ WithinBounds(t, k, r = FirstRow)
    /\ LET result == tree_insert(roots[t], k, r)
       IN /\ Perform("tree_insert", t, <<StoredRow(r)>>, result)
          /\ Adds(t, k, result, Table!Insert(t, k, r))
    /\ UNCHANGED <<due, deferred>>

Update(t, k, old, new) ==
    /\ Serving(t) /\ due = NotDue
    /\ Counted(FALSE) /\ WithinBounds(t, k, FALSE)
    /\ LET result == tree_update(roots[t], k, old, new)
       IN /\ Perform("tree_update", t, <<StoredRow(new)>>, result)
          /\ Adds(t, k, result, Table!Update(t, k, old, new))
    /\ UNCHANGED <<due, deferred>>

RemoveKey(t, k) ==
    /\ Serving(t) /\ due = NotDue
    /\ Counted(FALSE) /\ WithinBounds(t, k, FALSE)
    /\ Perform("tree_remove", t, <<>>, tree_remove(roots[t], k))
    /\ Means(Table!RemoveKey(t, k))
    /\ UNCHANGED <<due, deferred>>

RemoveValue(t, k, r) ==
    /\ Serving(t) /\ due = NotDue
    /\ Counted(FALSE) /\ WithinBounds(t, k, FALSE)
    /\ Perform("tree_remove_value", t, <<>>, tree_remove_value(roots[t], k, r))
    /\ Means(Table!RemoveValue(t, k, r))
    /\ UNCHANGED <<due, deferred>>

\* cql_rw_si and cql_rw_update hand path_depth and tree_path to the program
\* tree_balance, which runs before the next change.
Deferred(result) ==
    IF result.success THEN due' = result.due /\ deferred' = TRUE
    ELSE UNCHANGED <<due, deferred>>

InsertNoBalance(k, r) ==
    /\ Serving("KEY") /\ due = NotDue
    /\ Counted(r = FirstRow) /\ WithinBounds("KEY", k, r = FirstRow)
    /\ LET result == tree_insert_no_balance(roots["KEY"], k, r)
       IN /\ Perform("tree_insert_no_balance", "KEY", <<StoredRow(r)>>, result)
          /\ Deferred(result)
          /\ Adds("KEY", k, result, Table!Insert("KEY", k, r))

UpdateNoBalance(k, old, new) ==
    /\ Serving("KEY") /\ due = NotDue
    /\ Counted(FALSE) /\ WithinBounds("KEY", k, FALSE)
    /\ LET result == tree_update_no_balance(roots["KEY"], k, old, new)
       IN /\ Perform("tree_update_no_balance", "KEY", <<StoredRow(new)>>, result)
          /\ Deferred(result)
          /\ Adds("KEY", k, result, Table!Update("KEY", k, old, new))

Balance ==
    /\ Serving("KEY") /\ due # NotDue
    /\ Perform("tree_balance", "KEY", <<>>, tree_balance(roots["KEY"], due.depth, due.bits))
    /\ due' = NotDue
    /\ UNCHANGED <<deferred, calls, table>>

Queries ==
    [op : {"eq"}, key : Keys] \cup [op : {"lt", "gt"}, key : Keys, equal_to : BOOLEAN]
      \cup {q \in [op : {"range"}, key : Keys, equal_to : BOOLEAN, high : Keys, high_equal_to : BOOLEAN] :
               q.key \in ProbeKeys /\ q.key < q.high}

Answer(root, q) ==
    CASE q.op = "eq" -> tree_find_eq(root, q.key)
      [] q.op = "lt" -> tree_find_lt(root, q.key, q.equal_to)
      [] q.op = "gt" -> tree_find_gt(root, q.key, q.equal_to)
      [] q.op = "range" -> tree_find_range(root, q.key, q.equal_to, q.high, q.high_equal_to)

Probes == {q \in Queries : q.key \in ProbeKeys /\ (q.op # "eq" => q.equal_to)
                             /\ (q.op = "range" => q.high = Max(Keys) /\ q.high_equal_to)}

\* A SELECT: the query, then the row of every result.
Find(t, q) ==
    /\ Serving(t)
    /\ Counted(TRUE)
    /\ LET a == Answer(roots[t], q)
       IN Perform("tree_find", t, <<>>,
            [root |-> roots[t], log |-> a.log \o [i \in DOMAIN a.results |-> GotRow(a.results[i].value)]])
    /\ UNCHANGED <<due, deferred, table>>

\* The program that holds the handle opens the database again.
Reopen ==
    /\ phase = "serve" /\ store.status = "open" /\ store.kind = "db"
    /\ reopens < MaxReopens
    /\ reopens' = reopens + 1
    /\ store' = Reopened(store)
    /\ lost' = {t \in OpenTrees : roots[t] \notin DOMAIN store.ldb}
    /\ UNCHANGED <<config, phase, current, sortVars, buildVars, roots, due, deferred, calls, ended, table>>

NoStore == [kind |-> "db", status |-> "closed"]

Init ==
    /\ \/ config = <<>> /\ phase = "serve" /\ store = LevelDB
       \/ config \in Configs /\ phase = "generate" /\ store = NoStore
    /\ current = 1
    /\ chunks = <<>> /\ unsorted = {} /\ inputs = NoInputs
    /\ sorted_buf = <<>> /\ sorted_file = <<>>
    /\ rows = EmptyFile /\ kv_pairs = <<>> /\ subtrees = <<>>
    /\ index = EmptyFile /\ hashes = EmptyFile
    /\ handles = [i \in DOMAIN Indexes |-> <<>>]
    /\ roots = [t \in Trees |-> NULL_HASH]
    /\ due = NotDue /\ deferred = FALSE /\ calls = 0 /\ reopens = 0 /\ lost = {} /\ ended = <<>>
    /\ Table!Init

Next ==
    \/ GenerateRows \/ StartSort \/ SortStep \/ FinishSort
    \/ Partition \/ BuildSubtree \/ MergeTrees \/ Bootstrap
    \/ \E t \in OpenTrees, k \in WriteKeys :
          \/ RemoveKey(t, k)
          \/ \E r \in ProgramRows : Insert(t, k, r)
          \/ \E old \in ProgramRows \cup RowsAt(t, k) :
                RemoveValue(t, k, old) \/ \E new \in ProgramRows : Update(t, k, old, new)
    \/ \E k \in WriteKeys, r \in NewRows :
          InsertNoBalance(k, r) \/ \E old \in NewRows : UpdateNoBalance(k, old, r)
    \/ Balance
    \/ \E t \in OpenTrees, q \in Probes : Find(t, q)
    \/ Reopen

Spec == Init /\ [][Next]_vars

-----------------------------------------------------------------------------
(***************************************************************************)
(* Properties.                                                             *)
(***************************************************************************)

RECURSIVE InOrder(_)
InOrder(h) == IF h = NULL_HASH THEN <<>> ELSE InOrder(h.left) \o <<h>> \o InOrder(h.right)

HeightsExact(root) ==
    \A n \in NodesOf(root) : /\ n.height_left = TrueHeight(n.left)
                             /\ n.height_right = TrueHeight(n.right)
                             /\ n.height = TrueHeight(n)
Balanced(root) == \A n \in NodesOf(root) : Lean(n) \in -1 .. 1

(***************************************************************************)
(* Whatever calls are made in whatever order, balanced or not, every tree  *)
(* is a search tree no deeper than a path can be, and the heights stored   *)
(* in its nodes, which the rotations trust, are the heights of their       *)
(* subtrees (inorder_traverse: "wrong height").                            *)
(***************************************************************************)
SearchTrees ==
    \A t \in Trees :
        LET nodes == InOrder(roots[t])
        IN /\ \A i \in 1 .. Len(nodes) - 1 : nodes[i].key < nodes[i + 1].key
           /\ HeightsExact(roots[t])
           /\ TrueHeight(roots[t]) <= MAX_TREE_DEPTH

(***************************************************************************)
(* As long as no change was deferred, every tree is balanced: the builder  *)
(* makes balanced trees and tree_insert, tree_update, tree_remove and      *)
(* tree_remove_value keep them so (inorder_traverse: "not balanced.").     *)
(***************************************************************************)
KeptBalanced == ~deferred => \A t \in Trees : Balanced(roots[t])

Leaning(root) == {n \in NodesOf(root) : Lean(n) \notin -1 .. 1}

(***************************************************************************)
(* path_depth and tree_path, which leave the program as two numbers and    *)
(* come back to another one, lead tree_balance down the tree without       *)
(* falling off it, and past every node that this change left leaning by    *)
(* two (a node that an earlier change left so may be elsewhere).           *)
(***************************************************************************)
PathLeadsBack ==
    [][due = NotDue /\ due' # NotDue =>
        LET path == _reconstruct_path(roots'["KEY"], due'.depth, due'.bits).path
            before == {n.key : n \in Leaning(roots["KEY"])}
        IN /\ \A i \in DOMAIN path.nodes : path.nodes[i] # ZeroNode
           /\ \A n \in Leaning(roots'["KEY"]) : n.key \in before \/ n \in ToSet(path.nodes)]_vars

(***************************************************************************)
(* tree_balance does balance the tree when the root is the only node that  *)
(* the deferred change left leaning by two.                                *)
(***************************************************************************)
RootIsBalanced ==
    [][/\ due # NotDue /\ due' = NotDue
       /\ \A n \in NodesOf(roots["KEY"]) \ {roots["KEY"]} : Lean(n) \in -1 .. 1
       => store'.status = "open" /\ Balanced(roots'["KEY"])]_vars

RowsUnder(nodes) == FlattenSeq([i \in DOMAIN nodes |-> NodeResults(nodes[i])])

Matches(q, key) ==
    CASE q.op = "eq" -> key = q.key
      [] q.op = "lt" -> key < q.key \/ (q.equal_to /\ key = q.key)
      [] q.op = "gt" -> key > q.key \/ (q.equal_to /\ key = q.key)
      [] q.op = "range" -> /\ key > q.key \/ (q.equal_to /\ key = q.key)
                           /\ key < q.high \/ (q.high_equal_to /\ key = q.high)


(***************************************************************************)
(* The statement the call of tree_find_lt in apps/tree_db.c is written     *)
(* for: "SELECT KEY, Age FROM Student WHERE Age < 24".  No query returns a *)
(* row that does not match it.                                             *)
(***************************************************************************)
FindsMatching ==
    \A t \in Trees, q \in Queries :
        \A r \in ToSet(Answer(roots[t], q).results) : Matches(q, r.key)

(***************************************************************************)
(* index.db and hash.db grow together, and a mapping in the caches of      *)
(* DBBlockStore leads to the row with that hash, or to what is left of the *)
(* node with that hash when it is compressed: with the slots past          *)
(* num_values as they were, the node itself ("assert the reconstructed     *)
(* hash matches the hash").                                                *)
(***************************************************************************)
CachesCertified ==
    store.kind = "db" /\ store.status = "open" =>
        /\ DOMAIN store.index = DOMAIN store.hashes
        /\ \A h \in DOMAIN store.index_hash_cache \ {NULL_HASH} :
              LET o == store.index_hash_cache[h]
              IN store.hashes[o] = h /\ decompressTreeNode(store, store.index[o], h.rest).node = h
        /\ \A r \in DOMAIN store.row_hash_cache : store.rows[store.row_hash_cache[r]] = r

(***************************************************************************)
(* Within one session a program never asks for a mapping that was not      *)
(* cached by what it did before ("This is the case for tree_find and read  *)
(* rows. This is also the case for tree insertion."), and LevelDB has      *)
(* every node of the tree.  A program ends early in two ways only: after   *)
(* the database was closed, on a tree whose new root is nowhere but in its *)
(* handle; and in tree_balance, when a node below the root leaned by two.  *)
(***************************************************************************)
EndsEarly ==
    store.status = "exit" =>
        \/ ended[2] \in lost
        \/ /\ ended[1] = "tree_balance"
           /\ \E n \in NodesOf(roots["KEY"]) \ {roots["KEY"]} : Lean(n) \notin -1 .. 1

(***************************************************************************)
(* __hashget of exo.cpp: "test that the content matches the hash. This     *)
(* ensures that the block store is self certifying."  No program is given  *)
(* another block than the one it asked for.                                *)
(***************************************************************************)
SelfCertifying == store.status # "wrong"

(***************************************************************************)
(* Another block than the one asked for is given in two cases only: for a  *)
(* node that lost its rows, since its slots are hashed and not stored; and *)
(* in a database with more than one top node, on a tree that was not built *)
(* last (it has lost top nodes to a later one).                            *)
(***************************************************************************)
RightBlocks ==
    store.status = "wrong" =>
        \/ Unfilled(store.asked)
        \/ max_depth > 1 /\ ended[2] # Indexes[Len(Indexes)]

(***************************************************************************)
(* inorder_traverse of db_util.cpp, which tests a tree, ends the program   *)
(* with "not balanced." on a node that leans by two.  No tree has one when *)
(* no tree_balance is due.                                                 *)
(***************************************************************************)
BalancedUnlessDue ==
    due = NotDue /\ store.status = "open" => Balanced(roots["KEY"])

(***************************************************************************)
(* The trees implement the table, from the rows the builder was given on:  *)
(* whatever calls were made, a tree holds for every key the rows that the  *)
(* calls say, in order.  A call changes the rows of its key in its own way *)
(* and nothing else; sorting, building, rotations, tree_balance, queries,  *)
(* calls that fail and programs that end in a call change no row.          *)
(***************************************************************************)
ImplementsTable ==
    phase = "serve" =>
        \A t \in Trees :
            LET nodes == NodesOf(roots[t])
            IN /\ \A n \in nodes : n.values = table[t][n.key]
               /\ \A k \in Keys \ {n.key : n \in nodes} : table[t][k] = <<>>

=============================================================================
