---------------------------- MODULE DBBlockStore ----------------------------
(***************************************************************************)
(* The block stores under the tree, chosen when the program is built       *)
(* (ConfigurableBlockStore): LevelDB, a set of blocks, or DBBlockStore,    *)
(* which keeps the rows and the tree nodes of a database in flat files and *)
(* replaces hashes by offsets.                                             *)
(*                                                                         *)
(* A hash is the block it is the hash of, so a row and its hash are one    *)
(* number and a node and its hash one record.  hash.db keeps the hash of   *)
(* every node of index.db; what a node read back has become is compared    *)
(* with the node that was asked for.  A store is a record; every call maps *)
(* a store to a store.                                                     *)
(***************************************************************************)
EXTENDS AvlTree, FiniteSets, Functions, TLC

GotRow(r) == <<"hashget row", r>>
StoredRow(r) == <<"hashput row", r>>

\* A file of fixed-size records: a function from 0 .. n-1.
EmptyFile == [o \in {} |-> 0]
FileSize(f) == Cardinality(DOMAIN f)

\* dump_array at an offset: a gap before it reads as zeros.
FileWrite(f, offset, entries, zero) ==
    LET end == offset + Len(entries)
        size == IF FileSize(f) > end THEN FileSize(f) ELSE end
    IN [o \in 0 .. size - 1 |->
          IF o >= offset /\ o < end THEN entries[o - offset + 1]
          ELSE IF o \in DOMAIN f THEN f[o] ELSE zero]

\* compressed_tree_node_t: rows and children are offsets.  Nothing is stored
\* of the slots past num_values.
ZeroCompressed ==
    [left |-> 0, right |-> 0, key |-> 0, values |-> <<>>, rest |-> <<>>,
     height |-> 0, height_left |-> 0, height_right |-> 0]

LevelDB ==
    [kind |-> "leveldb", status |-> "open", blocks |-> {}, rows |-> {}]

\* The files as the builder leaves them; the caches are empty when opened.
DBStore(rows, index, hashes, ldb) ==
    [kind |-> "db", status |-> "open", rows |-> rows, index |-> index, hashes |-> hashes,
     ldb |-> ldb, row_hash_cache |-> EmptyFile, index_hash_cache |-> EmptyFile,
     asked |-> NULL_HASH]       \* the hash that was answered with another block

Exit(s) == [s EXCEPT !.status = "exit"]

\* What a slot of the tree_node_t that get declares and does not initialise
\* may hold, other than what the slot held when the node was put.
UNWRITTEN == -2

-----------------------------------------------------------------------------

\* Mutant: the mapping of the right child is not remembered.
DecompressedLeftOnly(s, c, rest) ==
    IF \/ \E i \in DOMAIN c.values : c.values[i] \notin DOMAIN s.rows
       \/ {c.left, c.right} \ DOMAIN s.hashes # {}
    THEN [node |-> ZeroNode, store |-> Exit(s)]
    ELSE [node |-> [c EXCEPT !.values = [i \in DOMAIN @ |-> s.rows[@[i]]], !.rest = rest,
                             !.left = s.hashes[c.left], !.right = s.hashes[c.right]],
          store |-> [s EXCEPT
              !.row_hash_cache = @ @@ [r \in {s.rows[c.values[i]] : i \in DOMAIN c.values} |->
                                          CHOOSE o \in Range(c.values) : s.rows[o] = r],
              !.index_hash_cache = @ @@ (s.hashes[c.left] :> c.left)]]

\* decompressTreeNode into a node whose slots past num_values hold rest, and
\* keep it: the node, and the store with the mappings of its rows and
\* children, which never replace a mapping.
decompressTreeNode(s, c, rest) ==
    IF \/ \E i \in DOMAIN c.values : c.values[i] \notin DOMAIN s.rows
       \/ {c.left, c.right} \ DOMAIN s.hashes # {}
    THEN [node |-> ZeroNode, store |-> Exit(s)]
    ELSE [node |-> [c EXCEPT !.values = [i \in DOMAIN @ |-> s.rows[@[i]]], !.rest = rest,
                             !.left = s.hashes[c.left], !.right = s.hashes[c.right]],
          store |-> [s EXCEPT
              !.row_hash_cache = @ @@ [r \in {s.rows[c.values[i]] : i \in DOMAIN c.values} |->
                                          CHOOSE o \in Range(c.values) : s.rows[o] = r],
              !.index_hash_cache = @ @@ (s.hashes[c.left] :> c.left)
                                     @@ (s.hashes[c.right] :> c.right)]]

Link(s, h) == IF h = NULL_HASH THEN 0 ELSE s.index_hash_cache[h]

\* compressTreeNode, when every mapping it looks up is in the caches.
CanCompress(s, n) ==
    /\ \A i \in DOMAIN n.values : n.values[i] \in DOMAIN s.row_hash_cache
    /\ {n.left, n.right} \ {NULL_HASH} \subseteq DOMAIN s.index_hash_cache

compressTreeNode(s, n) ==
    [n EXCEPT !.values = [i \in DOMAIN @ |-> s.row_hash_cache[@[i]]], !.rest = <<>>,
              !.left = Link(s, n.left), !.right = Link(s, n.right)]

-----------------------------------------------------------------------------
(***************************************************************************)
(* The calls of the tree and of the programs on an open store.             *)
(***************************************************************************)

\* The node at h has slots past num_values.
Unfilled(h) == hashget(h).rest # <<>>

\* The nodes whose slots a log of calls leaves to chance.
UnfilledGets(s, log) ==
    IF s.kind = "leveldb" THEN {}
    ELSE {h \in {log[i][2] : i \in {j \in DOMAIN log : log[j][1] = "hashget"}} : Unfilled(h)}

\* The answer to a hashget of h: another block than h is a wrong answer.
Answered(h, answer) ==
    IF answer.node = hashget(h) \/ answer.store.status = "exit" THEN answer.store
    ELSE [answer.store EXCEPT !.status = "wrong", !.asked = h]

\* The node is read into uninitialised memory, where those of intact happen
\* to find their slots past num_values as they were.
GetNode(s, h, intact) ==
    LET was == hashget(h).rest
        rest == IF h \in intact THEN was ELSE [i \in DOMAIN was |-> UNWRITTEN]
    IN IF s.kind = "leveldb" THEN IF h \in s.blocks THEN s ELSE Exit(s)
       ELSE IF h \in DOMAIN s.index_hash_cache
       THEN Answered(h, decompressTreeNode(s, s.index[s.index_hash_cache[h]], rest))
       ELSE IF h \in DOMAIN s.ldb THEN Answered(h, decompressTreeNode(s, s.ldb[h], rest))
       ELSE Exit(s)

\* Mutant: the mapping points at the node before.
PutNodeBefore(s, n) ==
    IF s.kind = "leveldb" THEN [s EXCEPT !.blocks = @ \cup {n}]
    ELSE IF ~CanCompress(s, n) THEN Exit(s)
    ELSE [s EXCEPT
        !.index = FileWrite(@, FileSize(@), <<compressTreeNode(s, n)>>, ZeroCompressed),
        !.hashes = FileWrite(@, FileSize(@), <<n>>, NULL_HASH),
        !.index_hash_cache = @ @@ (n :> FileSize(s.index) - 1)]

\* put appends, and keeps the older of two mappings of a hash.
PutNode(s, n) ==
    IF s.kind = "leveldb" THEN [s EXCEPT !.blocks = @ \cup {n}]
    ELSE IF ~CanCompress(s, n) THEN Exit(s)
    ELSE [s EXCEPT
        !.index = FileWrite(@, FileSize(@), <<compressTreeNode(s, n)>>, ZeroCompressed),
        !.hashes = FileWrite(@, FileSize(@), <<n>>, NULL_HASH),
        !.index_hash_cache = @ @@ (n :> FileSize(s.index))]

GetRow(s, r) ==
    IF s.kind = "leveldb" THEN IF r \in s.rows THEN s ELSE Exit(s)
    ELSE IF r \in DOMAIN s.row_hash_cache THEN s ELSE Exit(s)

PutRow(s, r) ==
    IF s.kind = "leveldb" THEN [s EXCEPT !.rows = @ \cup {r}]
    ELSE [s EXCEPT !.rows = FileWrite(@, FileSize(@), <<r>>, 0),
                   !.row_hash_cache = @ @@ (r :> FileSize(s.rows))]

Call(s, call, intact) ==
    IF s.status # "open" THEN s
    ELSE CASE call[1] = "hashget" -> GetNode(s, call[2], intact)
           [] call[1] = "hashput" -> PutNode(s, call[2])
           [] call[1] = "hashget row" -> GetRow(s, call[2])
           [] call[1] = "hashput row" -> PutRow(s, call[2])

\* The store after the calls of an operation, up to the one that ends the
\* program or is answered with another block.
Replay(s, log, intact) == FoldLeft(LAMBDA t, call : Call(t, call, intact), s, log)

\* Close and Open again: what was only in the caches is forgotten.
Reopened(s) == [s EXCEPT !.row_hash_cache = EmptyFile, !.index_hash_cache = EmptyFile]

=============================================================================
