----------------------------- MODULE MerkleRam -----------------------------
(***************************************************************************)
(* The Merkle-tree RAM.  The words live in a persistent block store, the   *)
(* hashes of the tree in a cache in the prover's memory (RAMImpl).  The    *)
(* input generator reads the root hash off the store; the constraints that *)
(* the back-end inserts for RAMGET and RAMPUT (merkle.go) recompute the    *)
(* root from a leaf and its siblings, and thread it from put to put.       *)
(*                                                                         *)
(* Hashes are terms: hash(v), hash(l, r) and the hash of a subtree that    *)
(* does not exist are never equal.  The prover may die between two lines   *)
(* of the worksheet, and may be run again on the same inputs.              *)
(***************************************************************************)
EXTENDS Integers

CONSTANTS
    NumAddresses,   \* DB_NUM_ADDRESSES
    Values          \* words of a cell

\* 1 << n
Pow2[n \in Nat] == IF n = 0 THEN 1 ELSE 2 * Pow2[n - 1]

\* merkle.go: dbSize "should be a power of 2".
ASSUME MerkleRamAssumptions ==
    /\ NumAddresses \in Nat
    /\ \E k \in 1 .. NumAddresses : Pow2[k] = NumAddresses
    /\ 0 \in Values

NumLevels == CHOOSE l \in 1 .. NumAddresses + 1 : Pow2[l - 1] = NumAddresses
Levels == 0 .. NumLevels - 1

\* A program may use any index; two of them are not addresses.
Indices == 0 .. NumAddresses + 1

VARIABLES
    store,      \* cells the block store holds, a partial function
    hashCache,  \* RAMImpl._hashCache, a partial function of the node's index
    rootHash,   \* RAMImpl._rootHash
    inHash,     \* the root hash among the inputs
    dbHash,     \* the value of the current db_hash_vars
    op,         \* the RAMGET or RAMPUT being executed
    satisfied,  \* the path checks of this run hold so far
    prover,     \* "off", "run" or "exit"
    wrote,      \* a run has put since the inputs were generated
    current     \* this run began with inputs generated after the last put

vars == <<store, hashCache, rootHash, inHash, dbHash, op, satisfied, prover, wrote, current>>

HashValue(v) == <<"leaf", v>>
HashChildren(l, r) == <<"node", l, r>>
EmptyHash == <<"empty">>

NoOp == [kind |-> "none"]

-----------------------------------------------------------------------------
(***************************************************************************)
(* RAMImpl                                                                 *)
(***************************************************************************)

\* Mutant: the nodes of a level start one too far.
HCIndexFromOne(addr, level) == Pow2[level] + addr
HCIndex(addr, level) == Pow2[level] - 1 + addr

\* The ancestor of addr at a level.
Shifted(addr, level) == addr \div Pow2[NumLevels - level - 1]
ShiftedIndex(addr, level) == HCIndex(Shifted(addr, level), level)

Cell(st, addr) == IF addr \in DOMAIN st THEN st[addr] ELSE 0

Outside(addr, level) == addr * Pow2[NumLevels - level - 1] >= NumAddresses

\* What updateSubtree(addr, level) returns.
SubtreeHashes(cache, st) ==
    LET hash[level \in Levels] ==
          [addr \in 0 .. NumAddresses - 1 |->
             IF Outside(addr, level) THEN EmptyHash
             ELSE IF HCIndex(addr, level) \in DOMAIN cache
             THEN cache[HCIndex(addr, level)]
             ELSE IF level = NumLevels - 1 THEN HashValue(Cell(st, addr))
             ELSE HashChildren(hash[level + 1][2 * addr],
                               hash[level + 1][2 * addr + 1])]
    IN hash

\* The nodes it puts into the cache, called for the root: those of the tree that
\* are not cached, and none of their ancestors either.
Missing(cache) ==
    {n \in [level : Levels, addr : 0 .. NumAddresses - 1] :
       /\ ~Outside(n.addr, n.level)
       /\ \A l \in 0 .. n.level :
            HCIndex(n.addr \div Pow2[n.level - l], l) \notin DOMAIN cache}

\* updateSubtree(0, 0): the hash of the root, and the cache afterwards.
updateSubtree(cache, st) ==
    LET hash == SubtreeHashes(cache, st)
        put(i) == CHOOSE n \in Missing(cache) : HCIndex(n.addr, n.level) = i
    IN [hash |-> hash[0][0],
        cache |-> [i \in DOMAIN cache \cup {HCIndex(n.addr, n.level) : n \in Missing(cache)} |->
                     IF i \in DOMAIN cache THEN cache[i]
                     ELSE hash[put(i).level][put(i).addr]]]

\* Mutant: the leaf is invalidated and its ancestors are not.
InvalidateLeaf(cache, addr) ==
    [i \in DOMAIN cache \ {ShiftedIndex(addr, NumLevels - 1)} |-> cache[i]]

invalidateHashes(cache, addr) ==
    [i \in DOMAIN cache \ {ShiftedIndex(addr, l) : l \in Levels} |-> cache[i]]

\* Mutant: the sibling is always the next node.
SiblingAfter(addr, level) == ShiftedIndex(addr, level) + 1

SiblingIndex(addr, level) ==
    LET i == ShiftedIndex(addr, level) IN IF i % 2 = 1 THEN i + 1 ELSE i - 1

\* Mutant: a node that is not cached counts as empty.
SiblingAssumed(addr, level) == TRUE

\* getSiblingHash finds the hash.
SiblingFound(addr, level) == SiblingIndex(addr, level) \in DOMAIN hashCache

getSiblingHash(addr, level) ==
    IF SiblingIndex(addr, level) \in DOMAIN hashCache
    THEN hashCache[SiblingIndex(addr, level)] ELSE EmptyHash

\* The constructor of RAMImpl on a store.
Built(st) == updateSubtree(<<>>, st)

-----------------------------------------------------------------------------
(***************************************************************************)
(* The constraints of merkle.go                                            *)
(***************************************************************************)

\* Split(index, numLevels), big endian.
PathBit(addr, i) == (addr \div Pow2[NumLevels - 1 - i]) % 2

genPath(leafHash, addr, siblings) ==
    LET node[i \in Levels] ==
            IF i = NumLevels - 1 THEN leafHash
            ELSE IF PathBit(addr, i + 1) = 1
                 THEN HashChildren(siblings[i + 1], node[i + 1])
                 ELSE HashChildren(node[i + 1], siblings[i + 1])
    IN node[0]

getSiblingHashes(addr) == [l \in 1 .. NumLevels - 1 |-> getSiblingHash(addr, l)]

checkPathBits(leaf, addr, siblings) == genPath(HashValue(leaf), addr, siblings) = dbHash

-----------------------------------------------------------------------------
Init ==
    /\ store = <<>>
    /\ hashCache = <<>>
    /\ rootHash = Built(<<>>).hash
    /\ inHash = Built(<<>>).hash
    /\ dbHash = inHash
    /\ op = NoOp
    /\ satisfied = TRUE
    /\ prover = "off"
    /\ wrote = FALSE
    /\ current = TRUE

\* The input generator opens the prover's store and builds the tree.
GenerateInput ==
    /\ prover = "off"
    /\ inHash' = Built(store).hash
    /\ wrote' = FALSE
    /\ UNCHANGED <<store, hashCache, rootHash, dbHash, op, satisfied, prover, current>>

\* init_block_store, at the start of the prover.
init_block_store ==
    /\ prover = "off"
    /\ hashCache' = Built(store).cache
    /\ rootHash' = Built(store).hash
    /\ dbHash' = inHash
    /\ satisfied' = TRUE
    /\ prover' = "run"
    /\ current' = ~wrote
    /\ UNCHANGED <<store, inHash, op, wrote>>

\* DB_GET_BITS, the first line of a RAMGET and of a RAMPUT.
compute_db_get_bits(kind, addr, v) ==
    /\ prover = "run" /\ op = NoOp
    /\ IF addr > NumAddresses
       THEN prover' = "exit" /\ UNCHANGED op
       ELSE /\ op' = [kind |-> kind, addr |-> addr, value |-> v,
                      leaf |-> Cell(store, addr), siblings |-> <<>>]
            /\ UNCHANGED prover
    /\ UNCHANGED <<store, hashCache, rootHash, inHash, dbHash, satisfied, wrote, current>>

\* DB_GET_SIBLING_HASH for every level, and the check of the path.
compute_db_get_sibling_hash ==
    /\ prover = "run" /\ op # NoOp /\ op.siblings = <<>>
    /\ LET siblings == getSiblingHashes(op.addr)
       IN IF \A l \in 1 .. NumLevels - 1 : SiblingFound(op.addr, l)
          THEN /\ satisfied' = (satisfied /\ checkPathBits(op.leaf, op.addr, siblings))
               /\ op' = IF op.kind = "get" THEN NoOp
                        ELSE [op EXCEPT !.siblings = siblings]
               /\ UNCHANGED prover
          ELSE prover' = "exit" /\ UNCHANGED <<satisfied, op>>
    /\ UNCHANGED <<store, hashCache, rootHash, inHash, dbHash, wrote, current>>

\* Mutant: the path of the new word is checked and not carried on.
RootKept(leafHash, addr, siblings) == dbHash

\* The new db_hash_vars.
NewRoot(leafHash, addr, siblings) == genPath(leafHash, addr, siblings)

\* DB_PUT_BITS, and the root hash for the operations after it.
compute_db_put_bits ==
    /\ prover = "run" /\ op # NoOp /\ op.siblings # <<>>
    /\ store' = [a \in DOMAIN store \cup {op.addr} |->
                   IF a = op.addr THEN op.value ELSE store[a]]
    /\ LET tree == updateSubtree(invalidateHashes(hashCache, op.addr), store')
       IN hashCache' = tree.cache /\ rootHash' = tree.hash
    /\ dbHash' = NewRoot(HashValue(op.value), op.addr, op.siblings)
    /\ op' = NoOp
    /\ wrote' = TRUE
    /\ UNCHANGED <<inHash, satisfied, prover, current>>

\* The process is gone, at the end of the worksheet, by exit(1) or by a crash:
\* the store stays and the cache goes.
ProcessEnds ==
    /\ prover # "off"
    /\ prover' = "off"
    /\ hashCache' = <<>>
    /\ op' = NoOp
    /\ UNCHANGED <<store, rootHash, inHash, dbHash, satisfied, wrote, current>>

Next ==
    \/ GenerateInput
    \/ init_block_store
    \/ \E addr \in Indices : compute_db_get_bits("get", addr, 0)
    \/ \E addr \in Indices, v \in Values : compute_db_get_bits("put", addr, v)
    \/ compute_db_get_sibling_hash
    \/ compute_db_put_bits
    \/ ProcessEnds

Spec == Init /\ [][Next]_vars

-----------------------------------------------------------------------------
(***************************************************************************)
(* Properties                                                              *)
(***************************************************************************)

Nodes == 0 .. 2 * NumAddresses - 2

\* Every variable holds what the code can put into it: the cached hashes are
\* hashes of nodes of the tree.
TypeOK ==
    /\ DOMAIN store \subseteq Indices
    /\ \A a \in DOMAIN store : store[a] \in Values
    /\ DOMAIN hashCache \subseteq Nodes
    /\ op = NoOp \/ /\ op.kind \in {"get", "put"}
                    /\ op.addr \in 0 .. NumAddresses
                    /\ {op.value, op.leaf} \subseteq Values
    /\ prover \in {"off", "run", "exit"}
    /\ {satisfied, wrote, current} \subseteq BOOLEAN

\* The cache holds every node of the Merkle tree of the words in st: a leaf has
\* the hash of its word, any other node the hash of its children's.
IsTree(cache, st) ==
    /\ DOMAIN cache = Nodes
    /\ \A i \in Nodes :
         cache[i] = IF i >= NumAddresses - 1
                    THEN HashValue(Cell(st, i - (NumAddresses - 1)))
                    ELSE HashChildren(cache[2 * i + 1], cache[2 * i + 2])

\* While a worksheet runs the cache holds the hash of every node of the tree
\* of the stored words, and the root hash is its root: invalidateHashes drops
\* every hash that a put makes stale, and updateSubtree refills all of them.
CacheIsTree ==
    prover = "run" => IsTree(hashCache, store) /\ rootHash = hashCache[0]

\* The words and siblings the prover supplies satisfy every path check, in a
\* run whose inputs were generated after the last put of the runs before it.
ChecksSatisfied == current => satisfied

\* The root that the constraints thread from put to put is the root of the
\* prover's tree, although each put computes it from siblings read before it.
RootThreaded == prover = "run" /\ current => dbHash = rootHash

\* No word is ever stored outside the RAM: put() does not look at the address,
\* and relies on the reads that precede it on the worksheet.
StoreInRange == DOMAIN store \subseteq 0 .. NumAddresses - 1
=============================================================================
