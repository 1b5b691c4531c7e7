-------------------------- MODULE WriteBehindStore --------------------------
(***************************************************************************)
(* What a HashBlockStore promises its callers, whatever thread does the    *)
(* writing (src/pepper/storage/hash_block_store.h): a block that was put   *)
(* is pending until it is durable, pending blocks become durable in any    *)
(* order, and get answers from what is durable.  Blocks are content        *)
(* addressed, so a key stands for its block.                               *)
(***************************************************************************)
CONSTANT Keys

VARIABLES durable,  \* the keys whose block a get finds
          pending,  \* the keys put and not yet durable
          answer,   \* the key of the last get and whether it was found
          open      \* the store is open

vars == <<durable, pending, answer, open>>

NoAnswer == [key |-> {}, found |-> FALSE]

Init ==
  /\ durable = {}
  /\ pending = {}
  /\ answer = NoAnswer
  /\ open = TRUE

\* put with the write deferred.
Put(k) ==
  /\ open
  /\ pending' = pending \cup {k}
  /\ UNCHANGED <<durable, answer, open>>

\* A deferred write, or a put that writes at once.  A key put twice may still
\* be pending after its first write.
Write(k) ==
  /\ open
  /\ durable' = durable \cup {k}
  /\ pending' \in {pending, pending \ {k}}
  /\ UNCHANGED <<answer, open>>

Get(k) ==
  /\ open
  /\ answer' = [key |-> {k}, found |-> k \in durable]
  /\ UNCHANGED <<durable, pending, open>>

\* free removes what is durable; it does not recall a deferred write.
Free(k) ==
  /\ open
  /\ durable' = durable \ {k}
  /\ UNCHANGED <<pending, answer, open>>

\* The store is closed, or its process ends: deferred writes may be lost then,
\* durable blocks may not.
Lose ==
  /\ open' = FALSE
  /\ pending' \in SUBSET pending
  /\ UNCHANGED <<durable, answer>>

Open ==
  /\ ~open
  /\ open' = TRUE
  /\ answer' = NoAnswer
  /\ UNCHANGED <<durable, pending>>

Next ==
  \/ \E k \in Keys : Put(k) \/ Write(k) \/ Get(k) \/ Free(k)
  \/ Lose
  \/ Open

Spec == Init /\ [][Next]_vars
=============================================================================
