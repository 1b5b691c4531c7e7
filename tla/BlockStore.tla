----------------------------- MODULE BlockStore -----------------------------
(***************************************************************************)
(* LevelDBBlockStore (src/pepper/storage/leveldb_block_store.cpp) over     *)
(* SynchronizedQueue (src/pepper/storage/synchronized_queue.h): the client *)
(* thread of the prover, and, in the ASYNC_BSTORE build, the write thread. *)
(* A block is stored under the hash of its content, so a key determines    *)
(* its block and stands for the pair; RAM cells are stored under their     *)
(* address, in the same database, always synchronously.                    *)
(* Push, Pop and FlushQueue hold queue_access_mutex throughout, so each is *)
(* one step; every database call is a step of its own.                     *)
(***************************************************************************)
EXTENDS Integers, Sequences, Functions

CONSTANTS Keys,      \* block hashes
          Addrs,     \* RAM addresses
          Words,     \* RAM cell contents
          NoWord,    \* the answer for a cell that was never written
          Builds,    \* which builds: TRUE is the one with ASYNC_BSTORE
          MaxQueue   \* bound on the length of kv_pairs_to_write

ASSUME BlockStoreAssumptions ==
  /\ NoWord \notin Words
  /\ Builds \subseteq BOOLEAN
  /\ MaxQueue \in Nat

VARIABLES
  async,      \* the build this process runs
  opened,     \* db points to an open database
  running,    \* multi_thread_running
  stored,     \* the block keys in the database
  cells,      \* the RAM cells in the database
  queue,      \* kv_pairs_to_write
  writer,     \* the write thread: [pc, key]
  client,     \* the client thread: [pc, key]
  remaining,  \* the client's local vector of flushed pairs
  answer,     \* the key of the last get and whether it was found
  live        \* history: keys put, not freed since, and not lost by a crash

vars == <<async, opened, running, stored, cells, queue, writer, client,
          remaining, answer, live>>

WriterPCs == {"none", "test", "pop", "wait", "put", "done"}
ClientPCs == {"idle", "get", "destroy", "closing", "closed"}

\* Key sets of at most one element: {} is no key.
MaybeKey == {{}} \cup {{k} : k \in Keys}
NoAnswer == [key |-> {}, found |-> FALSE]

\* Every variable holds what the two threads can put into it: a thread has at
\* most one pair in its hands.
TypeOK ==
  /\ async \in BOOLEAN
  /\ opened \in BOOLEAN
  /\ running \in BOOLEAN
  /\ stored \in SUBSET Keys
  /\ cells \in [Addrs -> Words \cup {NoWord}]
  /\ queue \in Seq(Keys)
  /\ writer \in [pc : WriterPCs, key : MaybeKey]
  /\ client \in [pc : ClientPCs, key : MaybeKey]
  /\ remaining \in Seq(Keys)
  /\ answer \in [key : MaybeKey, found : BOOLEAN]
  /\ live \in SUBSET Keys

\* pthread_create at the end of the constructors.
StartWriter(a) == [pc |-> IF a THEN "test" ELSE "none", key |-> {}]
IdleClient == [pc |-> "idle", key |-> {}]

Init ==
  /\ async \in Builds
  /\ opened = TRUE
  /\ running = async
  /\ stored = {}
  /\ cells = [a \in Addrs |-> NoWord]
  /\ queue = <<>>
  /\ writer = StartWriter(async)
  /\ client = IdleClient
  /\ remaining = <<>>
  /\ answer = NoAnswer
  /\ live = {}
-----------------------------------------------------------------------------
(* The client thread *)

\* Mutant: Push without pthread_cond_signal.
SignalledMissing == writer

\* The write thread after pthread_cond_signal.
Signalled == IF writer.pc = "wait" THEN [writer EXCEPT !.pc = "pop"] ELSE writer

Push(k) ==
  /\ Len(queue) < MaxQueue
  /\ queue' = Append(queue, k)
  /\ writer' = Signalled

Put(k) ==
  /\ client.pc = "idle"
  /\ live' = live \cup {k}
  /\ \/ async /\ Push(k) /\ UNCHANGED stored
     \/ ~async /\ stored' = stored \cup {k} /\ UNCHANGED <<queue, writer>>
  /\ UNCHANGED <<async, opened, running, cells, client, remaining, answer>>

FlushQueue ==
  /\ remaining' = queue
  /\ queue' = <<>>

\* Mutant: get does not flush.
GetBeginNoFlush(k) ==
  /\ client.pc = "idle"
  /\ client' = [pc |-> "get", key |-> {k}]
  /\ UNCHANGED <<async, opened, running, stored, cells, queue, writer, remaining, answer, live>>

\* get, as far as the flush; the build without the thread has nothing to flush.
GetBegin(k) ==
  /\ client.pc = "idle"
  /\ client' = [pc |-> "get", key |-> {k}]
  /\ \/ async /\ FlushQueue
     \/ ~async /\ UNCHANGED <<queue, remaining>>
  /\ UNCHANGED <<async, opened, running, stored, cells, writer, answer, live>>

\* One synchronousPut of the flushed pairs, in get or in the destructor.
PutRemaining ==
  /\ client.pc \in {"get", "closing"}
  /\ remaining # <<>>
  /\ stored' = stored \cup {Head(remaining)}
  /\ remaining' = Tail(remaining)
  /\ UNCHANGED <<async, opened, running, cells, queue, writer, client, answer, live>>

\* getVal: the answer get returns.
GetEnd ==
  /\ client.pc = "get"
  /\ remaining = <<>>
  /\ answer' = [key |-> client.key, found |-> client.key \subseteq stored]
  /\ client' = IdleClient
  /\ UNCHANGED <<async, opened, running, stored, cells, queue, writer, remaining, live>>

\* Mutant: free leaves the block in the database.
FreeNothing(k) ==
  /\ client.pc = "idle"
  /\ live' = live \ {k}
  /\ UNCHANGED <<async, opened, running, stored, cells, queue, writer, client, remaining, answer>>

Free(k) ==
  /\ client.pc = "idle"
  /\ stored' = stored \ {k}
  /\ live' = live \ {k}
  /\ UNCHANGED <<async, opened, running, cells, queue, writer, client, remaining, answer>>

PutAddr(a, w) ==
  /\ client.pc = "idle"
  /\ cells' = [cells EXCEPT ![a] = w]
  /\ UNCHANGED <<async, opened, running, stored, queue, writer, client, remaining,
                 answer, live>>

\* The destructor: stop the thread, flush, write what was flushed, close.
DestroyBegin ==
  /\ client.pc = "idle"
  /\ running' = FALSE
  /\ client' = [pc |-> IF async THEN "destroy" ELSE "closing", key |-> {}]
  /\ UNCHANGED <<async, opened, stored, cells, queue, writer, remaining, answer, live>>

DestroyFlush ==
  /\ client.pc = "destroy"
  /\ FlushQueue
  /\ client' = [client EXCEPT !.pc = "closing"]
  /\ UNCHANGED <<async, opened, running, stored, cells, writer, answer, live>>

\* Mutant: closing discards the database (it is opened as a temporary one).
CloseDiscards ==
  /\ client.pc = "closing"
  /\ remaining = <<>>
  /\ opened' = FALSE
  /\ stored' = {}
  /\ client' = [client EXCEPT !.pc = "closed"]
  /\ UNCHANGED <<async, running, cells, queue, writer, remaining, answer, live>>

Close ==
  /\ client.pc = "closing"
  /\ remaining = <<>>
  /\ opened' = FALSE
  /\ client' = [client EXCEPT !.pc = "closed"]
  /\ UNCHANGED <<async, running, stored, cells, queue, writer, remaining, answer, live>>

\* The process ends, at any point: what was not in the database is gone.
Exit ==
  /\ opened' = FALSE
  /\ running' = FALSE
  /\ queue' = <<>>
  /\ remaining' = <<>>
  /\ writer' = [pc |-> "none", key |-> {}]
  /\ client' = [pc |-> "closed", key |-> {}]
  /\ live' = live \cap stored
  /\ UNCHANGED <<async, stored, cells, answer>>

\* The next process opens the same database file.
Reopen ==
  /\ client.pc = "closed"
  /\ writer.pc = "none"
  /\ opened' = TRUE
  /\ running' = async
  /\ writer' = StartWriter(async)
  /\ client' = IdleClient
  /\ answer' = NoAnswer
  /\ UNCHANGED <<async, stored, cells, queue, remaining, live>>
-----------------------------------------------------------------------------
(* The write thread: writeKVPairsToDisk *)

WriterTest ==
  /\ writer.pc = "test"
  /\ writer' = [writer EXCEPT !.pc = IF running THEN "pop" ELSE "done"]
  /\ UNCHANGED <<async, opened, running, stored, cells, queue, client, remaining,
                 answer, live>>

\* Mutant: the thread ends when it finds the queue empty.
WriterPopNoWait ==
  /\ writer.pc = "pop"
  /\ \/ /\ queue # <<>>
        /\ writer' = [pc |-> "put", key |-> {Head(queue)}]
        /\ queue' = Tail(queue)
     \/ /\ queue = <<>>
        /\ writer' = [writer EXCEPT !.pc = "done"]
        /\ UNCHANGED queue
  /\ UNCHANGED <<async, opened, running, stored, cells, client, remaining, answer, live>>

\* Mutant: Pop takes everything that is queued.
WriterPopAll ==
  /\ writer.pc = "pop"
  /\ writer' = [pc |-> IF queue = <<>> THEN "wait" ELSE "put", key |-> Range(queue)]
  /\ queue' = <<>>
  /\ UNCHANGED <<async, opened, running, stored, cells, client, remaining, answer, live>>

\* Pop, up to its return or its wait.
WriterPop ==
  /\ writer.pc = "pop"
  /\ \/ /\ queue # <<>>
        /\ writer' = [pc |-> "put", key |-> {Head(queue)}]
        /\ queue' = Tail(queue)
     \/ /\ queue = <<>>
        /\ writer' = [writer EXCEPT !.pc = "wait"]
        /\ UNCHANGED queue
  /\ UNCHANGED <<async, opened, running, stored, cells, client, remaining, answer, live>>

\* pthread_cond_wait may return without a signal.
SpuriousWakeup ==
  /\ writer.pc = "wait"
  /\ writer' = [writer EXCEPT !.pc = "pop"]
  /\ UNCHANGED <<async, opened, running, stored, cells, queue, client, remaining,
                 answer, live>>

\* Mutant: multi_thread_running is tested again after Pop, and the pair dropped.
WriterPutIfRunning ==
  /\ writer.pc = "put"
  /\ stored' = IF opened /\ running THEN stored \cup writer.key ELSE stored
  /\ writer' = [pc |-> "test", key |-> {}]
  /\ UNCHANGED <<async, opened, running, cells, queue, client, remaining, answer, live>>

\* synchronousPut of the popped pair.  Through a deleted db the write reaches
\* nothing (or ends the process, which is Exit).
WriterPut ==
  /\ writer.pc = "put"
  /\ stored' = IF opened THEN stored \cup writer.key ELSE stored
  /\ writer' = [pc |-> "test", key |-> {}]
  /\ UNCHANGED <<async, opened, running, cells, queue, client, remaining, answer, live>>

Writer == WriterTest \/ WriterPop \/ WriterPut

Next ==
  \/ \E k \in Keys : Put(k) \/ GetBegin(k) \/ Free(k)
  \/ \E a \in Addrs, w \in Words : PutAddr(a, w)
  \/ PutRemaining
  \/ GetEnd
  \/ DestroyBegin
  \/ DestroyFlush
  \/ Close
  \/ Exit
  \/ Reopen
  \/ WriterTest
  \/ WriterPop
  \/ SpuriousWakeup
  \/ WriterPut

Spec == Init /\ [][Next]_vars

\* Each thread is scheduled: the write thread keeps running, and a call the
\* client began returns.
FairSpec ==
  /\ Spec
  /\ WF_vars(Writer)
  /\ WF_vars(PutRemaining \/ GetEnd \/ DestroyFlush \/ Close)
-----------------------------------------------------------------------------
(* Properties *)

\* The blocks on their way to the database: queued, popped by the write thread
\* but not written, or flushed by the client but not written.
Pending == Range(queue) \cup Range(remaining) \cup writer.key

\* No block is lost between put and the database: while the store is open, a
\* block that was put and not freed is stored, queued, or in the hands of one
\* of the two threads (Push, Pop, FlushQueue and the writes that follow them).
NoBlockLost == opened => live \subseteq stored \cup Pending

\* When get reads the database, and when the destructor closes it, the queue
\* and the flushed vector have been written; the only block that can be
\* missing is the one the write thread has popped and not yet written.
OnlyInFlightMissing ==
  (opened /\ client.pc \in {"get", "closing"} /\ remaining = <<>>)
     => live \ stored \subseteq writer.key

\* The write thread never sleeps on a queue that has pairs: Push signals under
\* the mutex, and Pop tests the queue again when it wakes.
NoLostWakeup == queue # <<>> => writer.pc # "wait"

\* Without ASYNC_BSTORE get answers exactly by the puts and frees before it,
\* whatever processes ended in between.
SyncGetReflectsPuts ==
  [][(~async /\ client.pc = "get" /\ client'.pc = "idle")
        => (answer'.found <=> client.key \subseteq live)]_vars

\* Both builds implement the write-behind store: no durable block disappears
\* except by free, none appears that was not put, a pending block is dropped
\* only when the store closes, and get answers from the durable blocks.
WB == INSTANCE WriteBehindStore WITH
        durable <- stored, pending <- Pending, open <- opened
ImplementsWriteBehind == WB!Spec

\* A block that is put is eventually in the database, unless it is freed or the
\* store is closed first: the write thread drains the queue.
EventuallyStored ==
  \A k \in Keys : (k \in live) ~> (k \in stored \/ k \notin live \/ ~opened)

\* The inductive strengthening of the three invariants above: where each thread
\* stands determines what the queue, the flushed vector and the writer hold.
ControlInv ==
  /\ client.pc \in {"get", "closing", "closed"} => queue = <<>>
  /\ client.pc \in {"idle", "destroy", "closed"} => remaining = <<>>
  /\ writer.pc # "put" <=> writer.key = {}
  /\ client.pc = "get" => client.key # {}
  /\ opened <=> client.pc # "closed"
  /\ ~async => queue = <<>> /\ remaining = <<>> /\ writer.pc = "none"
  /\ writer.pc = "none" => live \subseteq stored
  /\ ~async => stored = live
  /\ (async /\ writer.pc = "none") => client.pc = "closed"

IInv == TypeOK /\ ControlInv /\ NoBlockLost /\ NoLostWakeup
=============================================================================
