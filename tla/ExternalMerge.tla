--------------------------- MODULE ExternalMerge ---------------------------
(***************************************************************************)
(* The merge of external_sort: the sorted chunk files of an array of       *)
(* key-value pairs are merged through input buffers and one output buffer  *)
(* of BUFSIZE entries.                                                     *)
(***************************************************************************)
EXTENDS Integers, Sequences, Functions

CONSTANT BUFSIZE        \* entries of a buffer

ASSUME BufferAssumption == BUFSIZE \in Nat \ {0}

VARIABLES
    chunks,     \* the chunk files
    unsorted,   \* the chunks no thread has sorted
    inputs,     \* chunk_t of each chunk while merging
    sorted_buf, \* the output buffer
    sorted_file \* the file of the merged array

sortVars == <<chunks, unsorted, inputs, sorted_buf, sorted_file>>

NoInputs == <<>>

-----------------------------------------------------------------------------
\* current_pointer is an index into the buffer, 0 for NULL.  The line that
\* should clear it for an empty chunk compares instead of assigning: the
\* pointer stays whatever the memory holds.
Uninitialized == -1

Fill(rest, whenEmpty) ==
    LET size == IF Len(rest) < BUFSIZE THEN Len(rest) ELSE BUFSIZE
    IN [buffer |-> SubSeq(rest, 1, size), rest |-> SubSeq(rest, size + 1, Len(rest)),
        current |-> IF size = 0 THEN whenEmpty ELSE 1]

\* The first loop of merge_sorted_chunks, after the threads have joined.
OpenChunks ==
    /\ chunks # <<>>
    /\ unsorted = {}
    /\ inputs = NoInputs
    /\ inputs' = [i \in DOMAIN chunks |-> Fill(chunks[i], Uninitialized)]
    /\ sorted_buf' = <<>>
    /\ sorted_file' = <<>>
    /\ UNCHANGED <<chunks, unsorted>>

Live == {i \in DOMAIN inputs : inputs[i].current > 0}
Entry(i) == inputs[i].buffer[inputs[i].current]
Smallest == CHOOSE i \in Live : \A j \in Live : Entry(i).key < Entry(j).key
                                             \/ (Entry(i).key = Entry(j).key /\ i <= j)

\* Mutant: the last entry of a buffer is taken for its end.
AdvancedEarly(c) == IF c.current + 1 >= Len(c.buffer) THEN Fill(c.rest, 0)
                    ELSE [c EXCEPT !.current = @ + 1]

\* The pointer past the entry; a used-up buffer is filled again.
Advanced(c) == IF c.current + 1 > Len(c.buffer) THEN Fill(c.rest, 0)
               ELSE [c EXCEPT !.current = @ + 1]

\* One round of the merge loop.
MergeStep ==
    /\ Live # {}
    /\ LET full == Append(sorted_buf, Entry(Smallest))
       IN IF Len(full) >= BUFSIZE
          THEN sorted_buf' = <<>> /\ sorted_file' = sorted_file \o full
          ELSE sorted_buf' = full /\ UNCHANGED sorted_file
    /\ inputs' = [inputs EXCEPT ![Smallest] = Advanced(@)]
    /\ UNCHANGED <<chunks, unsorted>>

\* The end of the merge: what is in the output buffer is written.
MergeEnded == inputs # NoInputs /\ Live = {}
MergedFile == sorted_file \o sorted_buf

-----------------------------------------------------------------------------
SeqSorted(s) == \A i \in 1 .. Len(s) - 1 : s[i].key <= s[i + 1].key

\* The entries the merge has not written yet.
Pending(c) == (IF c.current > 0 THEN SubSeq(c.buffer, c.current, Len(c.buffer)) ELSE <<>>) \o c.rest

(***************************************************************************)
(* merge_sorted_chunks loses, repeats and misplaces nothing: at every      *)
(* round, what is written is in order, no entry still to come is smaller,  *)
(* and written and pending entries are together the entries of the chunk   *)
(* files.  The keys of an index are a permutation, so sets tell.           *)
(***************************************************************************)
MergeInOrder ==
    inputs # NoInputs =>
        LET pending == [i \in DOMAIN inputs |-> Pending(inputs[i])]
        IN /\ SeqSorted(MergedFile)
           /\ \A i \in DOMAIN pending : \A x \in Range(MergedFile), y \in Range(pending[i]) :
                  x.key <= y.key
           /\ UNION {Range(chunks[i]) : i \in DOMAIN chunks}
                = Range(MergedFile) \cup UNION {Range(pending[i]) : i \in DOMAIN pending}
           /\ \A i \in DOMAIN pending : pending[i] = <<>> <=> inputs[i].current <= 0

(***************************************************************************)
(* The pointer that line 167 fails to clear is never used: no chunk file   *)
(* that merge_sorted_chunks opens is empty.                                *)
(***************************************************************************)
NoEmptyChunk == \A i \in DOMAIN inputs : inputs[i].current # Uninitialized

=============================================================================
