---------------------------- MODULE ExternalSort ----------------------------
(***************************************************************************)
(* external_sort: the chunk files of an array of key-value pairs are       *)
(* sorted in memory by the threads of an OpenMP loop, then merged.         *)
(***************************************************************************)
EXTENDS ExternalMerge

Swapped(b, i, j) == [b EXCEPT ![i] = b[j], ![j] = b[i]]

\* The two inner loops: they stop at an entry not below, not above the pivot.
HoareScan(b, pivot, i, j) ==
    LET i2 == CHOOSE k \in i .. Len(b) : b[k].key >= pivot /\ \A m \in i .. k - 1 : b[m].key < pivot
        j2 == CHOOSE k \in 1 .. j : b[k].key <= pivot /\ \A m \in k + 1 .. j : b[m].key > pivot
    IN [i |-> i2, j |-> j2]

RECURSIVE HoarePartition(_, _, _, _)
HoarePartition(b, pivot, i, j) ==
    IF i > j THEN [b |-> b, i |-> i]
    ELSE LET s == HoareScan(b, pivot, i, j)
         IN IF s.i <= s.j
            THEN HoarePartition(Swapped(b, s.i, s.j), pivot, s.i + 1, s.j - 1)
            ELSE HoarePartition(b, pivot, s.i, s.j)

RECURSIVE quicksort_key_value_pairs(_, _, _)
quicksort_key_value_pairs(b, left, right) ==
    IF left >= right THEN b
    ELSE LET p == HoarePartition(b, b[(left + right) \div 2].key, left, right)
         IN quicksort_key_value_pairs(
                quicksort_key_value_pairs(p.b, left, p.i - 1), p.i, right)

\* sort_one_chunk: load, sort and dump one file.  No two threads of the loop
\* have the same one.
sort_one_chunk(i) ==
    /\ i \in unsorted
    /\ chunks' = [chunks EXCEPT ![i] = quicksort_key_value_pairs(@, 1, Len(@))]
    /\ unsorted' = unsorted \ {i}
    /\ UNCHANGED <<inputs, sorted_buf, sorted_file>>

=============================================================================
