---------------------------- MODULE StudentTable ----------------------------
(***************************************************************************)
(* What the searchable trees of a database promise: a table that has, for  *)
(* every index and every key, a list of rows.  Each call has one effect on *)
(* the list of one key of one index, and a call without an effect (a list  *)
(* that is full, a row that is there already, a row that is not there)     *)
(* leaves the table as it is.                                              *)
(***************************************************************************)
EXTENDS Integers, Sequences, SequencesExt

CONSTANTS
    Trees,      \* the indexes
    Keys,
    Capacity    \* rows of a key

VARIABLE table  \* for every index, the rows of every key

Init == table = [t \in Trees |-> [k \in Keys |-> <<>>]]

\* A new database: the row r has the key column[t][r] in the index t.
Load(column) ==
    table' = [t \in Trees |-> [k \in Keys |->
                 IF t \in DOMAIN column
                 THEN SetToSeq({r \in DOMAIN column[t] : column[t][r] = k}) ELSE <<>>]]

Rows(t, k) == table[t][k]
Change(t, k, list) == table' = [table EXCEPT ![t][k] = list]

Added(list, r) == IF Len(list) < Capacity THEN Append(list, r) ELSE list

Insert(t, k, r) ==
    Change(t, k, IF Contains(Rows(t, k), r) THEN Rows(t, k) ELSE Added(Rows(t, k), r))

\* The new row takes the place of the old one, or is added if that is missing.
Update(t, k, old, new) ==
    Change(t, k, IF Contains(Rows(t, k), old) THEN ReplaceAll(Rows(t, k), old, new)
                 ELSE Added(Rows(t, k), new))

RemoveKey(t, k) == Change(t, k, <<>>)

RemoveValue(t, k, r) == Change(t, k, RemoveFirst(Rows(t, k), r))

=============================================================================
