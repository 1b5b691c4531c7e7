------------------------ MODULE ExternalMergeProofs ------------------------
(***************************************************************************)
(* Proofs about external_sort, for buffers of every size and any number of *)
(* chunk files of any length: the merge writes the entries in order, each  *)
(* one once.                                                               *)
(*                                                                         *)
(* Of the sort of a chunk in memory the proofs use what it promises, not   *)
(* how quicksort_key_value_pairs does it.                                  *)
(***************************************************************************)
EXTENDS ExternalMerge, NatLemmas, SequenceTheorems

\* The entries of an array: key-value pairs, of which the sort compares keys.
KeyValuePairs(E) == \A x \in E : x.key \in Int

SortInit(E) ==
    /\ chunks \in Seq(Seq(E))
    /\ chunks # <<>>
    /\ unsorted = DOMAIN chunks
    /\ inputs = NoInputs
    /\ sorted_buf = <<>>
    /\ sorted_file = <<>>

\* What sort_one_chunk promises: a file in order, with the entries it had.
SortsChunk(E, i) ==
    /\ \E s \in Seq(E) : /\ SeqSorted(s)
                         /\ Range(s) = Range(chunks[i])
                         /\ chunks' = [chunks EXCEPT ![i] = s]
    /\ unsorted' = unsorted \ {i}
    /\ UNCHANGED <<inputs, sorted_buf, sorted_file>>

SortNext(E) ==
    \/ \E i \in unsorted : SortsChunk(E, i)
    \/ OpenChunks
    \/ MergeStep

\* external_sort of one array.
SortSpec(E) == SortInit(E) /\ [][SortNext(E)]_sortVars

-----------------------------------------------------------------------------
(***************************************************************************)
(* Sequences in order.                                                     *)
(***************************************************************************)
InOrder(s) == \A i, j \in 1 .. Len(s) : i =< j => s[i].key =< s[j].key

\* Neighbours in order make a sequence in order.
LEMMA NeighboursSuffice ==
    ASSUME NEW E, KeyValuePairs(E), NEW s \in Seq(E), SeqSorted(s)
    PROVE  InOrder(s)
<1> DEFINE n == Len(s)
           f(i) == s[i].key
           S == {d \in Nat : \A i \in 1 .. n : i + d =< n => f(i) =< f(i + d)}
<1>1. n \in Nat /\ \A i \in 1 .. n : f(i) \in Int
  BY ElementOfSeq, LenProperties DEF KeyValuePairs
<1>2. \A i \in 1 .. n - 1 : f(i) =< f(i + 1)
  BY DEF SeqSorted
<1> HIDE DEF n, f
<1>3. 0 \in S
  BY <1>1
<1>4. ASSUME NEW d \in Nat, d \in S
      PROVE  d + 1 \in S
  <2>1. SUFFICES ASSUME NEW i \in 1 .. n, i + (d + 1) =< n
                 PROVE  f(i) =< f(i + (d + 1))
    OBVIOUS
  <2>2. i + d \in 1 .. n - 1 /\ (i + d) + 1 = i + (d + 1) /\ i + d \in 1 .. n /\ i + (d + 1) \in 1 .. n
    BY <1>1, <2>1
  <2>3. f(i) =< f(i + d)
    BY <1>4, <2>2
  <2>4. f(i + d) =< f(i + (d + 1))
    BY <1>2, <2>2
  <2>5. f(i) \in Int /\ f(i + d) \in Int /\ f(i + (d + 1)) \in Int
    BY <1>1, <2>2
  <2>6. QED BY <2>3, <2>4, <2>5
<1>5. \A d \in Nat : d \in S
  <2> HIDE DEF S
  <2>1. QED BY <1>3, <1>4, SetInduction
<1>6. ASSUME NEW i \in 1 .. n, NEW j \in 1 .. n, i =< j
      PROVE  f(i) =< f(j)
  <2>1. j - i \in Nat /\ i + (j - i) = j /\ i + (j - i) =< n
    BY <1>1, <1>6
  <2>2. j - i \in S
    BY <1>5, <2>1, Zenon
  <2>3. QED BY <2>1, <2>2
<1>7. QED BY <1>6 DEF InOrder, f, n

\* An entry at the end of a file in order, when none before it is larger.
LEMMA AppendInOrder ==
    ASSUME NEW E, KeyValuePairs(E), NEW s \in Seq(E), NEW e \in E,
           InOrder(s), \A x \in Range(s) : x.key =< e.key
    PROVE  InOrder(Append(s, e))
<1> DEFINE t == Append(s, e)
<1>1. /\ Len(t) = Len(s) + 1
      /\ \A i \in 1 .. Len(s) : t[i] = s[i]
      /\ t[Len(s) + 1] = e
      /\ Len(s) \in Nat
  BY AppendProperties, LenProperties
<1>2. \A i \in 1 .. Len(s) : s[i] \in Range(s)
  BY LenProperties DEF Range
<1>3. e.key \in Int
  BY DEF KeyValuePairs
<1> HIDE DEF t
<1>4. ASSUME NEW i \in 1 .. Len(t), NEW j \in 1 .. Len(t), i =< j
      PROVE  t[i].key =< t[j].key
  <2>1. CASE j \in 1 .. Len(s)
    <3>1. i \in 1 .. Len(s)
      BY <1>1, <1>4, <2>1
    <3>2. QED BY <1>1, <1>4, <2>1, <3>1 DEF InOrder
  <2>2. CASE j = Len(s) + 1 /\ i \in 1 .. Len(s)
    BY <1>1, <1>2, <2>2
  <2>3. CASE j = Len(s) + 1 /\ i = j
    BY <1>1, <1>3, <2>3
  <2>4. QED BY <1>1, <1>4, <2>1, <2>2, <2>3
<1>5. QED BY <1>4 DEF InOrder, t

(***************************************************************************)
(* The choice of the merge loop: some chunk has the smallest entry, and is *)
(* the first of those with it.                                             *)
(***************************************************************************)
NotAfter(f, i, j) == f[i] < f[j] \/ (f[i] = f[j] /\ i =< j)

LEMMA FirstSmallest ==
    ASSUME NEW n \in Nat, NEW f \in [1 .. n -> Int], NEW L \in SUBSET (1 .. n), L # {}
    PROVE  \E i \in L : \A j \in L : NotAfter(f, i, j)
<1> DEFINE Found(m) == \E i \in L \cap 1 .. m : \A j \in L \cap 1 .. m : NotAfter(f, i, j)
           S == {m \in Nat : (m =< n /\ L \cap 1 .. m # {}) => Found(m)}
<1>1. 0 \in S
  BY DEF S
<1>2. ASSUME NEW m \in Nat, m \in S
      PROVE  m + 1 \in S
  <2>1. SUFFICES ASSUME m + 1 =< n, L \cap 1 .. m + 1 # {}
                 PROVE  Found(m + 1)
    <3> HIDE DEF Found
    <3>1. QED OBVIOUS
  <2>2. 1 .. m + 1 = 1 .. m \cup {m + 1} /\ m + 1 \in 1 .. n
    BY <2>1
  <2>3. CASE m + 1 \notin L
    <3>1. L \cap 1 .. m + 1 = L \cap 1 .. m
      BY <2>2, <2>3
    <3>2. m =< n
      BY <2>1
    <3>3. QED BY <1>2, <2>1, <3>1, <3>2, Zenon
  <2>4. CASE m + 1 \in L /\ L \cap 1 .. m = {}
    <3>1. L \cap 1 .. m + 1 = {m + 1}
      BY <2>2, <2>4
    <3>2. NotAfter(f, m + 1, m + 1)
      BY <2>2 DEF NotAfter
    <3>3. QED BY <3>1, <3>2, Zenon
  <2>5. CASE m + 1 \in L /\ L \cap 1 .. m # {}
    <3>1. m =< n
      BY <2>1
    <3>2. PICK i \in L \cap 1 .. m : \A j \in L \cap 1 .. m : NotAfter(f, i, j)
      BY <1>2, <2>5, <3>1
    <3>3. i < m + 1 /\ f[i] \in Int /\ f[m + 1] \in Int
      BY <2>2
    <3>4. CASE f[i] =< f[m + 1]
      <4>1. NotAfter(f, i, m + 1)
        BY <3>3, <3>4 DEF NotAfter
      <4>2. i \in L \cap 1 .. m + 1 /\ \A j \in L \cap 1 .. m + 1 : NotAfter(f, i, j)
        BY <2>2, <3>2, <4>1, Zenon
      <4>3. QED BY <4>2
    <3>5. CASE f[m + 1] < f[i]
      <4>1. ASSUME NEW j \in L \cap 1 .. m PROVE NotAfter(f, m + 1, j)
        <5>1. f[j] \in Int /\ f[i] =< f[j]
          BY <3>2, <3>3 DEF NotAfter
        <5>2. QED BY <3>3, <3>5, <5>1 DEF NotAfter
      <4>2. NotAfter(f, m + 1, m + 1)
        BY <3>3 DEF NotAfter
      <4>3. m + 1 \in L \cap 1 .. m + 1 /\ \A j \in L \cap 1 .. m + 1 : NotAfter(f, m + 1, j)
        BY <2>2, <2>5, <4>1, <4>2, SMTT(30)
      <4>4. QED BY <4>3
    <3>6. f[i] =< f[m + 1] \/ f[m + 1] < f[i]
      BY <3>3
    <3>7. QED BY <3>4, <3>5, <3>6, Zenon
  <2>6. QED BY <2>3, <2>4, <2>5, Zenon
<1>3. \A m \in Nat : m \in S
  <2> HIDE DEF S
  <2>1. QED BY <1>1, <1>2, SetInduction, Zenon
<1>4. L \cap 1 .. n = L
  BY Zenon
<1>5. Found(n)
  <2> HIDE DEF Found
  <2>1. n =< n /\ L \cap 1 .. n # {}
    BY <1>4
  <2>2. QED BY <1>3, <2>1
<1>6. QED BY <1>4, <1>5, Zenon

-----------------------------------------------------------------------------
(***************************************************************************)
(* The buffer of a chunk.                                                  *)
(***************************************************************************)
Chunk(E) == {c \in [buffer : Seq(E), rest : Seq(E), current : Int] :
                /\ c.current =< Len(c.buffer)
                /\ c.current =< 0 => c.rest = <<>>}

\* A chunk has the entries it was filled with, and a pointer to the first of
\* them, if there is one.
LEMMA FillPending ==
    ASSUME NEW E, NEW rest \in Seq(E), NEW whenEmpty \in Int, whenEmpty =< 0
    PROVE  /\ Fill(rest, whenEmpty) \in Chunk(E)
           /\ Pending(Fill(rest, whenEmpty)) = rest
           /\ rest = <<>> => Fill(rest, whenEmpty).current = whenEmpty
           /\ rest # <<>> => Fill(rest, whenEmpty).current = 1
<1> DEFINE n == Len(rest)
           size == IF n < BUFSIZE THEN n ELSE BUFSIZE
           c == Fill(rest, whenEmpty)
<1>1. n \in Nat /\ size \in 0 .. n /\ (size = 0 <=> n = 0) /\ (n = 0 <=> rest = <<>>)
  BY BufferAssumption, LenProperties, EmptySeq
<1>2. /\ c.buffer = SubSeq(rest, 1, size)
      /\ c.rest = SubSeq(rest, size + 1, n)
      /\ c.current = IF size = 0 THEN whenEmpty ELSE 1
      /\ c = [buffer |-> c.buffer, rest |-> c.rest, current |-> c.current]
  BY Zenon DEF Fill
<1>3. \A k \in 1 .. n : rest[k] \in E
  BY ElementOfSeq
<1> HIDE DEF n, size, c
<1>4. c.buffer \in Seq(E) /\ Len(c.buffer) = size
  <2>1. \A k \in 1 .. size : rest[k] \in E
    BY <1>1, <1>3
  <2>2. SubSeq(rest, 1, size) \in Seq(E) /\ Len(SubSeq(rest, 1, size)) = IF 1 =< size THEN size - 1 + 1 ELSE 0
    BY <1>1, <2>1, SubSeqProperties
  <2>3. QED BY <1>1, <1>2, <2>2
<1>5. c.rest \in Seq(E)
  <2>1. \A k \in size + 1 .. n : rest[k] \in E
    BY <1>1, <1>3
  <2>2. QED BY <1>1, <1>2, <2>1, SubSeqProperties
<1>6. c.buffer \o c.rest = rest
  <2>1. 1 \in 1 .. n + 1 /\ size \in 1 - 1 .. n /\ n \in size .. n
    BY <1>1
  <2>2. SubSeq(rest, 1, size) \o SubSeq(rest, size + 1, n) = SubSeq(rest, 1, n)
    BY <2>1, ConcatAdjacentSubSeq, Zenon DEF n
  <2>3. QED BY <1>2, <2>2, SubSeqFull, Zenon DEF n
<1> DEFINE b == c.buffer
           r == c.rest
           p == c.current
<1>7. c \in [buffer : Seq(E), rest : Seq(E), current : Int]
  <2>1. p \in Int /\ b \in Seq(E) /\ r \in Seq(E)
    BY <1>2, <1>4, <1>5
  <2>2. c = [buffer |-> b, rest |-> r, current |-> p]
    BY <1>2
  <2> HIDE DEF b, r, p
  <2>3. QED BY <2>1, <2>2
<1>8. CASE size = 0
  <2>1. rest = <<>> /\ c.current = whenEmpty /\ n = 0
    BY <1>1, <1>2, <1>8
  <2>2. c.rest = <<>>
    BY <1>1, <1>2, <1>8, <2>1, SubSeqEmpty
  <2>3. c \in Chunk(E)
    BY <1>4, <1>7, <1>8, <2>1, <2>2 DEF Chunk
  <2>4. Pending(c) = rest
    BY <2>1, <2>2, EmptySeq, ConcatEmptySeq DEF Pending
  <2>5. QED BY <2>1, <2>3, <2>4 DEF c
<1>9. CASE size # 0
  <2>1. rest # <<>> /\ c.current = 1 /\ 1 =< size
    BY <1>1, <1>2, <1>9
  <2>2. c \in Chunk(E)
    BY <1>1, <1>4, <1>7, <2>1 DEF Chunk
  <2>3. SubSeq(c.buffer, c.current, Len(c.buffer)) = c.buffer
    BY <1>4, <2>1, SubSeqFull
  <2>4. c.current > 0
    BY <2>1
  <2>5. Pending(c) = rest
    BY <1>6, <2>3, <2>4, Zenon DEF Pending
  <2>6. QED BY <2>1, <2>2, <2>5 DEF c
<1>10. QED BY <1>8, <1>9

\* Past an entry, filled again or not, a chunk has the entries after it.
LEMMA AdvancedPending ==
    ASSUME NEW E, NEW c \in Chunk(E), c.current > 0
    PROVE  /\ c.buffer[c.current] \in E
           /\ Advanced(c) \in Chunk(E)
           /\ Advanced(c).current >= 0
           /\ Pending(Advanced(c)) \in Seq(E)
           /\ Pending(c) = <<c.buffer[c.current]>> \o Pending(Advanced(c))
<1> DEFINE b == c.buffer
           p == c.current
           r == c.rest
           e == b[p]
<1>1. b \in Seq(E) /\ r \in Seq(E) /\ p \in Int /\ p =< Len(b)
  BY DEF Chunk
<1>2. c \in [buffer : Seq(E), rest : Seq(E), current : Int]
  BY DEF Chunk
<1>3. p > 0
  OBVIOUS
<1>4. Len(b) \in Nat
  BY <1>1, LenProperties
<1>5. p \in 1 .. Len(b) /\ Len(b) \in p .. Len(b)
  BY <1>1, <1>3, <1>4
<1>6. e \in E
  BY <1>1, <1>5, ElementOfSeq
<1>7. Pending(c) = SubSeq(b, p, Len(b)) \o r
  BY <1>3, Zenon DEF Pending
<1>8. SubSeq(b, p, Len(b)) = <<e>> \o SubSeq(b, p + 1, Len(b))
  BY <1>1, <1>5, SubSeqRecursiveFirst, Zenon
<1>9. <<e>> \in Seq(E)
  BY <1>6
<1>10. CASE p + 1 > Len(b)
  <2>1. Advanced(c) = Fill(r, 0)
    BY <1>10, Zenon DEF Advanced
  <2>2. /\ Fill(r, 0) \in Chunk(E) /\ Pending(Fill(r, 0)) = r
        /\ Fill(r, 0).current = 0 \/ Fill(r, 0).current = 1
    BY <1>1, FillPending
  <2>3. SubSeq(b, p + 1, Len(b)) = <<>>
    BY <1>1, <1>4, <1>10, SubSeqEmpty
  <2>4. <<e>> \o <<>> = <<e>>
    BY <1>9, ConcatEmptySeq
  <2>5. Pending(c) = <<e>> \o r
    BY <1>7, <1>8, <2>3, <2>4, Zenon
  <2>6. Advanced(c).current >= 0
    BY <2>1, <2>2
  <2>7. QED BY <1>1, <1>6, <2>1, <2>2, <2>5, <2>6, Zenon
<1>11. CASE ~(p + 1 > Len(b))
  <2> DEFINE d == [c EXCEPT !.current = @ + 1]
  <2>1. Advanced(c) = d
    BY <1>11, Zenon DEF Advanced
  <2>2. d \in [buffer : Seq(E), rest : Seq(E), current : Int] /\ d.buffer = b /\ d.rest = r /\ d.current = p + 1
    BY <1>2
  <2>3. d.current > 0 /\ d.current =< Len(d.buffer) /\ d.current >= 0
    BY <1>1, <1>3, <1>4, <1>11, <2>2
  <2>4. d \in Chunk(E)
    <3> HIDE DEF d
    <3>1. d.current =< 0 => d.rest = <<>>
      BY <2>2, <2>3
    <3>2. QED BY <2>2, <2>3, <3>1 DEF Chunk
  <2>5. Pending(d) = SubSeq(b, p + 1, Len(b)) \o r
    <3> HIDE DEF d
    <3>1. QED BY <2>2, <2>3, Zenon DEF Pending
  <2>6. SubSeq(b, p + 1, Len(b)) \in Seq(E)
    <3>1. \A k \in p + 1 .. Len(b) : b[k] \in E
      BY <1>1, <1>3, <1>4, ElementOfSeq
    <3>2. QED BY <1>1, <1>4, <3>1, SubSeqProperties
  <2>7. Pending(c) = <<e>> \o (SubSeq(b, p + 1, Len(b)) \o r)
    <3> DEFINE t == SubSeq(b, p + 1, Len(b))
               u == <<e>>
    <3>1. t \in Seq(E) /\ u \in Seq(E) /\ r \in Seq(E)
      BY <1>1, <1>9, <2>6, Zenon
    <3> HIDE DEF t, u, r
    <3>2. (u \o t) \o r = u \o (t \o r)
      BY <3>1, SMT
    <3>3. QED BY <1>7, <1>8, <3>2, Zenon DEF t, u, r
  <2>8. SubSeq(b, p + 1, Len(b)) \o r \in Seq(E)
    BY <1>1, <2>6, ConcatProperties
  <2>9. QED BY <1>6, <2>1, <2>3, <2>4, <2>5, <2>7, <2>8, Zenon
<1>12. QED BY <1>10, <1>11

\* The first entry of what a chunk still has, and the entries after it.
LEMMA FirstOfPending ==
    ASSUME NEW E, NEW e \in E, NEW q \in Seq(E)
    PROVE  /\ Range(<<e>> \o q) = {e} \cup Range(q)
           /\ <<e>> \o q \in Seq(E) /\ <<e>> \o q # <<>>
           /\ Len(<<e>> \o q) = Len(q) + 1 /\ Len(q) \in Nat
           /\ (<<e>> \o q)[1] = e
           /\ \A k \in 1 .. Len(q) : (<<e>> \o q)[k + 1] = q[k]
<1> DEFINE s == <<e>> \o q
<1>1. <<e>> \in Seq(E) /\ Len(<<e>>) = 1 /\ <<e>>[1] = e
  OBVIOUS
<1>2. Len(q) \in Nat /\ DOMAIN q = 1 .. Len(q)
  BY LenProperties
<1>3. /\ s \in Seq(E)
      /\ Len(s) = 1 + Len(q)
      /\ \A i \in 1 .. 1 + Len(q) : s[i] = IF i =< 1 THEN <<e>>[i] ELSE q[i - 1]
  BY <1>1, ConcatProperties
<1>4. DOMAIN s = 1 .. Len(s)
  BY <1>3, LenProperties
<1> HIDE DEF s
<1>5. s[1] = e /\ Len(s) = Len(q) + 1
  BY <1>1, <1>2, <1>3
<1>6. \A k \in 1 .. Len(q) : k + 1 \in 1 .. Len(s) /\ s[k + 1] = q[k]
  <2> TAKE k \in 1 .. Len(q)
  <2>1. k + 1 \in 1 .. 1 + Len(q) /\ ~(k + 1 =< 1) /\ (k + 1) - 1 = k
    BY <1>2
  <2>2. QED BY <1>3, <2>1
<1>7. \A i \in 1 .. Len(s) : i = 1 \/ \E k \in 1 .. Len(q) : i = k + 1
  <2> TAKE i \in 1 .. Len(s)
  <2>1. i = 1 \/ (i - 1 \in 1 .. Len(q) /\ i = (i - 1) + 1)
    BY <1>2, <1>5
  <2>2. QED BY <2>1
<1>8. 1 \in 1 .. Len(s)
  BY <1>2, <1>5
<1>9. Range(s) = {e} \cup Range(q)
  <2>1. \A x : x \in Range(s) <=> \E i \in 1 .. Len(s) : x = s[i]
    BY <1>4, Zenon DEF Range
  <2>2. \A x : x \in Range(q) <=> \E k \in 1 .. Len(q) : x = q[k]
    BY <1>2, Zenon DEF Range
  <2>3. \A x \in Range(s) : x = e \/ x \in Range(q)
    <3> TAKE x \in Range(s)
    <3>1. PICK i \in 1 .. Len(s) : x = s[i]
      BY <2>1, Zenon
    <3>2. CASE i = 1
      BY <1>5, <3>1, <3>2, Zenon
    <3>3. ASSUME NEW k \in 1 .. Len(q), i = k + 1
          PROVE  x \in Range(q)
      <4>1. x = q[k]
        BY <1>6, <3>1, <3>3
      <4>2. QED BY <2>2, <4>1, Zenon
    <3>4. QED BY <1>7, <3>2, <3>3, Zenon
  <2>4. e \in Range(s) /\ \A x \in Range(q) : x \in Range(s)
    BY <1>5, <1>6, <1>8, <2>1, <2>2, Zenon
  <2>5. QED BY <2>3, <2>4, Zenon
<1>10. s # <<>>
  BY <1>2, <1>5
<1>11. QED BY <1>2, <1>3, <1>5, <1>6, <1>9, <1>10 DEF s

\* In order, the first entry is not above the others, which are in order.
LEMMA FirstInOrder ==
    ASSUME NEW E, KeyValuePairs(E), NEW e \in E, NEW q \in Seq(E), InOrder(<<e>> \o q)
    PROVE  InOrder(q) /\ \A x \in Range(<<e>> \o q) : e.key =< x.key
<1> DEFINE s == <<e>> \o q
<1>1. /\ Len(s) = Len(q) + 1 /\ Len(q) \in Nat /\ s \in Seq(E) /\ s[1] = e
      /\ \A k \in 1 .. Len(q) : s[k + 1] = q[k]
  BY FirstOfPending
<1> HIDE DEF s
<1>2. ASSUME NEW i \in 1 .. Len(q), NEW j \in 1 .. Len(q), i =< j
      PROVE  q[i].key =< q[j].key
  <2>1. i + 1 \in 1 .. Len(s) /\ j + 1 \in 1 .. Len(s) /\ i + 1 =< j + 1
    BY <1>1, <1>2
  <2>2. s[i + 1].key =< s[j + 1].key
    BY <2>1, Zenon DEF InOrder, s
  <2>3. QED BY <1>1, <2>2
<1>3. ASSUME NEW x \in Range(s)
      PROVE  e.key =< x.key
  <2>1. PICK j \in 1 .. Len(s) : x = s[j]
    BY <1>1, LenProperties DEF Range
  <2>2. 1 \in 1 .. Len(s) /\ 1 =< j
    BY <1>1
  <2>3. QED BY <1>1, <2>1, <2>2 DEF InOrder, s
<1>4. QED BY <1>2, <1>3 DEF InOrder, s

\* A chunk still has entries just when its pointer is not NULL.
LEMMA PendingFacts ==
    ASSUME NEW E, NEW c \in Chunk(E)
    PROVE  Pending(c) \in Seq(E) /\ (Pending(c) = <<>> <=> c.current =< 0)
<1>1. c.current \in Int /\ (c.current =< 0 => c.rest = <<>>)
  BY DEF Chunk
<1>2. CASE c.current > 0
  <2> DEFINE e == c.buffer[c.current]
             q == Pending(Advanced(c))
  <2>1. e \in E /\ q \in Seq(E) /\ Pending(c) = <<e>> \o q
    BY <1>2, AdvancedPending, Zenon
  <2> HIDE DEF e, q
  <2>2. <<e>> \o q \in Seq(E) /\ <<e>> \o q # <<>>
    BY <2>1, FirstOfPending
  <2>3. ~(c.current =< 0)
    BY <1>1, <1>2
  <2>4. QED BY <2>1, <2>2, <2>3, Zenon
<1>3. CASE c.current =< 0
  <2>1. ~(c.current > 0) /\ c.rest = <<>>
    BY <1>1, <1>3
  <2>2. Pending(c) = <<>> \o <<>>
    BY <2>1, Zenon DEF Pending
  <2>3. <<>> \in Seq(E)
    BY EmptySeq, Zenon
  <2>4. <<>> \o <<>> = <<>>
    BY <2>3, ConcatEmptySeq
  <2>5. QED BY <1>3, <2>2, <2>3, <2>4, Zenon
<1>4. c.current > 0 \/ c.current =< 0
  BY <1>1
<1>5. QED BY <1>2, <1>3, <1>4, Zenon

-----------------------------------------------------------------------------
(***************************************************************************)
(* One round of the merge: it writes the first entry e that chunk s still  *)
(* has, and no entry still to come is below it.                            *)
(***************************************************************************)
Buffers(E) ==
    /\ chunks \in Seq(Seq(E))
    /\ inputs \in [DOMAIN chunks -> Chunk(E)]
    /\ sorted_buf \in Seq(E)
    /\ sorted_file \in Seq(E)
    /\ \A i \in DOMAIN chunks : /\ inputs[i].current = Uninitialized <=> chunks[i] = <<>>
                                /\ InOrder(Pending(inputs[i]))

Writes(E, s, e) ==
    /\ MergedFile' = Append(MergedFile, e)
    /\ sorted_buf' \in Seq(E)
    /\ sorted_file' \in Seq(E)
    /\ inputs' \in [DOMAIN chunks -> Chunk(E)]
    /\ \A j \in DOMAIN chunks : j # s => inputs'[j] = inputs[j]
    /\ inputs'[s].current >= 0
    /\ Pending(inputs'[s]) \in Seq(E)
    /\ Pending(inputs[s]) = <<e>> \o Pending(inputs'[s])
    /\ \A j \in DOMAIN chunks : \A y \in Range(Pending(inputs[j])) : e.key =< y.key

\* The output buffer and the file before it: an entry more in the one is an
\* entry more in the whole.
LEMMA ConcatAppend ==
    ASSUME NEW E, NEW s \in Seq(E), NEW t \in Seq(E), NEW e \in E
    PROVE  /\ Append(t, e) \in Seq(E)
           /\ s \o Append(t, e) = Append(s \o t, e)
<1> DEFINE u == <<e>>
<1>1. u \in Seq(E)
  OBVIOUS
<1>2. Append(t, e) = t \o u /\ Append(t, e) \in Seq(E)
  BY AppendIsConcat, AppendProperties, Zenon
<1>3. s \o t \in Seq(E)
  BY ConcatProperties, Zenon
<1>4. Append(s \o t, e) = (s \o t) \o u
  BY <1>3, AppendIsConcat, Zenon
<1> HIDE DEF u
<1>5. (s \o t) \o u = s \o (t \o u)
  BY <1>1
<1>6. QED BY <1>2, <1>4, <1>5, Zenon

\* Smallest is the chunk that the code's comparison of the pointers finds.
LEMMA SmallestLive ==
    ASSUME NEW E, KeyValuePairs(E), Buffers(E), Live # {}
    PROVE  Smallest \in Live /\ \A j \in Live : Entry(Smallest).key =< Entry(j).key
<1> DEFINE n == Len(chunks)
           f == [i \in 1 .. n |-> IF i \in Live THEN Entry(i).key ELSE 0]
           Below(i, j) == Entry(i).key < Entry(j).key \/ (Entry(i).key = Entry(j).key /\ i <= j)
<1>1. n \in Nat /\ DOMAIN chunks = 1 .. n
  BY LenProperties DEF Buffers
<1>2. inputs \in [DOMAIN chunks -> Chunk(E)] /\ DOMAIN inputs = 1 .. n
  BY <1>1 DEF Buffers
<1>3. Live \subseteq 1 .. n
  BY <1>2 DEF Live
<1>4. ASSUME NEW i \in Live PROVE Entry(i).key \in Int
  <2>1. inputs[i] \in Chunk(E) /\ inputs[i].current > 0
    BY <1>1, <1>2, <1>4 DEF Live
  <2>2. Entry(i) \in E
    BY <2>1, AdvancedPending, Zenon DEF Entry
  <2>3. QED BY <2>2, Zenon DEF KeyValuePairs
<1>5. f \in [1 .. n -> Int]
  BY <1>4
<1>6. PICK i \in Live : \A j \in Live : NotAfter(f, i, j)
  <2> HIDE DEF f, n
  <2>1. QED BY <1>1, <1>3, <1>5, FirstSmallest, Zenon
<1>7. \A j \in Live : f[j] = Entry(j).key
  BY <1>3
<1>8. \A j \in Live : Below(i, j)
  <2> HIDE DEF f
  <2>1. QED BY <1>6, <1>7 DEF NotAfter
<1>9. Smallest \in Live /\ \A j \in Live : Below(Smallest, j)
  <2> DEFINE P(k) == \A j \in Live : Below(k, j)
  <2>1. Smallest = CHOOSE k \in Live : P(k)
    BY Zenon DEF Smallest
  <2>2. P(i)
    BY <1>8, Zenon
  <2> HIDE DEF P
  <2>3. Smallest \in Live /\ P(Smallest)
    BY <2>1, <2>2, Zenon
  <2>4. QED BY <2>3, Zenon DEF P
<1>10. ASSUME NEW j \in Live PROVE Entry(Smallest).key =< Entry(j).key
  <2>1. Below(Smallest, j)
    BY <1>9, Zenon
  <2>2. Entry(Smallest).key \in Int /\ Entry(j).key \in Int
    BY <1>4, <1>9, Zenon
  <2>3. QED BY <2>1, <2>2
<1>11. QED BY <1>9, <1>10, Zenon

LEMMA MergeWrites ==
    ASSUME NEW E, KeyValuePairs(E), Buffers(E), MergeStep
    PROVE  \E s \in DOMAIN chunks, e \in E : Writes(E, s, e)
<1> DEFINE s == Smallest
           e == Entry(s)
           c == inputs[s]
<1>1. s \in Live /\ \A j \in Live : e.key =< Entry(j).key
  BY SmallestLive, Zenon DEF MergeStep
<1>2. inputs \in [DOMAIN chunks -> Chunk(E)] /\ sorted_buf \in Seq(E) /\ sorted_file \in Seq(E)
  BY Zenon DEF Buffers
<1>3. \A j \in Live : j \in DOMAIN chunks /\ inputs[j] \in Chunk(E) /\ inputs[j].current > 0
  BY <1>2 DEF Live
<1>4. s \in DOMAIN chunks /\ c \in Chunk(E) /\ c.current > 0
  BY <1>1, <1>3, Zenon
<1>5. /\ e \in E /\ Advanced(c) \in Chunk(E) /\ Advanced(c).current >= 0
      /\ Pending(Advanced(c)) \in Seq(E)
      /\ Pending(c) = <<e>> \o Pending(Advanced(c))
  BY <1>4, AdvancedPending, Zenon DEF Entry
<1>6. inputs' = [inputs EXCEPT ![s] = Advanced(c)]
  BY Zenon DEF MergeStep
<1> DEFINE full == Append(sorted_buf, e)
<1>7. \/ sorted_buf' = <<>> /\ sorted_file' = sorted_file \o full
      \/ sorted_buf' = full /\ sorted_file' = sorted_file
  BY Zenon DEF MergeStep
<1> HIDE DEF s, e, c
<1>8. /\ inputs' \in [DOMAIN chunks -> Chunk(E)]
      /\ inputs'[s] = Advanced(c)
      /\ \A j \in DOMAIN chunks : j # s => inputs'[j] = inputs[j]
  BY <1>2, <1>4, <1>5, <1>6
<1>9. full \in Seq(E) /\ sorted_file \o full = Append(sorted_file \o sorted_buf, e)
  BY <1>2, <1>5, ConcatAppend, SMT DEF full
<1>10. sorted_buf' \in Seq(E) /\ sorted_file' \in Seq(E)
  <2>1. <<>> \in Seq(E) /\ sorted_file \o full \in Seq(E)
    BY <1>2, <1>9, EmptySeq, ConcatProperties, Zenon
  <2>2. QED BY <1>2, <1>7, <1>9, <2>1, Zenon
<1>11. MergedFile' = Append(MergedFile, e)
  <2>1. MergedFile' = sorted_file' \o sorted_buf' /\ MergedFile = sorted_file \o sorted_buf
    BY Zenon DEF MergedFile
  <2>2. CASE sorted_buf' = <<>> /\ sorted_file' = sorted_file \o full
    <3>1. (sorted_file \o full) \o <<>> = sorted_file \o full
      BY <1>2, <1>9
    <3>2. QED BY <1>9, <2>1, <2>2, <3>1, Zenon
  <2>3. CASE sorted_buf' = full /\ sorted_file' = sorted_file
    BY <1>9, <2>1, <2>3, Zenon
  <2>4. QED BY <1>7, <2>2, <2>3, Zenon
<1>12. ASSUME NEW j \in DOMAIN chunks, NEW y \in Range(Pending(inputs[j]))
       PROVE  e.key =< y.key
  <2>1. inputs[j] \in Chunk(E) /\ InOrder(Pending(inputs[j]))
    BY <1>2 DEF Buffers
  <2>2. CASE j \in Live
    <3> DEFINE q == Pending(Advanced(inputs[j]))
    <3>1. Entry(j) \in E /\ q \in Seq(E) /\ Pending(inputs[j]) = <<Entry(j)>> \o q
      BY <1>3, <2>2, AdvancedPending, Zenon DEF Entry
    <3> HIDE DEF q
    <3>2. Entry(j).key =< y.key
      BY <1>12, <2>1, <3>1, FirstInOrder, Zenon
    <3>3. y \in E
      <4>1. Pending(inputs[j]) \in Seq(E)
        BY <2>1, PendingFacts, Zenon
      <4>2. QED BY <1>12, <4>1 DEF Range
    <3>4. e.key \in Int /\ y.key \in Int /\ Entry(j).key \in Int
      BY <1>5, <3>1, <3>3, Zenon DEF KeyValuePairs
    <3>5. e.key =< Entry(j).key
      BY <1>1, <2>2, Zenon
    <3>6. QED BY <3>2, <3>4, <3>5
  <2>3. CASE j \notin Live
    <3>1. inputs[j].current =< 0
      <4>1. j \in DOMAIN inputs /\ inputs[j].current \in Int
        BY <1>2, <2>1 DEF Chunk
      <4>2. ~(inputs[j].current > 0)
        BY <2>3, <4>1, Zenon DEF Live
      <4>3. QED BY <4>1, <4>2
    <3>2. Pending(inputs[j]) = <<>>
      BY <2>1, <3>1, PendingFacts, Zenon
    <3>3. Range(<<>>) = {}
      BY DEF Range
    <3>4. QED BY <1>12, <3>2, <3>3, Zenon
  <2>4. QED BY <2>2, <2>3
<1>13. Writes(E, s, e)
  BY <1>5, <1>8, <1>10, <1>11, <1>12, Zenon DEF Writes, c
<1>14. QED BY <1>4, <1>5, <1>13, Zenon

-----------------------------------------------------------------------------
(***************************************************************************)
(* What the merge of the files fs with the buffers in has written into m.  *)
(***************************************************************************)
Sorted(fs, in, m) ==
    /\ InOrder(m)
    /\ \A i \in DOMAIN fs : \A x \in Range(m), y \in Range(Pending(in[i])) : x.key =< y.key

\* The entries that the merge has taken from file f with buffer c; the others
\* are pending.
Taken(f, c) == Len(f) - Len(Pending(c))

TakenFirst(f, c) ==
    /\ Taken(f, c) \in Nat
    /\ \A k \in 1 .. Len(Pending(c)) : Pending(c)[k] = f[Taken(f, c) + k]

\* Entry k of the merged file is entry at[k] of file who[k], every entry taken
\* is there, and no two are the same.
Sources(fs, in, m, who, at) ==
    /\ \A k \in 1 .. Len(m) : /\ who[k] \in DOMAIN fs
                              /\ at[k] \in 1 .. Taken(fs[who[k]], in[who[k]])
                              /\ m[k] = fs[who[k]][at[k]]
    /\ \A i \in DOMAIN fs : \A p \in 1 .. Taken(fs[i], in[i]) :
           \E k \in 1 .. Len(m) : who[k] = i /\ at[k] = p
    /\ \A k, l \in 1 .. Len(m) : who[k] = who[l] /\ at[k] = at[l] => k = l

EachOnce(fs, in, m) ==
    /\ \A i \in DOMAIN fs : TakenFirst(fs[i], in[i])
    /\ \E who, at : Sources(fs, in, m, who, at)

\* The first entry that chunk c still has is e; d is the chunk past it.
HasNext(E, c, e, d) == Pending(d) \in Seq(E) /\ Pending(c) = <<e>> \o Pending(d)

LEMMA TakesNext ==
    ASSUME NEW E, NEW f \in Seq(E), NEW c, NEW d, NEW e \in E,
           TakenFirst(f, c), HasNext(E, c, e, d)
    PROVE  /\ TakenFirst(f, d)
           /\ Taken(f, d) = Taken(f, c) + 1
           /\ e = f[Taken(f, c) + 1]
<1> DEFINE q == Pending(d)
           p == Pending(c)
           t == Taken(f, c)
<1>1. /\ Len(p) = Len(q) + 1 /\ Len(q) \in Nat
      /\ p[1] = e
      /\ \A k \in 1 .. Len(q) : p[k + 1] = q[k]
  <2>1. q \in Seq(E) /\ p = <<e>> \o q
    BY Zenon DEF HasNext
  <2> HIDE DEF p, q
  <2>2. QED BY <2>1, FirstOfPending, SMT
<1>2. Len(f) \in Nat
  BY LenProperties, Zenon
<1>3. /\ t \in Nat /\ t = Len(f) - Len(p)
      /\ \A k \in 1 .. Len(p) : p[k] = f[t + k]
      /\ Taken(f, d) = Len(f) - Len(q)
  BY Zenon DEF TakenFirst, Taken
<1> HIDE DEF p, q, t
<1>4. Taken(f, d) = t + 1 /\ t + 1 \in Nat /\ 1 \in 1 .. Len(p)
  BY <1>1, <1>2, <1>3
<1>5. e = f[t + 1]
  BY <1>1, <1>3, <1>4
<1>6. ASSUME NEW k \in 1 .. Len(q) PROVE q[k] = f[(t + 1) + k]
  <2>1. k + 1 \in 1 .. Len(p) /\ t + (k + 1) = (t + 1) + k
    BY <1>1, <1>3
  <2>2. QED BY <1>1, <1>3, <2>1, Zenon
<1>7. TakenFirst(f, d)
  BY <1>4, <1>6, Zenon DEF TakenFirst, q
<1>8. QED BY <1>4, <1>5, <1>7, Zenon DEF t

\* The buffers after chunk s has gone on to d.
GoesOn(fs, in, new, s, d) ==
    \A j \in DOMAIN fs : new[j] = IF j = s THEN d ELSE in[j]

LEMMA EachOnceKept ==
    ASSUME NEW E, NEW fs \in Seq(Seq(E)), NEW in, NEW new, NEW m \in Seq(E),
           NEW s \in DOMAIN fs, NEW e \in E, NEW d,
           EachOnce(fs, in, m), GoesOn(fs, in, new, s, d),
           HasNext(E, in[s], e, d)
    PROVE  EachOnce(fs, new, Append(m, e))
<1> DEFINE T(i) == Taken(fs[i], in[i])
           U(i) == Taken(fs[i], new[i])
           m2 == Append(m, e)
           n == Len(m)
<1>1. fs[s] \in Seq(E)
  BY LenProperties
<1>2. new[s] = d /\ \A j \in DOMAIN fs : j # s => new[j] = in[j]
  BY Zenon DEF GoesOn
<1>3. TakenFirst(fs[s], d) /\ U(s) = T(s) + 1 /\ e = fs[s][T(s) + 1]
  <2>1. TakenFirst(fs[s], in[s])
    BY Zenon DEF EachOnce
  <2>2. /\ TakenFirst(fs[s], d) /\ Taken(fs[s], d) = Taken(fs[s], in[s]) + 1
        /\ e = fs[s][Taken(fs[s], in[s]) + 1]
    BY <1>1, <2>1, TakesNext
  <2>3. QED BY <1>2, <2>2, Zenon
<1>4. T(s) \in Nat
  BY Zenon DEF EachOnce, TakenFirst
<1>5. \A j \in DOMAIN fs : j # s => U(j) = T(j)
  BY <1>2, Zenon
<1>6. \A i \in DOMAIN fs : TakenFirst(fs[i], new[i])
  BY <1>2, <1>3, Zenon DEF EachOnce
<1>7. /\ n \in Nat /\ Len(m2) = n + 1 /\ m2[n + 1] = e
      /\ \A k \in 1 .. n : m2[k] = m[k]
  BY AppendProperties, LenProperties
<1>8. PICK who, at : Sources(fs, in, m, who, at)
  BY Zenon DEF EachOnce
<1> DEFINE who2 == [k \in 1 .. n + 1 |-> IF k = n + 1 THEN s ELSE who[k]]
           at2 == [k \in 1 .. n + 1 |-> IF k = n + 1 THEN T(s) + 1 ELSE at[k]]
<1> HIDE DEF m2, n, T, U
<1>9. /\ \A k \in 1 .. n : k \in 1 .. n + 1 /\ k # n + 1
      /\ n + 1 \in 1 .. n + 1
      /\ \A k \in 1 .. n + 1 : k = n + 1 \/ k \in 1 .. n
  BY <1>7
<1>10. /\ \A k \in 1 .. n : who2[k] = who[k] /\ at2[k] = at[k]
       /\ who2[n + 1] = s /\ at2[n + 1] = T(s) + 1
  BY <1>9
<1>11. /\ \A k \in 1 .. n : who[k] \in DOMAIN fs /\ at[k] \in 1 .. T(who[k]) /\ m[k] = fs[who[k]][at[k]]
       /\ \A i \in DOMAIN fs : \A p \in 1 .. T(i) : \E k \in 1 .. n : who[k] = i /\ at[k] = p
       /\ \A k, l \in 1 .. n : who[k] = who[l] /\ at[k] = at[l] => k = l
  BY <1>8, Zenon DEF Sources, T, n
<1>12. \A i \in DOMAIN fs : 1 .. T(i) \subseteq 1 .. U(i)
  <2>1. 1 .. T(s) \subseteq 1 .. U(s)
    BY <1>3, <1>4
  <2>2. QED BY <1>5, <2>1, Zenon
<1>13. T(s) + 1 \in 1 .. U(s) /\ T(s) + 1 \notin 1 .. T(s)
       /\ \A p \in 1 .. U(s) : p = T(s) + 1 \/ p \in 1 .. T(s)
  BY <1>3, <1>4
<1> HIDE DEF who2, at2
<1>14. ASSUME NEW k \in 1 .. n + 1
       PROVE  who2[k] \in DOMAIN fs /\ at2[k] \in 1 .. U(who2[k]) /\ m2[k] = fs[who2[k]][at2[k]]
  <2>1. CASE k = n + 1
    BY <1>3, <1>7, <1>10, <1>13, <2>1, Zenon
  <2>2. CASE k \in 1 .. n
    BY <1>7, <1>10, <1>11, <1>12, <2>2, Zenon
  <2>3. QED BY <1>9, <2>1, <2>2, Zenon
<1>15. ASSUME NEW i \in DOMAIN fs, NEW p \in 1 .. U(i)
       PROVE  \E k \in 1 .. n + 1 : who2[k] = i /\ at2[k] = p
  <2>1. CASE i = s /\ p = T(s) + 1
    BY <1>9, <1>10, <2>1, Zenon
  <2>2. CASE p \in 1 .. T(i)
    <3>1. PICK k \in 1 .. n : who[k] = i /\ at[k] = p
      BY <1>11, <2>2, Zenon
    <3>2. QED BY <1>9, <1>10, <3>1, Zenon
  <2>3. QED BY <1>5, <1>13, <2>1, <2>2, Zenon
<1>16. ASSUME NEW k \in 1 .. n + 1, NEW l \in 1 .. n + 1, who2[k] = who2[l], at2[k] = at2[l]
       PROVE  k = l
  <2>1. CASE k \in 1 .. n /\ l \in 1 .. n
    <3>1. who[k] = who[l] /\ at[k] = at[l]
      BY <1>10, <1>16, <2>1
    <3>2. QED BY <1>11, <2>1, <3>1
  <2>2. ASSUME NEW j \in 1 .. n, who2[j] = s, at2[j] = T(s) + 1
        PROVE  FALSE
    <3>1. who[j] = s /\ at[j] = T(s) + 1
      BY <1>10, <2>2
    <3>2. at[j] \in 1 .. T(s)
      BY <1>11, <3>1
    <3>3. QED BY <1>13, <3>1, <3>2
  <2>3. CASE k = n + 1 /\ l \in 1 .. n
    BY <1>10, <1>16, <2>2, <2>3
  <2>4. CASE l = n + 1 /\ k \in 1 .. n
    BY <1>10, <1>16, <2>2, <2>4
  <2>5. QED BY <1>9, <2>1, <2>3, <2>4, Zenon
<1>17. Sources(fs, new, m2, who2, at2)
  <2>1. /\ \A k \in 1 .. Len(m2) : /\ who2[k] \in DOMAIN fs
                                   /\ at2[k] \in 1 .. U(who2[k])
                                   /\ m2[k] = fs[who2[k]][at2[k]]
        /\ \A i \in DOMAIN fs : \A p \in 1 .. U(i) : \E k \in 1 .. Len(m2) : who2[k] = i /\ at2[k] = p
        /\ \A k, l \in 1 .. Len(m2) : who2[k] = who2[l] /\ at2[k] = at2[l] => k = l
    BY <1>7, <1>14, <1>15, <1>16
  <2>2. QED BY <2>1, Zenon DEF Sources, U
<1>18. QED BY <1>6, <1>17, Zenon DEF EachOnce, m2

LEMMA RangeOfAppend ==
    ASSUME NEW E, NEW m \in Seq(E), NEW e \in E
    PROVE  Range(Append(m, e)) = Range(m) \cup {e}
<1> DEFINE t == Append(m, e)
<1>1. /\ t \in Seq(E) /\ Len(t) = Len(m) + 1
      /\ \A k \in 1 .. Len(m) : t[k] = m[k]
      /\ t[Len(m) + 1] = e
  BY AppendProperties
<1>2. Len(m) \in Nat /\ DOMAIN m = 1 .. Len(m)
  BY LenProperties, Zenon
<1>3. DOMAIN t = 1 .. Len(t)
  BY <1>1, LenProperties, Zenon
<1> HIDE DEF t
<1>4. /\ Len(m) + 1 \in 1 .. Len(t)
      /\ \A k \in 1 .. Len(m) : k \in 1 .. Len(t)
      /\ \A k \in 1 .. Len(t) : k = Len(m) + 1 \/ k \in 1 .. Len(m)
  BY <1>1, <1>2
<1>5. \A x : x \in Range(t) <=> \E k \in 1 .. Len(t) : x = t[k]
  BY <1>3, Zenon DEF Range
<1>6. \A x : x \in Range(m) <=> \E k \in 1 .. Len(m) : x = m[k]
  BY <1>2, Zenon DEF Range
<1>7. ASSUME NEW x \in Range(t) PROVE x = e \/ x \in Range(m)
  <2>1. PICK k \in 1 .. Len(t) : x = t[k]
    BY <1>5, Zenon
  <2>2. CASE k = Len(m) + 1
    BY <1>1, <2>1, <2>2, Zenon
  <2>3. CASE k \in 1 .. Len(m)
    BY <1>1, <1>6, <2>1, <2>3, Zenon
  <2>4. QED BY <1>4, <2>2, <2>3, Zenon
<1>8. e \in Range(t) /\ \A x \in Range(m) : x \in Range(t)
  BY <1>1, <1>4, <1>5, <1>6
<1>9. Range(t) = Range(m) \cup {e}
  BY <1>7, <1>8, Zenon
<1>10. QED BY <1>9 DEF t

LEMMA SortedKept ==
    ASSUME NEW E, KeyValuePairs(E), NEW fs, NEW in, NEW new, NEW m \in Seq(E),
           NEW s \in DOMAIN fs, NEW e \in E, NEW d,
           Sorted(fs, in, m), GoesOn(fs, in, new, s, d), HasNext(E, in[s], e, d),
           \A j \in DOMAIN fs : \A y \in Range(Pending(in[j])) : e.key =< y.key
    PROVE  Sorted(fs, new, Append(m, e))
<1> DEFINE q == Pending(d)
<1>1. q \in Seq(E) /\ Pending(in[s]) = <<e>> \o q
  BY Zenon DEF HasNext
<1> HIDE DEF q
<1>2. Range(Pending(in[s])) = {e} \cup Range(q)
  BY <1>1, FirstOfPending
<1>3. InOrder(m) /\ \A i \in DOMAIN fs : \A x \in Range(m), y \in Range(Pending(in[i])) : x.key =< y.key
  BY Zenon DEF Sorted
<1>4. \A x \in Range(m) : x.key =< e.key
  BY <1>2, <1>3, Zenon
<1>5. InOrder(Append(m, e))
  BY <1>3, <1>4, AppendInOrder
<1>6. \A i \in DOMAIN fs : Range(Pending(new[i])) \subseteq Range(Pending(in[i]))
  BY <1>2, Zenon DEF GoesOn, q
<1>7. Range(Append(m, e)) = Range(m) \cup {e}
  BY RangeOfAppend
<1>8. \A i \in DOMAIN fs : \A x \in Range(Append(m, e)), y \in Range(Pending(new[i])) : x.key =< y.key
  BY <1>3, <1>6, <1>7, Zenon
<1>9. QED BY <1>5, <1>8, Zenon DEF Sorted

-----------------------------------------------------------------------------
(***************************************************************************)
(* The inductive invariant.  MergeInOrder alone does not say that what a   *)
(* chunk still has is in order, which its next step needs, nor where in    *)
(* the file that is.                                                       *)
(***************************************************************************)
IInv(E) ==
    /\ chunks \in Seq(Seq(E))
    /\ unsorted \subseteq DOMAIN chunks
    /\ \A i \in DOMAIN chunks : i \notin unsorted => InOrder(chunks[i])
    /\ inputs # NoInputs => /\ unsorted = {}
                            /\ Buffers(E)
                            /\ Sorted(chunks, inputs, MergedFile)
                            /\ EachOnce(chunks, inputs, MergedFile)

LEMMA InitInv ==
    ASSUME NEW E, SortInit(E)
    PROVE  IInv(E)
BY Zenon DEF SortInit, IInv

\* The sort of a chunk, while no file is open.
LEMMA SortKeeps ==
    ASSUME NEW E, KeyValuePairs(E), IInv(E), NEW i \in unsorted, SortsChunk(E, i)
    PROVE  IInv(E)'
<1>1. PICK s \in Seq(E) : SeqSorted(s) /\ Range(s) = Range(chunks[i]) /\ chunks' = [chunks EXCEPT ![i] = s]
  BY Zenon DEF SortsChunk
<1>2. unsorted' = unsorted \ {i} /\ inputs' = inputs
  BY Zenon DEF SortsChunk
<1>3. InOrder(s)
  BY <1>1, NeighboursSuffice, Zenon
<1>4. chunks \in Seq(Seq(E)) /\ i \in DOMAIN chunks
  BY Zenon DEF IInv
<1>8. /\ chunks' \in Seq(Seq(E)) /\ DOMAIN chunks' = DOMAIN chunks
      /\ \A j \in DOMAIN chunks : chunks'[j] = IF j = i THEN s ELSE chunks[j]
  BY <1>1, <1>4, LenProperties, ExceptSeq
<1>9. inputs' = NoInputs
  BY <1>2, Zenon DEF IInv
<1>10. /\ unsorted' \subseteq DOMAIN chunks'
       /\ \A j \in DOMAIN chunks' : j \notin unsorted' => InOrder(chunks'[j])
  BY <1>2, <1>3, <1>8, Zenon DEF IInv
<1>11. QED BY <1>8, <1>9, <1>10, Zenon DEF IInv

\* The files are opened: nothing is written, and each chunk has its file.
LEMMA OpenKeeps ==
    ASSUME NEW E, IInv(E), OpenChunks
    PROVE  IInv(E)'
<1>1. /\ unsorted = {} /\ chunks' = chunks /\ unsorted' = unsorted
      /\ sorted_buf' = <<>> /\ sorted_file' = <<>>
      /\ inputs' = [i \in DOMAIN chunks |-> Fill(chunks[i], Uninitialized)]
  BY Zenon DEF OpenChunks
<1>2. chunks \in Seq(Seq(E)) /\ \A i \in DOMAIN chunks : InOrder(chunks[i])
  BY <1>1, Zenon DEF IInv
<1>3. \A i \in DOMAIN chunks : chunks[i] \in Seq(E)
  BY <1>2, LenProperties
<1>4. ASSUME NEW i \in DOMAIN chunks
      PROVE  /\ inputs'[i] \in Chunk(E) /\ Pending(inputs'[i]) = chunks[i]
             /\ inputs'[i].current = Uninitialized <=> chunks[i] = <<>>
  <2>1. inputs'[i] = Fill(chunks[i], Uninitialized)
    BY <1>1, Zenon
  <2>2. Uninitialized \in Int /\ Uninitialized =< 0
    BY DEF Uninitialized
  <2>3. /\ Fill(chunks[i], Uninitialized) \in Chunk(E)
        /\ Pending(Fill(chunks[i], Uninitialized)) = chunks[i]
        /\ Fill(chunks[i], Uninitialized).current = Uninitialized <=> chunks[i] = <<>>
    <3> DEFINE f == chunks[i]
    <3>1. f \in Seq(E)
      BY <1>3, Zenon
    <3> HIDE DEF f
    <3>2. /\ Fill(f, Uninitialized) \in Chunk(E) /\ Pending(Fill(f, Uninitialized)) = f
          /\ f = <<>> => Fill(f, Uninitialized).current = Uninitialized
          /\ f # <<>> => Fill(f, Uninitialized).current = 1
      BY <2>2, <3>1, FillPending
    <3>3. Uninitialized # 1
      BY DEF Uninitialized
    <3>4. QED BY <3>2, <3>3, Zenon DEF f
  <2>4. QED BY <2>1, <2>3, Zenon
<1>5. inputs' \in [DOMAIN chunks -> Chunk(E)]
  BY <1>1, <1>4, Zenon
<1>6. <<>> \in Seq(E)
  BY EmptySeq, Zenon
<1>7. MergedFile' = <<>>
  <2>1. MergedFile' = <<>> \o <<>>
    BY <1>1, Zenon DEF MergedFile
  <2>2. QED BY <1>6, <2>1, ConcatEmptySeq
<1>8. Buffers(E)'
  BY <1>1, <1>2, <1>4, <1>5, <1>6, Zenon DEF Buffers
<1>9. Len(<<>>) = 0 /\ Range(<<>>) = {} /\ 1 .. 0 = {} /\ InOrder(<<>>)
  BY DEF Range, InOrder
<1>10. Sorted(chunks, inputs', <<>>)
  BY <1>9, Zenon DEF Sorted
<1>11. ASSUME NEW i \in DOMAIN chunks
       PROVE  Taken(chunks[i], inputs'[i]) = 0 /\ TakenFirst(chunks[i], inputs'[i])
  <2> DEFINE f == chunks[i]
             c == inputs'[i]
  <2>1. f \in Seq(E) /\ Pending(c) = f
    BY <1>3, <1>4, Zenon
  <2> HIDE DEF f, c
  <2>2. Len(f) \in Nat
    BY <2>1, LenProperties, Zenon
  <2>3. Taken(f, c) = 0
    BY <2>1, <2>2 DEF Taken
  <2>4. \A k \in 1 .. Len(f) : 0 + k = k
    BY <2>2
  <2>5. TakenFirst(f, c)
    BY <2>1, <2>3, <2>4 DEF TakenFirst
  <2>6. QED BY <2>3, <2>5, Zenon DEF f, c
<1>12. Sources(chunks, inputs', <<>>, <<>>, <<>>)
  BY <1>9, <1>11, Zenon DEF Sources
<1>13. EachOnce(chunks, inputs', <<>>)
  BY <1>11, <1>12, Zenon DEF EachOnce
<1>14. Sorted(chunks, inputs, MergedFile)' /\ EachOnce(chunks, inputs, MergedFile)'
  BY <1>1, <1>7, <1>10, <1>13
<1>15. QED BY <1>1, <1>2, <1>8, <1>14, Zenon DEF IInv

\* A round of the merge.
LEMMA MergeKeeps ==
    ASSUME NEW E, KeyValuePairs(E), IInv(E), inputs # NoInputs, MergeStep
    PROVE  IInv(E)'
<1>1. Buffers(E) /\ Sorted(chunks, inputs, MergedFile) /\ EachOnce(chunks, inputs, MergedFile)
  BY Zenon DEF IInv
<1>2. PICK s \in DOMAIN chunks, e \in E : Writes(E, s, e)
  BY <1>1, MergeWrites, Zenon
<1>3. chunks' = chunks /\ unsorted' = unsorted
  BY Zenon DEF MergeStep
<1> DEFINE d == inputs'[s]
<1>4. HasNext(E, inputs[s], e, d)
  BY <1>2, Zenon DEF HasNext, Writes
<1>5. GoesOn(chunks, inputs, inputs', s, d)
  BY <1>2, Zenon DEF GoesOn, Writes
<1>6. MergedFile \in Seq(E)
  BY <1>1, ConcatProperties, Zenon DEF Buffers, MergedFile
<1>7. \A j \in DOMAIN chunks : \A y \in Range(Pending(inputs[j])) : e.key =< y.key
  BY <1>2, Zenon DEF Writes
<1>8. Sorted(chunks, inputs', Append(MergedFile, e))
  <2> HIDE DEF d
  <2>1. QED BY <1>1, <1>4, <1>5, <1>6, <1>7, SortedKept, Zenon
<1>9. EachOnce(chunks, inputs', Append(MergedFile, e))
  <2>1. chunks \in Seq(Seq(E))
    BY <1>1, Zenon DEF Buffers
  <2> HIDE DEF d
  <2>2. QED BY <1>1, <1>4, <1>5, <1>6, <2>1, EachOnceKept, Zenon
<1>10. ASSUME NEW j \in DOMAIN chunks
       PROVE  /\ inputs'[j].current = Uninitialized <=> chunks[j] = <<>>
              /\ InOrder(Pending(inputs'[j]))
  <2>1. CASE j # s
    BY <1>1, <1>2, <2>1, Zenon DEF Writes, Buffers
  <2>2. CASE j = s
    <3> DEFINE q == Pending(d)
    <3>1. q \in Seq(E) /\ Pending(inputs[s]) = <<e>> \o q /\ InOrder(Pending(inputs[s]))
      BY <1>1, <1>4, Zenon DEF HasNext, Buffers
    <3> HIDE DEF q
    <3>2. InOrder(q)
      BY <3>1, FirstInOrder
    <3>3. inputs'[s].current # Uninitialized
      <4>1. inputs'[s].current >= 0
        BY <1>2, Zenon DEF Writes
      <4>2. QED BY <4>1 DEF Uninitialized
    <3>4. chunks[s] # <<>>
      <4>1. inputs[s] \in Chunk(E) /\ inputs[s].current \in Int
        BY <1>1 DEF Buffers, Chunk
      <4>2. <<e>> \o q # <<>>
        BY <3>1, FirstOfPending
      <4>3. ~(inputs[s].current =< 0)
        BY <3>1, <4>1, <4>2, PendingFacts, Zenon
      <4>4. inputs[s].current # Uninitialized
        BY <4>1, <4>3 DEF Uninitialized
      <4>5. QED BY <1>1, <4>4, Zenon DEF Buffers
    <3>5. QED BY <2>2, <3>2, <3>3, <3>4, Zenon DEF q
  <2>3. QED BY <2>1, <2>2
<1>11. Buffers(E)'
  BY <1>1, <1>2, <1>3, <1>10, Zenon DEF Buffers, Writes
<1>12. MergedFile' = Append(MergedFile, e)
  BY <1>2, Zenon DEF Writes
<1>13. Sorted(chunks, inputs, MergedFile)' /\ EachOnce(chunks, inputs, MergedFile)'
  BY <1>3, <1>8, <1>9, <1>12
<1>14. QED BY <1>3, <1>11, <1>13, Zenon DEF IInv

LEMMA NextInv ==
    ASSUME NEW E, KeyValuePairs(E), IInv(E), [SortNext(E)]_sortVars
    PROVE  IInv(E)'
<1>1. CASE \E i \in unsorted : SortsChunk(E, i)
  BY <1>1, SortKeeps, Zenon
<1>2. CASE OpenChunks
  BY <1>2, OpenKeeps, Zenon
<1>3. CASE MergeStep
  <2>1. inputs # NoInputs
    BY <1>3 DEF MergeStep, Live, NoInputs
  <2>2. QED BY <1>3, <2>1, MergeKeeps, Zenon
<1>4. CASE UNCHANGED sortVars
  <2>1. /\ chunks' = chunks /\ unsorted' = unsorted /\ inputs' = inputs
        /\ sorted_buf' = sorted_buf /\ sorted_file' = sorted_file
    BY <1>4, Zenon DEF sortVars
  <2>2. MergedFile' = MergedFile
    BY <2>1, Zenon DEF MergedFile
  <2>3. Buffers(E)' <=> Buffers(E)
    BY <2>1 DEF Buffers
  <2>4. /\ Sorted(chunks, inputs, MergedFile)' <=> Sorted(chunks, inputs, MergedFile)
        /\ EachOnce(chunks, inputs, MergedFile)' <=> EachOnce(chunks, inputs, MergedFile)
    BY <2>1, <2>2
  <2>5. QED BY <2>1, <2>3, <2>4, Zenon DEF IInv
<1>5. QED BY <1>1, <1>2, <1>3, <1>4, Zenon DEF SortNext

LEMMA Invariance ==
    ASSUME NEW CONSTANT E, KeyValuePairs(E)
    PROVE  SortSpec(E) => []IInv(E)
<1>1. SortInit(E) => IInv(E)
  BY InitInv, Zenon
<1>2. IInv(E) /\ [SortNext(E)]_sortVars => IInv(E)'
  BY NextInv, Zenon
<1>3. QED BY <1>1, <1>2, PTL DEF SortSpec

-----------------------------------------------------------------------------
\* The entries of a file are those taken from it and those its chunk has.
LEMMA TakenOrPending ==
    ASSUME NEW E, NEW f \in Seq(E), NEW c, Pending(c) \in Seq(E), TakenFirst(f, c)
    PROVE  /\ Taken(f, c) \in 0 .. Len(f)
           /\ Range(f) = {f[p] : p \in 1 .. Taken(f, c)} \cup Range(Pending(c))
<1> DEFINE q == Pending(c)
           t == Taken(f, c)
<1>1. Len(f) \in Nat /\ DOMAIN f = 1 .. Len(f)
  BY LenProperties, Zenon
<1>2. Len(q) \in Nat /\ DOMAIN q = 1 .. Len(q)
  BY LenProperties, Zenon
<1>3. t \in Nat /\ t = Len(f) - Len(q) /\ \A k \in 1 .. Len(q) : q[k] = f[t + k]
  BY Zenon DEF TakenFirst, Taken
<1> HIDE DEF q, t
<1>4. t \in 0 .. Len(f)
  BY <1>1, <1>2, <1>3
<1>5. /\ \A p \in 1 .. t : p \in 1 .. Len(f)
      /\ \A k \in 1 .. Len(q) : t + k \in 1 .. Len(f)
      /\ \A p \in 1 .. Len(f) : p \in 1 .. t \/ (p - t \in 1 .. Len(q) /\ t + (p - t) = p)
  BY <1>1, <1>2, <1>3
<1>6. \A p \in 1 .. Len(f) : p \in 1 .. t \/ \E k \in 1 .. Len(q) : q[k] = f[p]
  <2> TAKE p \in 1 .. Len(f)
  <2>1. CASE p - t \in 1 .. Len(q) /\ t + (p - t) = p
    BY <1>3, <2>1, Zenon
  <2>2. QED BY <1>5, <2>1, Zenon
<1>7. \A x : x \in Range(f) <=> \E p \in 1 .. Len(f) : x = f[p]
  BY <1>1, Zenon DEF Range
<1>8. \A x : x \in Range(q) <=> \E k \in 1 .. Len(q) : x = q[k]
  BY <1>2, Zenon DEF Range
<1>9. \A x \in Range(f) : (\E p \in 1 .. t : x = f[p]) \/ x \in Range(q)
  BY <1>6, <1>7, <1>8, Zenon
<1>10. \A p \in 1 .. t : f[p] \in Range(f)
  BY <1>5, <1>7, Zenon
<1>11. \A x \in Range(q) : x \in Range(f)
  BY <1>3, <1>5, <1>7, <1>8, Zenon
<1>12. Range(f) = {f[p] : p \in 1 .. t} \cup Range(q)
  BY <1>9, <1>10, <1>11, Zenon
<1>13. QED BY <1>4, <1>12, Zenon DEF q, t

LEMMA InvInOrder ==
    ASSUME NEW E, KeyValuePairs(E), IInv(E)
    PROVE  MergeInOrder
<1>1. SUFFICES ASSUME inputs # NoInputs
               PROVE  /\ SeqSorted(MergedFile)
                      /\ \A i \in DOMAIN inputs : \A x \in Range(MergedFile), y \in Range(Pending(inputs[i])) :
                             x.key <= y.key
                      /\ UNION {Range(chunks[i]) : i \in DOMAIN chunks}
                           = Range(MergedFile) \cup UNION {Range(Pending(inputs[i])) : i \in DOMAIN inputs}
                      /\ \A i \in DOMAIN inputs : Pending(inputs[i]) = <<>> <=> inputs[i].current <= 0
  BY DEF MergeInOrder
<1>2. Buffers(E) /\ Sorted(chunks, inputs, MergedFile) /\ EachOnce(chunks, inputs, MergedFile)
  BY <1>1, Zenon DEF IInv
<1>3. chunks \in Seq(Seq(E)) /\ DOMAIN inputs = DOMAIN chunks /\ \A i \in DOMAIN chunks : inputs[i] \in Chunk(E)
  BY <1>2 DEF Buffers
<1>4. MergedFile \in Seq(E)
  BY <1>2, ConcatProperties, Zenon DEF Buffers, MergedFile
<1>5. SeqSorted(MergedFile)
  <2> DEFINE m == MergedFile
  <2>1. InOrder(m) /\ Len(m) \in Nat
    BY <1>2, <1>4, LenProperties, Zenon DEF Sorted
  <2> HIDE DEF m
  <2>2. \A i \in 1 .. Len(m) - 1 : i \in 1 .. Len(m) /\ i + 1 \in 1 .. Len(m) /\ i =< i + 1
    BY <2>1
  <2>3. SeqSorted(m)
    BY <2>1, <2>2, Zenon DEF SeqSorted, InOrder
  <2>4. QED BY <2>3 DEF m
<1>6. \A i \in DOMAIN inputs : \A x \in Range(MergedFile), y \in Range(Pending(inputs[i])) : x.key <= y.key
  BY <1>2, <1>3, Zenon DEF Sorted
<1>7. \A i \in DOMAIN inputs : Pending(inputs[i]) = <<>> <=> inputs[i].current <= 0
  BY <1>3, PendingFacts, Zenon
<1>8. ASSUME NEW i \in DOMAIN chunks
      PROVE  /\ Range(chunks[i]) = {chunks[i][p] : p \in 1 .. Taken(chunks[i], inputs[i])} \cup Range(Pending(inputs[i]))
  <2> DEFINE f == chunks[i]
             c == inputs[i]
  <2>1. f \in Seq(E)
    BY <1>3, LenProperties
  <2>2. Pending(c) \in Seq(E)
    BY <1>3, PendingFacts, Zenon
  <2>3. TakenFirst(f, c)
    BY <1>2, Zenon DEF EachOnce
  <2> HIDE DEF f, c
  <2>4. Range(f) = {f[p] : p \in 1 .. Taken(f, c)} \cup Range(Pending(c))
    BY <2>1, <2>2, <2>3, TakenOrPending
  <2>5. QED BY <2>4, Zenon DEF f, c
<1>9. PICK who, at : Sources(chunks, inputs, MergedFile, who, at)
  BY <1>2, Zenon DEF EachOnce
<1>10. \A x : x \in Range(MergedFile) <=> \E k \in 1 .. Len(MergedFile) : x = MergedFile[k]
  <2>1. DOMAIN MergedFile = 1 .. Len(MergedFile)
    BY <1>4, LenProperties, Zenon
  <2>2. QED BY <2>1, Zenon DEF Range
<1>11. \A i \in DOMAIN chunks : \A p \in 1 .. Taken(chunks[i], inputs[i]) : chunks[i][p] \in Range(MergedFile)
  <2> TAKE i \in DOMAIN chunks
  <2> TAKE p \in 1 .. Taken(chunks[i], inputs[i])
  <2>1. PICK k \in 1 .. Len(MergedFile) : who[k] = i /\ at[k] = p
    BY <1>9, Zenon DEF Sources
  <2>2. MergedFile[k] = chunks[who[k]][at[k]]
    BY <1>9, Zenon DEF Sources
  <2>3. QED BY <1>10, <2>1, <2>2, Zenon
<1>12. \A x \in Range(MergedFile) : \E i \in DOMAIN chunks : x \in Range(chunks[i])
  <2> TAKE x \in Range(MergedFile)
  <2>1. PICK k \in 1 .. Len(MergedFile) : x = MergedFile[k]
    BY <1>10, Zenon
  <2>2. /\ who[k] \in DOMAIN chunks /\ at[k] \in 1 .. Taken(chunks[who[k]], inputs[who[k]])
        /\ x = chunks[who[k]][at[k]]
    BY <1>9, <2>1, Zenon DEF Sources
  <2>3. x \in Range(chunks[who[k]])
    BY <1>8, <2>2
  <2>4. QED BY <2>2, <2>3, Zenon
<1>13. \A i \in DOMAIN chunks : \A x \in Range(chunks[i]) : x \in Range(MergedFile) \/ x \in Range(Pending(inputs[i]))
  BY <1>8, <1>11, Zenon
<1>14. \A i \in DOMAIN chunks : \A x \in Range(Pending(inputs[i])) : x \in Range(chunks[i])
  BY <1>8, Zenon
<1>15. UNION {Range(chunks[i]) : i \in DOMAIN chunks}
         = Range(MergedFile) \cup UNION {Range(Pending(inputs[i])) : i \in DOMAIN inputs}
  BY <1>3, <1>12, <1>13, <1>14, Zenon
<1>16. QED BY <1>5, <1>6, <1>7, <1>15, Zenon

(***************************************************************************)
(* The pointer of a chunk that merge_sorted_chunks does not clear is,      *)
(* throughout the merge, that of a chunk whose file is empty, and every    *)
(* empty file has one: a pointer is set when a file is opened and cleared  *)
(* when it has been read to its end.                                       *)
(***************************************************************************)
THEOREM PointersSet ==
    ASSUME NEW CONSTANT E, KeyValuePairs(E)
    PROVE  SortSpec(E) =>
             []\A i \in DOMAIN inputs : inputs[i].current = Uninitialized <=> chunks[i] = <<>>
<1>1. ASSUME IInv(E)
      PROVE  \A i \in DOMAIN inputs : inputs[i].current = Uninitialized <=> chunks[i] = <<>>
  <2>1. CASE inputs = NoInputs
    BY <2>1 DEF NoInputs
  <2>2. CASE inputs # NoInputs
    BY <1>1, <2>2 DEF IInv, Buffers
  <2>3. QED BY <2>1, <2>2
<1>2. QED BY <1>1, Invariance, PTL

(***************************************************************************)
(* merge_sorted_chunks writes the entries in order, for buffers of every   *)
(* size and any chunk files of which none is empty: at every round what is *)
(* written is in order, nothing still to come belongs before it, and       *)
(* written and pending entries are together the entries of the files.      *)
(***************************************************************************)
THEOREM MergesInOrder ==
    ASSUME NEW CONSTANT E, KeyValuePairs(E)
    PROVE  SortSpec(E) => [](NoEmptyChunk => MergeInOrder)
<1>1. IInv(E) => MergeInOrder
  BY InvInOrder, Zenon
<1>2. QED BY <1>1, Invariance, PTL

\* The file m rearranges the entries of the files fs: entry k of m is entry
\* at[k] of file who[k], and every entry of every file is one of m, once.
Rearrangement(m, fs, who, at) ==
    /\ \A k \in DOMAIN m : /\ who[k] \in DOMAIN fs
                           /\ at[k] \in DOMAIN fs[who[k]]
                           /\ m[k] = fs[who[k]][at[k]]
    /\ \A i \in DOMAIN fs : \A p \in DOMAIN fs[i] :
           \E k \in DOMAIN m : who[k] = i /\ at[k] = p
    /\ \A k, l \in DOMAIN m : who[k] = who[l] /\ at[k] = at[l] => k = l

Rearranges(m, fs) == \E who, at : Rearrangement(m, fs, who, at)

(***************************************************************************)
(* When the merge loop ends, and no chunk file was empty, the merged file  *)
(* has each entry of each chunk file exactly once, equal keys and equal    *)
(* entries included, and is in order.                                      *)
(***************************************************************************)
THEOREM MergesAll ==
    ASSUME NEW CONSTANT E, KeyValuePairs(E)
    PROVE  SortSpec(E) => [](NoEmptyChunk /\ MergeEnded =>
                               Rearranges(MergedFile, chunks) /\ SeqSorted(MergedFile))
<1>1. ASSUME IInv(E), MergeEnded
      PROVE  Rearranges(MergedFile, chunks) /\ SeqSorted(MergedFile)
  <2>1. inputs # NoInputs /\ Live = {}
    BY <1>1, Zenon DEF MergeEnded
  <2>2. Buffers(E) /\ EachOnce(chunks, inputs, MergedFile)
    BY <1>1, <2>1, Zenon DEF IInv
  <2>3. MergedFile \in Seq(E)
    BY <2>2, ConcatProperties, Zenon DEF Buffers, MergedFile
  <2>4. DOMAIN MergedFile = 1 .. Len(MergedFile)
    BY <2>3, LenProperties, Zenon
  <2>5. ASSUME NEW i \in DOMAIN chunks
        PROVE  1 .. Taken(chunks[i], inputs[i]) = DOMAIN chunks[i]
    <3>1. inputs[i] \in Chunk(E) /\ i \in DOMAIN inputs /\ inputs[i].current \in Int
      BY <2>2, <2>5 DEF Buffers, Chunk
    <3>2. ~(inputs[i].current > 0)
      BY <2>1, <3>1, Zenon DEF Live
    <3>3. inputs[i].current =< 0
      BY <3>1, <3>2
    <3>4. Pending(inputs[i]) = <<>>
      BY <3>1, <3>3, PendingFacts, Zenon
    <3>5. chunks[i] \in Seq(E)
      BY <2>2, LenProperties DEF Buffers
    <3> DEFINE f == chunks[i]
    <3>6. Len(f) \in Nat /\ DOMAIN f = 1 .. Len(f)
      BY <3>5, LenProperties, Zenon
    <3>7. Taken(f, inputs[i]) = Len(f) - Len(<<>>)
      BY <3>4, Zenon DEF Taken
    <3> HIDE DEF f
    <3>8. Taken(f, inputs[i]) = Len(f)
      BY <3>6, <3>7
    <3>9. QED BY <3>6, <3>8, Zenon DEF f
  <2>6. PICK who, at : Sources(chunks, inputs, MergedFile, who, at)
    BY <2>2, Zenon DEF EachOnce
  <2>7. \A k \in DOMAIN MergedFile : /\ who[k] \in DOMAIN chunks
                                     /\ at[k] \in DOMAIN chunks[who[k]]
                                     /\ MergedFile[k] = chunks[who[k]][at[k]]
    <3> TAKE k \in DOMAIN MergedFile
    <3>1. /\ who[k] \in DOMAIN chunks /\ MergedFile[k] = chunks[who[k]][at[k]]
          /\ at[k] \in 1 .. Taken(chunks[who[k]], inputs[who[k]])
      BY <2>4, <2>6, Zenon DEF Sources
    <3>2. at[k] \in DOMAIN chunks[who[k]]
      BY <2>5, <3>1, Zenon
    <3>3. QED BY <3>1, <3>2, Zenon
  <2>8. \A i \in DOMAIN chunks : \A p \in DOMAIN chunks[i] :
            \E k \in DOMAIN MergedFile : who[k] = i /\ at[k] = p
    <3> TAKE i \in DOMAIN chunks
    <3> TAKE p \in DOMAIN chunks[i]
    <3>1. p \in 1 .. Taken(chunks[i], inputs[i])
      BY <2>5, Zenon
    <3>2. PICK k \in 1 .. Len(MergedFile) : who[k] = i /\ at[k] = p
      BY <2>6, <3>1, Zenon DEF Sources
    <3>3. QED BY <2>4, <3>2, Zenon
  <2>9. \A k, l \in DOMAIN MergedFile : who[k] = who[l] /\ at[k] = at[l] => k = l
    BY <2>4, <2>6, Zenon DEF Sources
  <2>10. Rearrangement(MergedFile, chunks, who, at)
    BY <2>7, <2>8, <2>9, Zenon DEF Rearrangement
  <2>11. SeqSorted(MergedFile)
    BY <1>1, <2>1, InvInOrder DEF MergeInOrder
  <2>12. QED BY <2>10, <2>11, Zenon DEF Rearranges
<1>2. QED BY <1>1, Invariance, PTL

=============================================================================
