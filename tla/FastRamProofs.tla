--------------------------- MODULE FastRamProofs ---------------------------
(***************************************************************************)
(* Proofs about FastRam, for every set of addresses and words and every    *)
(* bound on the program.                                                   *)
(***************************************************************************)
EXTENDS FastRam, NatLemmas, TLAPS

-----------------------------------------------------------------------------
(***************************************************************************)
(* The inductive invariant                                                 *)
(***************************************************************************)

\* An operation that no later one of the same address follows has left its
\* word in the RAM, and an address without operations holds zero.
RamIsLast ==
    /\ \A i \in DOMAIN trace :
         (\A j \in DOMAIN trace : j > i => trace[j].addr # trace[i].addr)
           => trace[i].value = RamAt(trace[i].addr)
    /\ \A a \in Addrs :
         (\A i \in DOMAIN trace : trace[i].addr # a) => RamAt(a) = 0

\* A load returned the word of the operation before it on the same address.
LoadsFollow ==
    \A i \in DOMAIN trace : trace[i].type = LOAD_OP =>
      /\ (\A j \in DOMAIN trace : j < i => trace[j].addr # trace[i].addr)
           => trace[i].value = 0
      /\ \A j \in DOMAIN trace :
           /\ j < i
           /\ trace[j].addr = trace[i].addr
           /\ \A k \in DOMAIN trace : j < k /\ k < i => trace[k].addr # trace[i].addr
           => trace[i].value = trace[j].value

InputsHold == \A i \in DOMAIN trace : InputConstraint(trace[i])

Coherent == NoElsePut => RamIsLast /\ LoadsFollow /\ InputsHold

IInv == TypeOK /\ Coherent /\ ThenWitnessSatisfies

-----------------------------------------------------------------------------
(***************************************************************************)
(* Lemmas about the operators of the model                                 *)
(***************************************************************************)

\* What appending an operation to a trace leaves at each position.
LEMMA AppendOp ==
    ASSUME NEW s \in Seq(Op), NEW e \in Op
    PROVE  /\ Append(s, e) \in Seq(Op)
           /\ Len(Append(s, e)) = Len(s) + 1
           /\ DOMAIN s = 1 .. Len(s)
           /\ Len(s) \in Nat
           /\ DOMAIN Append(s, e) = 1 .. Len(s) + 1
           /\ \A i \in 1 .. Len(s) : Append(s, e)[i] = s[i]
           /\ Append(s, e)[Len(s) + 1] = e
  OBVIOUS

\* The type at the input of the network is one of the three, and it is LOAD_OP
\* exactly at the loads.
LEMMA ActualTypeFacts ==
    ASSUME NEW op \in Op
    PROVE  /\ ActualType(op) \in {LOAD_OP, STORE_OP, NO_OP}
           /\ ActualType(op) = LOAD_OP <=> op.type = LOAD_OP
<1>1. op.condition.cond \in {0, 1} /\ op.type \in {0, 1}
  BY Zenon DEF Op, Condition, LOAD_OP, STORE_OP
<1>2. CASE op.condition.cond = 0
  BY <1>1, <1>2 DEF ActualType, LOAD_OP, STORE_OP, NO_OP
<1>3. CASE op.condition.cond = 1
  BY <1>1, <1>3 DEF ActualType, LOAD_OP, STORE_OP, NO_OP
<1>4. QED BY <1>1, <1>2, <1>3, Zenon

\* Two consecutive operations of which the second continues the history of its
\* address, or begins it, satisfy the generated polynomial.
LEMMA PairwiseHolds ==
    ASSUME NEW x \in Access, NEW y \in Access, packet_cmp(x, y),
           y.type = LOAD_OP =>
             y.value = IF x.addr = y.addr THEN x.value ELSE 0
    PROVE  pairwise_mem_consistency(x, y)
<1>1. /\ x.addr \in Nat /\ y.addr \in Nat /\ x.ts \in Nat /\ y.ts \in Nat
      /\ x.value \in Int /\ y.value \in Int
  BY FastRamAssumptions, Zenon DEF Access
<1>2. CASE x.addr = y.addr
  <2>1. x.ts < y.ts /\ ~(x.addr < y.addr)
    BY <1>1, <1>2 DEF packet_cmp
  <2>2. CASE y.type = LOAD_OP
    BY <1>1, <1>2, <2>1, <2>2 DEF pairwise_mem_consistency, Bit
  <2>3. CASE y.type # LOAD_OP
    BY <1>1, <1>2, <2>1, <2>3 DEF pairwise_mem_consistency, Bit
  <2>4. QED BY <2>2, <2>3, Zenon
<1>3. CASE x.addr # y.addr
  <2>1. x.addr < y.addr
    BY <1>1, <1>3, Zenon DEF packet_cmp
  <2>2. CASE y.type = LOAD_OP
    BY <1>1, <1>3, <2>1, <2>2 DEF pairwise_mem_consistency, Bit
  <2>3. CASE y.type # LOAD_OP
    BY <1>1, <1>3, <2>1, <2>3 DEF pairwise_mem_consistency, Bit
  <2>4. QED BY <2>2, <2>3, Zenon
<1>4. QED BY <1>2, <1>3, Zenon

\* The first operation satisfies its polynomial when a load returns zero.
LEMMA FirstHolds ==
    ASSUME NEW x \in Access, x.type = LOAD_OP => x.value = 0
    PROVE  first_mem_consistency(x)
<1>1. CASE x.type = LOAD_OP
  BY <1>1 DEF first_mem_consistency, Bit
<1>2. CASE x.type # LOAD_OP /\ x.value = 0
  BY <1>2 DEF first_mem_consistency, Bit
<1>3. CASE x.type # LOAD_OP /\ x.value # 0
  BY <1>3 DEF first_mem_consistency, Bit
<1>4. QED BY <1>1, <1>2, <1>3, Zenon

-----------------------------------------------------------------------------
(***************************************************************************)
(* Type correctness                                                        *)
(***************************************************************************)

LEMMA RamAtType == ASSUME TypeOK, NEW a \in Addrs PROVE RamAt(a) \in Values
  BY FastRamAssumptions, Zenon DEF TypeOK, RamAt

LEMMA PutConditionType == ASSUME TypeOK PROVE PutCondition \in Condition
<1>1. CASE ifs = <<>>
  BY <1>1, Zenon DEF PutCondition, Always, Condition
<1>2. CASE ifs # <<>>
  <2>1. Len(ifs) \in DOMAIN ifs /\ ifs \in Seq(Condition)
    BY <1>2 DEF TypeOK
  <2>2. QED BY <1>2, <2>1 DEF PutCondition
<1>3. QED BY <1>1, <1>2, Zenon

LEMMA TargetType ==
    ASSUME TypeOK, NEW a \in Addrs, NEW v \in Values, NEW c \in Condition
    PROVE  Target(a, v, c) \in Values
  BY RamAtType, FastRamAssumptions, Zenon DEF Target

\* The operation a load and a put append to the trace.
LoadOp(a) == [addr |-> a, type |-> LOAD_OP, value |-> RamAt(a),
              condition |-> Always, inValue |-> RamAt(a)]
StoreOp(a, v) == [addr |-> a, type |-> STORE_OP,
                  value |-> Target(a, v, PutCondition),
                  condition |-> PutCondition, inValue |-> v]

LEMMA LoadOpType == ASSUME TypeOK, NEW a \in Addrs PROVE LoadOp(a) \in Op
  BY RamAtType, Zenon DEF LoadOp, Op, Always, Condition

LEMMA StoreOpType ==
    ASSUME TypeOK, NEW a \in Addrs, NEW v \in Values PROVE StoreOp(a, v) \in Op
<1>1. PutCondition \in Condition BY PutConditionType, Zenon
<1>2. Target(a, v, PutCondition) \in Values BY <1>1, TargetType, Zenon
<1>3. QED BY <1>1, <1>2, Zenon DEF StoreOp, Op

LEMMA ActualInputType ==
    ASSUME TypeOK, NEW i \in 1 .. Len(trace) PROVE ActualInput(i) \in Access
<1>1. trace[i] \in Op /\ i - 1 \in Nat
  BY DEF TypeOK
<1>2. ActualType(trace[i]) \in {LOAD_OP, STORE_OP, NO_OP}
  BY <1>1, ActualTypeFacts, Zenon
<1>3. trace[i].addr \in Addrs /\ trace[i].value \in Values
  BY <1>1, Zenon DEF Op
<1>4. QED BY <1>1, <1>2, <1>3, Zenon DEF ActualInput, Access

\* Solving the constraint of an unconditional put changes only its inValue.
LEMMA SolvedFacts ==
    ASSUME NEW op \in Op
    PROVE  /\ Solved(op) \in Op
           /\ Solved(op).addr = op.addr
           /\ Solved(op).type = op.type
           /\ Solved(op).value = op.value
           /\ Solved(op).condition = op.condition
           /\ InputConstraint(op) => InputConstraint(Solved(op))
<1>1. CASE op.type = STORE_OP /\ Unconditional(op)
  <2>1. Solved(op) = [op EXCEPT !.inValue = op.value]
    BY <1>1, Zenon DEF Solved
  <2>2. /\ Solved(op) \in Op
        /\ Solved(op).addr = op.addr
        /\ Solved(op).type = op.type
        /\ Solved(op).value = op.value
        /\ Solved(op).condition = op.condition
        /\ Solved(op).inValue = op.value
    BY <2>1, Zenon DEF Op
  <2>3. Unconditional(Solved(op)) /\ op.value \in Int
    BY <1>1, <2>2, FastRamAssumptions, Zenon DEF Unconditional, Op
  <2>4. InputConstraint(Solved(op))
    BY <2>2, <2>3 DEF InputConstraint
  <2>5. QED BY <2>2, <2>4, Zenon
<1>2. CASE ~(op.type = STORE_OP /\ Unconditional(op))
  BY <1>2, Zenon DEF Solved
<1>3. QED BY <1>1, <1>2, Zenon

LEMMA InitType == Init => TypeOK
  BY FastRamAssumptions DEF Init, TypeOK

LEMMA NextType == TypeOK /\ [Next]_vars => TypeOK'
<1> SUFFICES ASSUME TypeOK, [Next]_vars PROVE TypeOK'
  BY Zenon
<1> USE DEF TypeOK
<1>1. ASSUME NEW c \in {0, 1}, NEW literal \in BOOLEAN, PushThen(c, literal)
      PROVE  TypeOK'
  <2>1. [cond |-> c, literal |-> literal, branch |-> TRUE] \in Condition
    BY Zenon DEF Condition
  <2>2. ifs' \in Seq(Condition)
    BY <1>1, <2>1 DEF PushThen
  <2>3. QED BY <1>1, <2>2, Zenon DEF PushThen
<1>2. CASE PushElse
  <2>1. Len(ifs) \in DOMAIN ifs /\ ifs[Len(ifs)] \in Condition
    BY <1>2 DEF PushElse
  <2>2. [ifs[Len(ifs)] EXCEPT !.branch = FALSE] \in Condition
    BY <2>1, Zenon DEF Condition
  <2>3. ifs' = [ifs EXCEPT ![Len(ifs)] = [ifs[Len(ifs)] EXCEPT !.branch = FALSE]]
    BY <1>2, Zenon DEF PushElse
  <2>4. ifs' \in Seq(Condition)
    BY <2>1, <2>2, <2>3
  <2>5. QED BY <1>2, <2>4, Zenon DEF PushElse
<1>3. CASE PopIf
  <2>1. ifs' \in Seq(Condition)
    BY <1>3 DEF PopIf
  <2>2. QED BY <1>3, <2>1, Zenon DEF PopIf
<1>4. ASSUME NEW a \in Addrs, compute_fast_ramget(a) PROVE TypeOK'
  <2>1. trace' = Append(trace, LoadOp(a))
    BY <1>4, Zenon DEF compute_fast_ramget, LoadOp
  <2>2. trace' \in Seq(Op)
    BY <2>1, LoadOpType
  <2>3. QED BY <1>4, <2>2, Zenon DEF compute_fast_ramget
<1>5. ASSUME NEW a \in Addrs, NEW v \in Values, compute_fast_ramput(a, v)
      PROVE  TypeOK'
  <2>1. trace' = Append(trace, StoreOp(a, v))
    BY <1>5, Zenon DEF compute_fast_ramput, StoreOp
  <2>2. trace' \in Seq(Op)
    BY <2>1, StoreOpType
  <2>3. memory' \in [Addrs -> Values]
    BY <1>5, Zenon DEF compute_fast_ramput
  <2>4. DOMAIN true_ram' \subseteq Addrs /\ \A x \in DOMAIN true_ram' : true_ram'[x] \in Values
    <3>1. CASE true_ram' = Stored(a, v)
      BY <3>1, Zenon DEF Stored
    <3>2. CASE true_ram' = true_ram
      BY <3>2, Zenon
    <3>3. QED BY <1>5, <3>1, <3>2, Zenon DEF compute_fast_ramput, RamAfterPut
  <2>5. QED BY <1>5, <2>2, <2>3, <2>4, Zenon DEF compute_fast_ramput
<1>6. CASE MemConsistency
  <2>1. PICK p \in Permutations(Len(trace)) :
          output' = [i \in 1 .. Len(trace) |-> ActualInput(p[i])]
    BY <1>6, Zenon DEF MemConsistency
  <2>2. \A i \in 1 .. Len(trace) : ActualInput(p[i]) \in Access
    BY <2>1, ActualInputType, Zenon DEF Permutations
  <2>3. output' \in Seq(Access)
    BY <2>1, <2>2
  <2>4. \A i \in 1 .. Len(trace) : Solved(trace[i]) \in Op
    BY SolvedFacts
  <2>5. trace' \in Seq(Op)
    BY <1>6, <2>4 DEF MemConsistency
  <2>6. QED BY <1>6, <2>3, <2>5, Zenon DEF MemConsistency
<1>7. CASE NoNetwork
  BY <1>7, Zenon DEF NoNetwork
<1>8. CASE UNCHANGED vars
  BY <1>8, Zenon DEF vars
<1>9. QED BY <1>1, <1>2, <1>3, <1>4, <1>5, <1>6, <1>7, <1>8, Zenon DEF Next

\* Every variable holds what the front-end and the prover can put into it.
THEOREM TypeCorrect == Spec => []TypeOK
  BY InitType, NextType, PTL DEF Spec

-----------------------------------------------------------------------------
(***************************************************************************)
(* The witness satisfies the constraints                                   *)
(***************************************************************************)

\* What the RAM holds after a step.
RamAfter(a) == IF a \in DOMAIN true_ram' THEN true_ram'[a] ELSE 0

\* An operation that leaves its word in the RAM, touches no other address and,
\* if it is a load, returned what the RAM held, continues a coherent trace.
LEMMA ExtendCoherent ==
    ASSUME TypeOK, Coherent, NEW e \in Op, trace' = Append(trace, e),
           ~ElsePut(e) => e.value = RamAfter(e.addr) /\ InputConstraint(e),
           \A b \in Addrs : b # e.addr => RamAfter(b) = RamAt(b),
           e.type = LOAD_OP => e.value = RamAt(e.addr)
    PROVE  Coherent'
<1> DEFINE n == Len(trace)
<1>1. /\ n \in Nat /\ DOMAIN trace = 1 .. n /\ DOMAIN trace' = 1 .. n + 1
      /\ \A i \in 1 .. n : trace'[i] = trace[i] /\ trace[i] \in Op
      /\ trace'[n + 1] = e
  BY AppendOp DEF TypeOK
<1> HIDE DEF n
<1>2. SUFFICES ASSUME NoElsePut' PROVE RamIsLast' /\ LoadsFollow' /\ InputsHold'
  BY Zenon DEF Coherent
<1>3. NoElsePut
  BY <1>1, <1>2 DEF NoElsePut
<1>4. ~ElsePut(e)
  BY <1>1, <1>2 DEF NoElsePut
<1>5. RamIsLast /\ LoadsFollow /\ InputsHold
  BY <1>3, Zenon DEF Coherent
<1>6. e.value = RamAfter(e.addr) /\ InputConstraint(e) /\ e.addr \in Addrs
  BY <1>4, Zenon DEF Op
<1>7. InputsHold'
  BY <1>1, <1>5, <1>6 DEF InputsHold
<1>8. \A i \in 1 .. n + 1 :
        (\A j \in 1 .. n + 1 : j > i => trace'[j].addr # trace'[i].addr)
          => trace'[i].value = RamAfter(trace'[i].addr)
  <2> SUFFICES ASSUME NEW i \in 1 .. n + 1,
                      \A j \in 1 .. n + 1 : j > i => trace'[j].addr # trace'[i].addr
               PROVE  trace'[i].value = RamAfter(trace'[i].addr)
    BY Zenon
  <2>1. CASE i = n + 1
    BY <2>1, <1>1, <1>6, Zenon
  <2>2. CASE i \in 1 .. n
    <3>1. n + 1 > i /\ n + 1 \in 1 .. n + 1
      BY <1>1, <2>2
    <3>2. trace[i].addr # e.addr /\ trace[i].addr \in Addrs
      BY <3>1, <1>1, <2>2, Zenon DEF Op
    <3>3. \A j \in DOMAIN trace : j > i => trace[j].addr # trace[i].addr
      BY <1>1, <2>2
    <3>4. trace[i].value = RamAt(trace[i].addr)
      BY <3>3, <1>1, <1>5, <2>2, Zenon DEF RamIsLast
    <3>5. RamAfter(trace'[i].addr) = RamAt(trace[i].addr)
      BY <3>2, <1>1, <2>2, Zenon
    <3>6. QED BY <3>4, <3>5, <1>1, <2>2, Zenon
  <2>3. QED BY <1>1, <2>1, <2>2
<1>9. \A a \in Addrs : (\A i \in 1 .. n + 1 : trace'[i].addr # a) => RamAfter(a) = 0
  <2> SUFFICES ASSUME NEW a \in Addrs, \A i \in 1 .. n + 1 : trace'[i].addr # a
               PROVE  RamAfter(a) = 0
    BY Zenon
  <2>1. a # e.addr
    BY <1>1
  <2>2. \A i \in DOMAIN trace : trace[i].addr # a
    BY <1>1
  <2>3. QED BY <2>1, <2>2, <1>5, Zenon DEF RamIsLast
<1>10. RamIsLast'
  BY <1>1, <1>8, <1>9, Zenon DEF RamIsLast, RamAt, RamAfter
<1>11. LoadsFollow'
  <2> SUFFICES
        ASSUME NEW i \in 1 .. n + 1, trace'[i].type = LOAD_OP
        PROVE  /\ (\A j \in 1 .. n + 1 : j < i => trace'[j].addr # trace'[i].addr)
                    => trace'[i].value = 0
               /\ \A j \in 1 .. n + 1 :
                    /\ j < i
                    /\ trace'[j].addr = trace'[i].addr
                    /\ \A k \in 1 .. n + 1 :
                         j < k /\ k < i => trace'[k].addr # trace'[i].addr
                    => trace'[i].value = trace'[j].value
    BY <1>1 DEF LoadsFollow
  <2>1. CASE i \in 1 .. n
    <3>1. trace[i].type = LOAD_OP /\ trace'[i] = trace[i]
      BY <1>1, <2>1, Zenon
    <3>2. ASSUME \A j \in 1 .. n + 1 : j < i => trace'[j].addr # trace'[i].addr
          PROVE  trace'[i].value = 0
      <4>1. \A j \in DOMAIN trace : j < i => trace[j].addr # trace[i].addr
        BY <1>1, <2>1, <3>2
      <4>2. QED BY <4>1, <3>1, <1>1, <1>5, <2>1, Zenon DEF LoadsFollow
    <3>3. ASSUME NEW j \in 1 .. n + 1, j < i, trace'[j].addr = trace'[i].addr,
                 \A k \in 1 .. n + 1 :
                   j < k /\ k < i => trace'[k].addr # trace'[i].addr
          PROVE  trace'[i].value = trace'[j].value
      <4>1. j \in DOMAIN trace /\ trace'[j] = trace[j]
        BY <1>1, <2>1, <3>3
      <4>2. \A k \in DOMAIN trace : j < k /\ k < i => trace[k].addr # trace[i].addr
        BY <1>1, <2>1, <3>3
      <4>3. QED BY <4>1, <4>2, <3>1, <3>3, <1>1, <1>5, <2>1 DEF LoadsFollow
    <3>4. QED BY <3>2, <3>3, Zenon
  <2>2. CASE i = n + 1
    <3>1. trace'[i] = e /\ e.value = RamAt(e.addr)
      BY <1>1, <2>2, Zenon
    <3>2. ASSUME \A j \in 1 .. n + 1 : j < i => trace'[j].addr # trace'[i].addr
          PROVE  trace'[i].value = 0
      <4>1. \A j \in DOMAIN trace : trace[j].addr # e.addr
        BY <1>1, <2>2, <3>1, <3>2
      <4>2. QED BY <4>1, <3>1, <1>5, <1>6, Zenon DEF RamIsLast
    <3>3. ASSUME NEW j \in 1 .. n + 1, j < i, trace'[j].addr = trace'[i].addr,
                 \A k \in 1 .. n + 1 :
                   j < k /\ k < i => trace'[k].addr # trace'[i].addr
          PROVE  trace'[i].value = trace'[j].value
      <4>1. j \in DOMAIN trace /\ trace'[j] = trace[j] /\ trace[j].addr = e.addr
        BY <1>1, <2>2, <3>1, <3>3
      <4>2. \A k \in DOMAIN trace : k > j => trace[k].addr # trace[j].addr
        BY <1>1, <2>2, <3>1, <3>3, <4>1
      <4>3. trace[j].value = RamAt(trace[j].addr)
        BY <4>1, <4>2, <1>5, Zenon DEF RamIsLast
      <4>4. QED BY <4>1, <4>3, <3>1, Zenon
    <3>4. QED BY <3>2, <3>3, Zenon
  <2>3. QED BY <1>1, <2>1, <2>2
<1>12. QED BY <1>7, <1>10, <1>11, Zenon

\* The order of the operations at positions i and j of a program by address and
\* then by time.
Precedes(addr, i, j) == IF addr[i] = addr[j] THEN i < j ELSE addr[i] < addr[j]

\* An operation ordered outside a pair, earlier than its second member and of
\* the same address, is earlier than its first member.
LEMMA OutsidePair ==
    ASSUME NEW n \in Nat, NEW addr \in [1 .. n -> Nat],
           NEW x \in 1 .. n, NEW y \in 1 .. n, NEW k \in 1 .. n,
           Precedes(addr, x, y), k < y, addr[k] = addr[y],
           Precedes(addr, k, x) \/ Precedes(addr, y, k)
    PROVE  addr[x] = addr[y] /\ k < x
<1>1. addr[x] \in Nat /\ addr[y] \in Nat /\ addr[k] \in Nat
  BY Zenon
<1>2. ~Precedes(addr, y, k)
  BY DEF Precedes
<1>3. QED BY <1>1, <1>2 DEF Precedes

\* p lists the n operations in that order.
Sorts(n, p, addr) ==
    /\ n \in Nat
    /\ p \in [1 .. n -> 1 .. n]
    /\ addr \in [1 .. n -> Nat]
    /\ \A i \in 1 .. n : \E j \in 1 .. n : p[j] = i
    /\ \A i, j \in 1 .. n : i < j => Precedes(addr, p[i], p[j])

\* The operation listed after another of its address is the next one on that
\* address, and one listed after another address is the first on its own.
Neighbours(n, p, addr) ==
    /\ n >= 1 => \A k \in 1 .. n : k < p[1] => addr[k] # addr[p[1]]
    /\ \A m \in 1 .. n - 1 :
         IF addr[p[m]] = addr[p[m + 1]]
         THEN /\ p[m] < p[m + 1]
              /\ \A k \in 1 .. n : p[m] < k /\ k < p[m + 1]
                   => addr[k] # addr[p[m + 1]]
         ELSE \A k \in 1 .. n : k < p[m + 1] => addr[k] # addr[p[m + 1]]

\* In an order by address and then by time nothing of the same address falls
\* between two neighbours, and the first of an address is its earliest.
LEMMA SortedNeighbours ==
    ASSUME NEW n, NEW p, NEW addr, Sorts(n, p, addr)
    PROVE  Neighbours(n, p, addr)
<1> USE DEF Sorts
<1>1. ASSUME n >= 1, NEW k \in 1 .. n, k < p[1], addr[k] = addr[p[1]] PROVE FALSE
  <2>1. PICK q \in 1 .. n : p[q] = k
    BY Zenon
  <2>2. 1 \in 1 .. n /\ p[1] \in 1 .. n
    BY <1>1
  <2>3. q # 1
    BY <1>1, <2>1, <2>2
  <2>4. 1 < q
    BY <2>3
  <2>5. Precedes(addr, p[1], p[q])
    BY <2>2, <2>4, Zenon
  <2>6. QED BY <1>1, <2>1, <2>2, <2>5 DEF Precedes
<1>2. ASSUME NEW m \in 1 .. n - 1
      PROVE  IF addr[p[m]] = addr[p[m + 1]]
             THEN /\ p[m] < p[m + 1]
                  /\ \A k \in 1 .. n : p[m] < k /\ k < p[m + 1]
                       => addr[k] # addr[p[m + 1]]
             ELSE \A k \in 1 .. n : k < p[m + 1] => addr[k] # addr[p[m + 1]]
  <2>1. m \in 1 .. n /\ m + 1 \in 1 .. n /\ m < m + 1
    OBVIOUS
  <2>2. PICK x \in 1 .. n : x = p[m]
    BY <2>1, Zenon
  <2>3. PICK y \in 1 .. n : y = p[m + 1]
    BY <2>1, Zenon
  <2>4. Precedes(addr, x, y)
    BY <2>1, <2>2, <2>3, Zenon
  <2>5. ASSUME NEW k \in 1 .. n, k < y, addr[k] = addr[y], k # x
        PROVE  addr[x] = addr[y] /\ k < x
    <3>1. PICK q \in 1 .. n : p[q] = k
      BY Zenon
    <3>2. q # m /\ q # m + 1
      <4>1. k # y
        BY <2>5
      <4>2. q # m
        BY <2>2, <2>5, <3>1, Zenon
      <4>3. q # m + 1
        BY <2>3, <3>1, <4>1, Zenon
      <4>4. QED BY <4>2, <4>3, Zenon
    <3>3. q < m \/ m + 1 < q
      BY <2>1, <3>2
    <3>4. Precedes(addr, k, x) \/ Precedes(addr, y, k)
      <4>1. CASE q < m
        BY <2>1, <2>2, <3>1, <4>1, Zenon
      <4>2. CASE m + 1 < q
        BY <2>1, <2>3, <3>1, <4>2, Zenon
      <4>3. QED BY <3>3, <4>1, <4>2, Zenon
    <3>5. QED BY <2>4, <2>5, <3>4, OutsidePair, Zenon
  <2>6. CASE addr[x] = addr[y]
    <3>1. x < y
      BY <2>4, <2>6, Zenon DEF Precedes
    <3>2. \A k \in 1 .. n : x < k /\ k < y => addr[k] # addr[y]
      <4> SUFFICES ASSUME NEW k \in 1 .. n, x < k, k < y, addr[k] = addr[y]
                   PROVE  FALSE
        BY Zenon
      <4>1. k # x
        OBVIOUS
      <4>2. k < x
        BY <4>1, <2>5, Zenon
      <4>3. QED BY <4>2
    <3>3. QED BY <2>2, <2>3, <2>6, <3>1, <3>2, Zenon
  <2>7. CASE addr[x] # addr[y]
    <3>1. \A k \in 1 .. n : k < y => addr[k] # addr[y]
      BY <2>5, <2>7, Zenon
    <3>2. QED BY <2>2, <2>3, <2>7, <3>1, Zenon
  <2>8. QED BY <2>6, <2>7, Zenon
<1>3. QED BY <1>1, <1>2, Zenon DEF Neighbours

\* Sorted by address and then by time, a coherent trace satisfies all the
\* constraints: a load comes right after the operation whose word it returned,
\* or first of its address.
LEMMA SortedSatisfies ==
    ASSUME TypeOK, LoadsFollow, InputsHold,
           NEW p \in Permutations(Len(trace)),
           NEW out, out = [i \in 1 .. Len(trace) |-> ActualInput(p[i])],
           \A i, j \in 1 .. Len(trace) : i < j => packet_cmp(out[i], out[j]),
           NEW ops, ops = [i \in 1 .. Len(trace) |-> Solved(trace[i])]
    PROVE  Constraints(ops, out)
<1> DEFINE n == Len(trace)
           addr == [i \in 1 .. n |-> trace[i].addr]
<1>1. /\ n \in Nat /\ DOMAIN trace = 1 .. n
      /\ \A i \in 1 .. n : trace[i] \in Op
  BY DEF TypeOK
<1>2. /\ p \in [1 .. n -> 1 .. n]
      /\ \A i \in 1 .. n : p[i] \in 1 .. n
      /\ \A i \in 1 .. n : \E j \in 1 .. n : p[j] = i
  BY Zenon DEF Permutations
<1>3. \A i \in 1 .. n : out[i] \in Access
  BY <1>2, ActualInputType, Zenon
<1>4. \A i \in 1 .. n :
        /\ out[i].addr = addr[p[i]]
        /\ out[i].ts = p[i] - 1
        /\ out[i].value = trace[p[i]].value
        /\ out[i].type = LOAD_OP <=> trace[p[i]].type = LOAD_OP
  BY <1>1, <1>2, ActualTypeFacts, Zenon DEF ActualInput
<1>5. addr \in [1 .. n -> Nat]
  BY <1>1, FastRamAssumptions, Zenon DEF Op
<1>6. \A i, j \in 1 .. n : i < j => packet_cmp(out[i], out[j])
  BY Zenon
<1>7. \A i \in DOMAIN ops : InputConstraint(ops[i])
  BY <1>1, SolvedFacts, Zenon DEF InputsHold
<1>8. DOMAIN out = 1 .. n /\ (out # <<>> => n >= 1) /\ Len(out) = n
  BY <1>1
<1>9. \A i \in 1 .. n : addr[i] = trace[i].addr
  BY Zenon
<1> HIDE DEF n, addr
<1>10. \A i, j \in 1 .. n : i < j => Precedes(addr, p[i], p[j])
  <2> SUFFICES ASSUME NEW i \in 1 .. n, NEW j \in 1 .. n, i < j
               PROVE  Precedes(addr, p[i], p[j])
    BY Zenon
  <2>1. packet_cmp(out[i], out[j])
    BY <1>6, Zenon
  <2>2. p[i] \in 1 .. n /\ p[j] \in 1 .. n
    BY <1>2, Zenon
  <2>3. out[i].ts = p[i] - 1 /\ out[j].ts = p[j] - 1
    BY <1>4, Zenon
  <2>4. out[i].addr = addr[p[i]] /\ out[j].addr = addr[p[j]]
    BY <1>4, Zenon
  <2>5. out[i].ts < out[j].ts => p[i] < p[j]
    BY <1>1, <2>2, <2>3
  <2>6. QED BY <2>1, <2>4, <2>5, Zenon DEF packet_cmp, Precedes
<1>11. Neighbours(n, p, addr)
  BY <1>1, <1>2, <1>5, <1>10, SortedNeighbours, Zenon DEF Sorts
<1>12. ASSUME out # <<>> PROVE first_mem_consistency(out[1])
  <2>1. 1 \in 1 .. n /\ n >= 1 /\ p[1] \in 1 .. n
    BY <1>1, <1>2, <1>8, <1>12
  <2>2. ASSUME out[1].type = LOAD_OP PROVE out[1].value = 0
    <3>1. trace[p[1]].type = LOAD_OP /\ p[1] \in DOMAIN trace
      BY <2>1, <2>2, <1>1, <1>4, Zenon
    <3>2. \A k \in DOMAIN trace : k < p[1] => trace[k].addr # trace[p[1]].addr
      BY <2>1, <1>1, <1>9, <1>11, Zenon DEF Neighbours
    <3>3. trace[p[1]].value = 0
      BY <3>1, <3>2, Zenon DEF LoadsFollow
    <3>4. QED BY <3>3, <2>1, <1>4, Zenon
  <2>3. QED BY <2>1, <2>2, <1>3, FirstHolds, Zenon
<1>13. ASSUME NEW m \in 1 .. n - 1
       PROVE  pairwise_mem_consistency(out[m], out[m + 1])
  <2>1. m \in 1 .. n /\ m + 1 \in 1 .. n /\ m < m + 1
    BY <1>1
  <2>2. packet_cmp(out[m], out[m + 1])
    BY <2>1, <1>6, Zenon
  <2>3. p[m + 1] \in DOMAIN trace /\ p[m] \in DOMAIN trace
    BY <2>1, <1>1, <1>2, Zenon
  <2>4. ASSUME out[m + 1].type = LOAD_OP
        PROVE  out[m + 1].value = IF out[m].addr = out[m + 1].addr
                                  THEN out[m].value ELSE 0
    <3>1. trace[p[m + 1]].type = LOAD_OP
      BY <2>1, <2>4, <1>4, Zenon
    <3>2. CASE addr[p[m]] = addr[p[m + 1]]
      <4>1. /\ p[m] < p[m + 1] /\ trace[p[m]].addr = trace[p[m + 1]].addr
            /\ \A k \in DOMAIN trace : p[m] < k /\ k < p[m + 1]
                 => trace[k].addr # trace[p[m + 1]].addr
        BY <3>2, <2>3, <1>1, <1>9, <1>11 DEF Neighbours
      <4>2. trace[p[m + 1]].value = trace[p[m]].value
        BY <4>1, <3>1, <2>3, Zenon DEF LoadsFollow
      <4>3. QED BY <4>2, <3>2, <2>1, <1>4, Zenon
    <3>3. CASE addr[p[m]] # addr[p[m + 1]]
      <4>1. \A k \in DOMAIN trace :
              k < p[m + 1] => trace[k].addr # trace[p[m + 1]].addr
        BY <3>3, <2>3, <1>1, <1>9, <1>11 DEF Neighbours
      <4>2. trace[p[m + 1]].value = 0
        BY <4>1, <3>1, <2>3, Zenon DEF LoadsFollow
      <4>3. QED BY <4>2, <3>3, <2>1, <1>4, Zenon
    <3>4. QED BY <3>2, <3>3, Zenon
  <2>5. QED BY <2>1, <2>2, <2>4, <1>3, PairwiseHolds, Zenon
<1>14. QED BY <1>7, <1>8, <1>12, <1>13, Zenon DEF Constraints

LEMMA InitCoherent == Init => Coherent /\ ThenWitnessSatisfies
  BY DEF Init, Coherent, RamIsLast, LoadsFollow, InputsHold, RamAt,
         ThenWitnessSatisfies

\* Each step extends the trace coherently, and the last one sorts it.
LEMMA NextCoherent == IInv /\ [Next]_vars => Coherent' /\ ThenWitnessSatisfies'
<1> SUFFICES ASSUME IInv, [Next]_vars PROVE Coherent' /\ ThenWitnessSatisfies'
  BY Zenon
<1>1. TypeOK /\ Coherent /\ ThenWitnessSatisfies /\ TypeOK'
  BY NextType, Zenon DEF IInv
<1>2. ASSUME UNCHANGED <<true_ram, trace, output>>, phase' = phase \/ phase' = "failed"
      PROVE  Coherent' /\ ThenWitnessSatisfies'
  BY <1>1, <1>2 DEF Coherent, NoElsePut, RamIsLast, LoadsFollow, InputsHold, RamAt,
                    ThenWitnessSatisfies
<1>3. ASSUME NEW c \in {0, 1}, NEW literal \in BOOLEAN, PushThen(c, literal)
      PROVE  Coherent' /\ ThenWitnessSatisfies'
  BY <1>2, <1>3, Zenon DEF PushThen
<1>4. CASE PushElse
  BY <1>2, <1>4, Zenon DEF PushElse
<1>5. CASE PopIf
  BY <1>2, <1>5, Zenon DEF PopIf
<1>6. ASSUME NEW a \in Addrs, compute_fast_ramget(a)
      PROVE  Coherent' /\ ThenWitnessSatisfies'
  <2>1. trace' = Append(trace, LoadOp(a)) /\ true_ram' = true_ram /\ phase' = "run"
    BY <1>6, Zenon DEF compute_fast_ramget, LoadOp
  <2>2. LoadOp(a) \in Op
    BY <1>1, LoadOpType, Zenon
  <2>3. \A b \in Addrs : RamAfter(b) = RamAt(b)
    BY <2>1, Zenon DEF RamAfter, RamAt
  <2>4. /\ LoadOp(a).addr = a /\ LoadOp(a).type = LOAD_OP
        /\ LoadOp(a).value = RamAt(a)
    BY Zenon DEF LoadOp
  <2>5. InputConstraint(LoadOp(a))
    BY <2>4, Zenon DEF InputConstraint
  <2>6. Coherent'
    BY <1>1, <2>1, <2>2, <2>3, <2>4, <2>5, ExtendCoherent, Zenon
  <2>7. QED BY <2>1, <2>6, Zenon DEF ThenWitnessSatisfies
<1>7. ASSUME NEW a \in Addrs, NEW v \in Values, compute_fast_ramput(a, v)
      PROVE  Coherent' /\ ThenWitnessSatisfies'
  <2> DEFINE c == PutCondition
             e == StoreOp(a, v)
  <2>1. /\ trace' = Append(trace, e) /\ true_ram' = RamAfterPut(a, v, c)
        /\ phase' = "run"
    BY <1>7, Zenon DEF compute_fast_ramput, StoreOp
  <2>2. e \in Op
    BY <1>1, StoreOpType, Zenon
  <2>3. /\ e.addr = a /\ e.type = STORE_OP /\ e.value = Target(a, v, c)
        /\ e.condition = c /\ e.inValue = v
    BY Zenon DEF StoreOp
  <2>4. c \in Condition /\ v \in Int
    BY <1>1, PutConditionType, FastRamAssumptions, Zenon
  <2> HIDE DEF c, e
  <2>5. \A b \in Addrs : b # a => RamAfter(b) = RamAt(b)
    BY <2>1, Zenon DEF RamAfter, RamAt, RamAfterPut, Stored
  <2>6. ASSUME ~ElsePut(e) PROVE e.value = RamAfter(a) /\ InputConstraint(e)
    <3>1. CASE ~Selects(c)
      <4>1. e.value = RamAt(a) /\ RamAfter(a) = RamAt(a)
        BY <3>1, <2>1, <2>3, Zenon DEF Target, RamAfterPut, RamAfter, RamAt
      <4>2. ~Unconditional(e)
        BY <3>1, <2>3, Zenon DEF Unconditional
      <4>3. e.value \in Int
        BY <2>2, FastRamAssumptions, Zenon DEF Op
      <4>4. CASE c.branch
        <5>1. c.cond = 0
          BY <3>1, <4>4, <2>4, Zenon DEF Selects, Condition
        <5>2. QED BY <4>1, <4>2, <4>3, <4>4, <5>1, <2>3, <2>4
                  DEF InputConstraint, STORE_OP, LOAD_OP
      <4>5. CASE ~c.branch
        <5>1. c.cond = 1
          BY <3>1, <4>5, <2>4, Zenon DEF Selects, Condition
        <5>2. QED BY <4>1, <4>2, <4>3, <4>5, <5>1, <2>3, <2>4
                  DEF InputConstraint, STORE_OP, LOAD_OP
      <4>6. QED BY <4>4, <4>5, Zenon
    <3>2. CASE Selects(c)
      <4>1. c.branch
        BY <3>2, <2>3, <2>6, Zenon DEF ElsePut
      <4>2. e.value = v /\ e.inValue = v
        BY <3>2, <4>1, <2>3, Zenon DEF Target
      <4>3. RamAfter(a) = v
        BY <3>2, <2>1, Zenon DEF RamAfterPut, RamAfter, Stored
      <4>4. c.cond = 1
        BY <3>2, <4>1, Zenon DEF Selects
      <4>5. InputConstraint(e)
        BY <4>1, <4>2, <4>4, <2>3, <2>4 DEF InputConstraint
      <4>6. QED BY <4>2, <4>3, <4>5, Zenon
    <3>3. QED BY <3>1, <3>2, Zenon
  <2>7. e.type # LOAD_OP
    BY <2>3 DEF STORE_OP, LOAD_OP
  <2>8. Coherent'
    BY <1>1, <2>1, <2>2, <2>3, <2>5, <2>6, <2>7, ExtendCoherent, Zenon
  <2>9. QED BY <2>1, <2>8, Zenon DEF ThenWitnessSatisfies
<1>8. CASE MemConsistency
  <2>1. PICK p \in Permutations(Len(trace)) :
          /\ output' = [i \in 1 .. Len(trace) |-> ActualInput(p[i])]
          /\ \A i, j \in 1 .. Len(trace) :
               i < j => packet_cmp(output'[i], output'[j])
    BY <1>8, Zenon DEF MemConsistency
  <2>2. trace' = [i \in 1 .. Len(trace) |-> Solved(trace[i])] /\ true_ram' = true_ram
    BY <1>8, Zenon DEF MemConsistency
  <2>3. DOMAIN trace = 1 .. Len(trace) /\ \A i \in DOMAIN trace : trace[i] \in Op
    BY <1>1 DEF TypeOK
  <2>4. /\ DOMAIN trace' = DOMAIN trace
        /\ \A i \in DOMAIN trace :
             /\ trace'[i].addr = trace[i].addr
             /\ trace'[i].type = trace[i].type
             /\ trace'[i].value = trace[i].value
             /\ trace'[i].condition = trace[i].condition
             /\ InputConstraint(trace[i]) => InputConstraint(trace'[i])
    BY <2>2, <2>3, SolvedFacts, Zenon
  <2>5. NoElsePut' => NoElsePut
    BY <2>4, Zenon DEF NoElsePut, ElsePut
  <2>6. Coherent'
    <3> SUFFICES ASSUME NoElsePut' PROVE RamIsLast' /\ LoadsFollow' /\ InputsHold'
      BY Zenon DEF Coherent
    <3>1. RamIsLast /\ LoadsFollow /\ InputsHold
      BY <1>1, <2>5, Zenon DEF Coherent
    <3>2. RamIsLast'
      <4>1. ASSUME NEW i \in DOMAIN trace,
                   \A j \in DOMAIN trace : j > i => trace[j].addr # trace[i].addr
            PROVE  trace[i].value = RamAfter(trace[i].addr)
        BY <2>2, <3>1, <4>1, Zenon DEF RamIsLast, RamAt, RamAfter
      <4>2. ASSUME NEW a \in Addrs, \A i \in DOMAIN trace : trace[i].addr # a
            PROVE  RamAfter(a) = 0
        BY <2>2, <3>1, <4>2, Zenon DEF RamIsLast, RamAt, RamAfter
      <4>3. QED BY <2>4, <4>1, <4>2 DEF RamIsLast, RamAt, RamAfter
    <3>3. LoadsFollow'
      BY <2>4, <3>1 DEF LoadsFollow
    <3>4. InputsHold'
      BY <2>4, <3>1, Zenon DEF InputsHold
    <3>5. QED BY <3>2, <3>3, <3>4, Zenon
  <2>7. ASSUME NoElsePut' PROVE Constraints(trace', output')
    <3>1. LoadsFollow /\ InputsHold
      BY <1>1, <2>5, <2>7, Zenon DEF Coherent
    <3>2. QED BY <1>1, <2>1, <2>2, <3>1, SortedSatisfies, Zenon
  <2>8. QED BY <2>6, <2>7, Zenon DEF ThenWitnessSatisfies
<1>9. CASE NoNetwork
  BY <1>2, <1>9, Zenon DEF NoNetwork
<1>10. CASE UNCHANGED vars
  BY <1>2, <1>10, Zenon DEF vars
<1>11. QED BY <1>3, <1>4, <1>5, <1>6, <1>7, <1>8, <1>9, <1>10, Zenon DEF Next

\* The honest prover's assignment satisfies every generated constraint, for
\* every program that executes no put of an else block.
THEOREM HonestWitness == Spec => []ThenWitnessSatisfies
<1>1. Init => IInv
  BY InitType, InitCoherent, Zenon DEF IInv
<1>2. IInv /\ [Next]_vars => IInv'
  BY NextType, NextCoherent, Zenon DEF IInv
<1>3. IInv => ThenWitnessSatisfies
  BY Zenon DEF IInv
<1>4. QED BY <1>1, <1>2, <1>3, PTL DEF Spec

-----------------------------------------------------------------------------
(***************************************************************************)
(* Agreement with the C program                                            *)
(***************************************************************************)

\* Without an `if' inside an `if' the innermost condition is the only one.
LEMMA FlatCondition ==
    ASSUME TypeOK, Len(ifs) =< 1 PROVE Taken <=> Selects(PutCondition)
<1>1. CASE ifs = <<>>
  <2>1. Taken
    BY <1>1 DEF Taken
  <2>2. Selects(PutCondition)
    BY <1>1, Zenon DEF PutCondition, Selects, Always
  <2>3. QED BY <2>1, <2>2, Zenon
<1>2. CASE ifs # <<>>
  <2>1. /\ Len(ifs) \in Nat /\ DOMAIN ifs = 1 .. Len(ifs)
        /\ Len(ifs) # 0
    BY <1>2 DEF TypeOK
  <2>2. Len(ifs) = 1
    BY <2>1
  <2>3. Taken <=> Selects(ifs[1])
    BY <2>1, <2>2 DEF Taken
  <2>4. QED BY <1>2, <2>2, <2>3, Zenon DEF PutCondition
<1>3. QED BY <1>1, <1>2, Zenon

\* The prover's RAM holds what the C program's memory holds, for every program
\* that nests no `if' statements.
THEOREM RamAgreement == MaxDepth =< 1 => (Spec => []RamAgrees)
<1> SUFFICES ASSUME MaxDepth =< 1 PROVE Spec => []RamAgrees
  BY Zenon
<1> DEFINE Inv == TypeOK /\ Len(ifs) =< MaxDepth /\ RamAgrees
<1>1. Init => Inv
  BY InitType, FastRamAssumptions DEF Init, RamAgrees, RamAt
<1>2. Inv /\ [Next]_vars => Inv'
  <2> SUFFICES ASSUME Inv, [Next]_vars PROVE Len(ifs)' =< MaxDepth /\ RamAgrees'
    BY NextType, Zenon
  <2>1. ASSUME UNCHANGED <<memory, true_ram>> PROVE RamAgrees'
    BY <2>1, Zenon DEF RamAgrees, RamAt
  <2>2. MaxDepth \in Nat /\ Len(ifs) \in Nat /\ ifs \in Seq(Condition)
    BY FastRamAssumptions DEF TypeOK
  <2>3. ASSUME NEW c \in {0, 1}, NEW literal \in BOOLEAN, PushThen(c, literal)
        PROVE  Len(ifs)' =< MaxDepth /\ RamAgrees'
    <3>1. Len(ifs') = Len(ifs) + 1
      BY <2>2, <2>3 DEF PushThen, Condition
    <3>2. QED BY <2>1, <2>2, <2>3, <3>1 DEF PushThen
  <2>4. CASE PushElse
    BY <2>1, <2>2, <2>4 DEF PushElse
  <2>5. CASE PopIf
    <3>1. Len(ifs) # 0 /\ ifs' = SubSeq(ifs, 1, Len(ifs) - 1)
      BY <2>2, <2>5 DEF PopIf
    <3>2. Len(ifs') = Len(ifs) - 1
      <4>1. \A n \in Nat : Len(SubSeq(ifs, 1, n)) = n
        BY <2>2
      <4>2. Len(ifs) - 1 \in Nat
        BY <2>2, <3>1
      <4>3. QED BY <3>1, <4>1, <4>2, Zenon
    <3>3. QED BY <2>1, <2>2, <2>5, <3>2 DEF PopIf
  <2>6. ASSUME NEW a \in Addrs, compute_fast_ramget(a)
        PROVE  Len(ifs)' =< MaxDepth /\ RamAgrees'
    BY <2>1, <2>6, Zenon DEF compute_fast_ramget
  <2>7. ASSUME NEW a \in Addrs, NEW v \in Values, compute_fast_ramput(a, v)
        PROVE  Len(ifs)' =< MaxDepth /\ RamAgrees'
    <3>1. Taken <=> Selects(PutCondition)
      BY <2>2, FlatCondition
    <3>2. ifs' = ifs /\ memory \in [Addrs -> Values]
      BY <2>7, Zenon DEF compute_fast_ramput, TypeOK
    <3>3. CASE Taken
      <4>1. true_ram' = Stored(a, v) /\ memory' = [memory EXCEPT ![a] = v]
        BY <2>7, <3>1, <3>3, Zenon DEF compute_fast_ramput, RamAfterPut
      <4>2. RamAgrees'
        BY <3>2, <4>1, Zenon DEF RamAgrees, RamAt, Stored
      <4>3. QED BY <3>2, <4>2, Zenon
    <3>4. CASE ~Taken
      BY <2>1, <2>7, <3>1, <3>2, <3>4, Zenon DEF compute_fast_ramput, RamAfterPut
    <3>5. QED BY <3>3, <3>4, Zenon
  <2>8. CASE MemConsistency
    BY <2>1, <2>8, Zenon DEF MemConsistency
  <2>9. CASE NoNetwork
    BY <2>1, <2>9, Zenon DEF NoNetwork
  <2>10. CASE UNCHANGED vars
    BY <2>1, <2>10, Zenon DEF vars
  <2>11. QED BY <2>3, <2>4, <2>5, <2>6, <2>7, <2>8, <2>9, <2>10, Zenon DEF Next
<1>3. QED BY <1>1, <1>2, PTL DEF Spec
-----------------------------------------------------------------------------
(***************************************************************************)
(* The loads are determined                                                *)
(***************************************************************************)

\* A put is executed, skipped or a load, and enters the network as what it is.
LEMMA ActualTypeKinds ==
    ASSUME NEW op \in Op
    PROVE  /\ ActualType(op) = LOAD_OP <=> op.type = LOAD_OP
           /\ ActualType(op) = STORE_OP <=> Executed(op)
           /\ ActualType(op) = NO_OP <=> Skipped(op)
<1>1. /\ op.condition.cond \in {0, 1} /\ op.condition.branch \in BOOLEAN
      /\ op.condition.literal \in BOOLEAN /\ op.type \in {0, 1}
  BY Zenon DEF Op, Condition, LOAD_OP, STORE_OP
<1>2. CASE op.type = 0
  BY <1>1, <1>2 DEF ActualType, LOAD_OP, STORE_OP, NO_OP, Executed, Skipped
<1>3. CASE op.type = 1 /\ op.condition.branch = TRUE
  <2>1. Selects(op.condition) <=> op.condition.cond = 1
    BY <1>1, <1>3, Zenon DEF Selects
  <2>2. QED
    BY <1>1, <1>3, <2>1 DEF ActualType, LOAD_OP, STORE_OP, NO_OP, Executed, Skipped, Unconditional
<1>4. CASE op.type = 1 /\ op.condition.branch = FALSE
  <2>1. Selects(op.condition) <=> op.condition.cond # 1
    BY <1>1, <1>4, Zenon DEF Selects
  <2>2. QED
    BY <1>1, <1>4, <2>1 DEF ActualType, LOAD_OP, STORE_OP, NO_OP, Executed, Skipped, Unconditional
<1>5. QED BY <1>1, <1>2, <1>3, <1>4, Zenon

\* The operation at an output is the one of its time in the trace.
Lists(x, op) ==
    /\ x.addr = op.addr
    /\ x.value = op.value
    /\ x.type = LOAD_OP <=> op.type = LOAD_OP
    /\ x.type = STORE_OP <=> Executed(op)
    /\ x.type = NO_OP <=> Skipped(op)

\* The outputs of the network are the operations of the trace, each somewhere,
\* sorted.
OutputsListed ==
    phase = "done" =>
      /\ DOMAIN output = DOMAIN trace
      /\ \A i \in DOMAIN output :
           /\ output[i].ts + 1 \in DOMAIN trace
           /\ Lists(output[i], trace[output[i].ts + 1])
      /\ \A j \in DOMAIN trace : \E i \in DOMAIN output : output[i].ts + 1 = j
      /\ \A i, j \in DOMAIN output : i < j => packet_cmp(output[i], output[j])

\* Sorting the operations, and solving the puts' constraints, lists them all.
LEMMA NextOutputs == TypeOK /\ OutputsListed /\ [Next]_vars => OutputsListed'
<1> SUFFICES ASSUME TypeOK, OutputsListed, [Next]_vars PROVE OutputsListed'
  BY Zenon
<1>1. CASE MemConsistency
  <2> DEFINE n == Len(trace)
  <2>1. PICK p \in Permutations(n) :
          /\ output' = [i \in 1 .. n |-> ActualInput(p[i])]
          /\ \A i, j \in 1 .. n : i < j => packet_cmp(output'[i], output'[j])
    BY <1>1, Zenon DEF MemConsistency
  <2>2. trace' = [i \in 1 .. n |-> Solved(trace[i])]
    BY <1>1, Zenon DEF MemConsistency
  <2>3. n \in Nat /\ DOMAIN trace = 1 .. n /\ \A i \in 1 .. n : trace[i] \in Op
    BY DEF TypeOK
  <2>4. /\ \A i \in 1 .. n : p[i] \in 1 .. n
        /\ \A i \in 1 .. n : \E j \in 1 .. n : p[j] = i
    BY Zenon DEF Permutations
  <2> HIDE DEF n
  <2>5. \A i \in 1 .. n :
          /\ trace'[i].addr = trace[i].addr
          /\ trace'[i].value = trace[i].value
          /\ trace'[i].type = trace[i].type
          /\ trace'[i].condition = trace[i].condition
    BY <2>2, <2>3, SolvedFacts, Zenon
  <2>6. ASSUME NEW i \in 1 .. n
        PROVE  output'[i].ts + 1 = p[i] /\ Lists(output'[i], trace'[p[i]])
    <3>1. p[i] \in 1 .. n /\ trace[p[i]] \in Op
      BY <2>3, <2>4, Zenon
    <3>2. /\ output'[i].ts = p[i] - 1
          /\ output'[i].addr = trace[p[i]].addr
          /\ output'[i].value = trace[p[i]].value
          /\ output'[i].type = ActualType(trace[p[i]])
      BY <2>1, Zenon DEF ActualInput
    <3>3. output'[i].ts + 1 = p[i]
      BY <3>1, <3>2
    <3>4. /\ trace'[p[i]].addr = trace[p[i]].addr
          /\ trace'[p[i]].value = trace[p[i]].value
          /\ trace'[p[i]].type = LOAD_OP <=> trace[p[i]].type = LOAD_OP
          /\ Executed(trace'[p[i]]) <=> Executed(trace[p[i]])
          /\ Skipped(trace'[p[i]]) <=> Skipped(trace[p[i]])
      BY <2>5, <3>1, Zenon DEF Executed, Skipped
    <3>5. QED BY <3>1, <3>2, <3>3, <3>4, ActualTypeKinds, Zenon DEF Lists
  <2>7. DOMAIN output' = 1 .. n /\ DOMAIN trace' = 1 .. n
    BY <2>1, <2>2, Zenon
  <2>8. \A i \in 1 .. n :
          /\ output'[i].ts + 1 \in 1 .. n
          /\ Lists(output'[i], trace'[output'[i].ts + 1])
    BY <2>4, <2>6, Zenon
  <2>9. \A j \in 1 .. n : \E i \in 1 .. n : output'[i].ts + 1 = j
    BY <2>4, <2>6, Zenon
  <2>10. QED BY <2>1, <2>7, <2>8, <2>9, Zenon DEF OutputsListed
<1>2. CASE UNCHANGED <<output, trace, phase>>
  BY <1>2, Zenon DEF OutputsListed
<1>3. CASE phase' # "done"
  BY <1>3, Zenon DEF OutputsListed
<1>4. QED
  BY <1>1, <1>2, <1>3, Zenon
  DEF Next, vars, PushThen, PushElse, PopIf, compute_fast_ramget,
      compute_fast_ramput, NoNetwork

\* The pairwise polynomial leaves a load the word of the operation listed before
\* it, or zero when that one is of another address.
LEMMA PairwiseForces ==
    ASSUME NEW x \in Access, NEW y \in Access, y.type = LOAD_OP,
           pairwise_mem_consistency(x, y)
    PROVE  y.value = IF x.addr = y.addr THEN x.value ELSE 0
<1>1. /\ x.addr \in Nat /\ y.addr \in Nat /\ x.ts \in Nat /\ y.ts \in Nat
      /\ x.value \in Int /\ y.value \in Int
  BY FastRamAssumptions, Zenon DEF Access
<1>2. CASE x.addr = y.addr
  <2>1. ~(x.addr < y.addr) /\ Bit(x.addr < y.addr) = 0 /\ Bit(x.addr # y.addr) = 0
    BY <1>1, <1>2 DEF Bit
  <2>2. CASE x.ts < y.ts
    BY <1>1, <1>2, <2>1, <2>2 DEF pairwise_mem_consistency, Bit
  <2>3. CASE ~(x.ts < y.ts)
    BY <1>1, <1>2, <2>1, <2>3 DEF pairwise_mem_consistency, Bit
  <2>4. QED BY <2>2, <2>3, Zenon
<1>3. CASE x.addr # y.addr
  <2>1. CASE x.addr < y.addr
    BY <1>1, <1>3, <2>1 DEF pairwise_mem_consistency, Bit
  <2>2. CASE ~(x.addr < y.addr)
    BY <1>1, <1>3, <2>2 DEF pairwise_mem_consistency, Bit
  <2>3. QED BY <2>1, <2>2, Zenon
<1>4. QED BY <1>2, <1>3, Zenon

\* The first polynomial leaves a load zero.
LEMMA FirstForces ==
    ASSUME NEW x \in Access, x.type = LOAD_OP, first_mem_consistency(x)
    PROVE  x.value = 0
  BY DEF first_mem_consistency, Bit

\* A list of n accesses that satisfies the polynomials on its neighbours.
Satisfies(n, f) ==
    /\ f \in [1 .. n -> Access]
    /\ n >= 1 => first_mem_consistency(f[1])
    /\ \A i \in 1 .. n - 1 : pairwise_mem_consistency(f[i], f[i + 1])

\* Two lists of n accesses that agree but for the words of loads and no-ops.
SamePuts(n, f, g) ==
    \A i \in 1 .. n :
      /\ f[i].addr = g[i].addr
      /\ f[i].type = g[i].type
      /\ f[i].type = STORE_OP => f[i].value = g[i].value

\* The places of S are loads, and behind each, if it is of the same address, is a
\* put or another place of S.
Chained(n, f, S) ==
    /\ S \subseteq 1 .. n
    /\ \A x \in S :
         /\ f[x].type = LOAD_OP
         /\ x # 1 /\ f[x - 1].addr = f[x].addr => f[x - 1].type = STORE_OP \/ x - 1 \in S

\* Two such lists that both satisfy the polynomials agree on S: at the first place
\* of S where they differed the place before it would determine the word.
LEMMA FirstDifference ==
    ASSUME NEW n \in Nat, NEW f, NEW g, NEW S,
           Satisfies(n, f), Satisfies(n, g), SamePuts(n, f, g), Chained(n, f, S)
    PROVE  \A i \in S : f[i].value = g[i].value
<1> DEFINE T == {i \in S : f[i].value # g[i].value}
<1>1. SUFFICES ASSUME T # {} PROVE FALSE
  BY Zenon
<1>0. S \subseteq Nat
  BY DEF Chained
<1>2. PICK x \in T : \A y \in T : x =< y
  <2>1. T \subseteq Nat
    BY <1>0
  <2> HIDE DEF T
  <2>2. QED BY <1>1, <2>1, LeastNat, Zenon
<1>3. /\ x \in S /\ x \in 1 .. n /\ f[x].value # g[x].value
      /\ f[x] \in Access /\ g[x] \in Access
      /\ f[x].type = LOAD_OP /\ g[x].type = LOAD_OP
  <2>1. x \in S /\ x \in 1 .. n /\ f[x].value # g[x].value
    BY <1>2, Zenon DEF Chained
  <2>2. f[x] \in Access /\ g[x] \in Access
    BY <2>1, Zenon DEF Satisfies
  <2>3. QED BY <2>1, <2>2, Zenon DEF SamePuts, Chained
<1>4. CASE x = 1
  <2>0. first_mem_consistency(f[x]) /\ first_mem_consistency(g[x])
    BY <1>3, <1>4 DEF Satisfies
  <2>1. f[x].value = 0
    BY <1>3, <2>0, FirstForces, Zenon
  <2>2. g[x].value = 0
    BY <1>3, <2>0, FirstForces, Zenon
  <2>3. QED BY <1>3, <2>1, <2>2, Zenon
<1>5. CASE x # 1
  <2>1. x - 1 \in 1 .. n - 1 /\ x - 1 \in 1 .. n /\ (x - 1) + 1 = x /\ ~(x =< x - 1)
    BY <1>3, <1>5
  <2>2. /\ f[x - 1] \in Access /\ g[x - 1] \in Access
        /\ f[x - 1].addr = g[x - 1].addr /\ f[x].addr = g[x].addr
    BY <1>3, <2>1, Zenon DEF Satisfies, SamePuts
  <2>3. f[x - 1].addr = f[x].addr => f[x - 1].value = g[x - 1].value
    <3>1. ASSUME x - 1 \in S PROVE f[x - 1].value = g[x - 1].value
      BY <1>2, <2>1, <3>1, Zenon
    <3>2. ASSUME f[x - 1].type = STORE_OP PROVE f[x - 1].value = g[x - 1].value
      BY <2>1, <3>2, Zenon DEF SamePuts
    <3>3. QED BY <1>3, <1>5, <3>1, <3>2, Zenon DEF Chained
  <2>4. pairwise_mem_consistency(f[x - 1], f[x]) /\ pairwise_mem_consistency(g[x - 1], g[x])
    BY <2>1, Zenon DEF Satisfies
  <2>5. f[x].value = IF f[x - 1].addr = f[x].addr THEN f[x - 1].value ELSE 0
    BY <1>3, <2>2, <2>4, PairwiseForces, Zenon
  <2>6. g[x].value = IF g[x - 1].addr = g[x].addr THEN g[x - 1].value ELSE 0
    BY <1>3, <2>2, <2>4, PairwiseForces, Zenon
  <2>7. QED BY <1>3, <2>2, <2>3, <2>5, <2>6, Zenon
<1>6. QED BY <1>4, <1>5, Zenon

\* The places of the loads that are settled.
SettledPlaces == {x \in DOMAIN output : Settled(output[x].ts + 1)}

\* No operation on the address of an output comes, in the program, between it and
\* the output before it, if that one is on the same address.
LEMMA NothingBetween ==
    ASSUME TypeOK, OutputsListed, phase = "done",
           NEW x \in DOMAIN output, x # 1, output[x - 1].addr = output[x].addr
    PROVE  /\ x - 1 \in DOMAIN output
           /\ output[x - 1].ts + 1 < output[x].ts + 1
           /\ \A k \in DOMAIN trace :
                trace[k].addr = output[x].addr =>
                  k =< output[x - 1].ts + 1 \/ output[x].ts + 1 =< k
<1>1. /\ DOMAIN output = 1 .. Len(output) /\ Len(output) \in Nat
      /\ \A y \in DOMAIN output : output[y].ts \in Nat
  <2>1. /\ DOMAIN output = 1 .. Len(output) /\ Len(output) \in Nat
        /\ \A y \in DOMAIN output : output[y] \in Access
    BY DEF TypeOK
  <2>2. QED BY <2>1, Zenon DEF Access
<1>2. x - 1 \in DOMAIN output /\ x - 1 < x /\ x \in Nat
  BY <1>1
<1>3. \A y, z \in DOMAIN output : y < z => packet_cmp(output[y], output[z])
  BY Zenon DEF OutputsListed
<1>4. ASSUME NEW y \in DOMAIN output, NEW z \in DOMAIN output, y < z,
             output[y].addr = output[z].addr
      PROVE  output[y].ts < output[z].ts
  BY <1>3, <1>4, Zenon DEF packet_cmp
<1>5. output[x - 1].ts < output[x].ts
  BY <1>2, <1>4, Zenon
<1>6. ASSUME NEW k \in DOMAIN trace, trace[k].addr = output[x].addr
      PROVE  k =< output[x - 1].ts + 1 \/ output[x].ts + 1 =< k
  <2>0. PICK y \in DOMAIN output : output[y].ts + 1 = k
    BY Zenon DEF OutputsListed
  <2>1. output[y].ts + 1 = k /\ output[y].addr = output[x].addr
    <3>1. Lists(output[y], trace[output[y].ts + 1])
      BY Zenon DEF OutputsListed
    <3>2. QED BY <1>6, <2>0, <3>1, Zenon DEF Lists
  <2>2. CASE y < x - 1
    <3>1. output[y].ts < output[x - 1].ts
      BY <1>2, <1>4, <2>1, <2>2, Zenon
    <3>2. QED BY <1>1, <1>2, <2>1, <3>1
  <2>3. CASE x < y
    <3>1. output[x].ts < output[y].ts
      BY <1>4, <2>1, <2>3, Zenon
    <3>2. QED BY <1>1, <2>1, <3>1
  <2>4. CASE y = x - 1 \/ y = x
    BY <1>1, <1>2, <2>1, <2>4
  <2>5. y \in Nat
    BY <1>1
  <2>6. QED BY <1>2, <2>2, <2>3, <2>4, <2>5
<1>7. QED BY <1>1, <1>2, <1>5, <1>6

\* Behind a settled load is a put or a settled load, or another address.
LEMMA SettledChained ==
    ASSUME TypeOK, OutputsListed, phase = "done"
    PROVE  Chained(Len(output), output, SettledPlaces)
<1>1. DOMAIN output = 1 .. Len(output) /\ SettledPlaces \subseteq 1 .. Len(output)
  BY DEF TypeOK, SettledPlaces
<1>2. ASSUME NEW x \in SettledPlaces PROVE output[x].type = LOAD_OP
  BY <1>2, Zenon DEF SettledPlaces, Settled, OutputsListed, Lists
<1>3. ASSUME NEW x \in SettledPlaces, x # 1, output[x - 1].addr = output[x].addr,
             output[x - 1].type # STORE_OP
      PROVE  x - 1 \in SettledPlaces
  <2> DEFINE i == output[x].ts + 1
             j == output[x - 1].ts + 1
  <2>1. /\ x \in DOMAIN output /\ x - 1 \in DOMAIN output /\ j < i
        /\ \A k \in DOMAIN trace : trace[k].addr = output[x].addr => k =< j \/ i =< k
    BY <1>3, NothingBetween, Zenon DEF SettledPlaces
  <2>2. /\ i \in DOMAIN trace /\ j \in DOMAIN trace
        /\ Lists(output[x], trace[i]) /\ Lists(output[x - 1], trace[j])
    BY <2>1, Zenon DEF OutputsListed
  <2>3. DOMAIN trace = 1 .. Len(trace) /\ Len(trace) \in Nat /\ i \in Nat /\ j \in Nat
    BY <2>2 DEF TypeOK
  <2>4. Settled(i)
    BY <1>3, Zenon DEF SettledPlaces
  <2>5. trace[i].addr = output[x].addr /\ trace[j].addr = output[x].addr
    BY <1>3, <2>2, Zenon DEF Lists
  <2>6. output[x - 1].type \in {LOAD_OP, STORE_OP, NO_OP}
    <3>1. output[x - 1] \in Access
      BY <2>1 DEF TypeOK
    <3>2. QED BY <3>1, Zenon DEF Access
  <2> HIDE DEF i, j
  <2>7. ~Skipped(trace[j])
    <3>1. SUFFICES ASSUME Skipped(trace[j]) PROVE FALSE
      BY Zenon
    <3>2. j \in 1 .. i - 1
      BY <2>1, <2>2, <2>3
    <3>3. PICK k \in j + 1 .. i - 1 : trace[k].addr = trace[i].addr
      BY <2>4, <2>5, <3>1, <3>2, Zenon DEF Settled
    <3>4. k \in DOMAIN trace /\ ~(k =< j) /\ ~(i =< k)
      BY <2>2, <2>3, <3>3
    <3>5. QED BY <2>1, <2>5, <3>3, <3>4, Zenon
  <2>8. trace[j].type = LOAD_OP
    BY <1>3, <2>2, <2>6, <2>7, Zenon DEF Lists
  <2>9. ASSUME NEW l \in 1 .. j - 1, trace[l].addr = trace[j].addr, Skipped(trace[l])
        PROVE  \E k \in l + 1 .. j - 1 : trace[k].addr = trace[j].addr /\ Executed(trace[k])
    <3>1. l \in 1 .. i - 1
      BY <2>1, <2>3, <2>9
    <3>2. PICK k \in l + 1 .. i - 1 : trace[k].addr = trace[i].addr /\ Executed(trace[k])
      BY <2>4, <2>5, <2>9, <3>1, Zenon DEF Settled
    <3>3. k \in DOMAIN trace /\ ~(i =< k)
      BY <2>2, <2>3, <3>2
    <3>4. k # j
      BY <2>8, <3>2 DEF Executed, LOAD_OP, STORE_OP
    <3>5. k =< j
      BY <2>1, <2>5, <3>2, <3>3, Zenon
    <3>6. k \in l + 1 .. j - 1
      BY <2>3, <3>2, <3>4, <3>5
    <3>7. QED BY <2>5, <3>2, <3>6, Zenon
  <2>10. Settled(j)
    BY <2>8, <2>9, Zenon DEF Settled
  <2>11. QED BY <2>1, <2>10, Zenon DEF SettledPlaces, j
<1>4. QED BY <1>1, <1>2, <1>3, Zenon DEF Chained

\* The constraint on an executed put fixes its variable.
LEMMA InputForces ==
    ASSUME NEW op \in Op, NEW v \in Values, Executed(op),
           InputConstraint(op), InputConstraint([op EXCEPT !.value = v])
    PROVE  v = op.value
<1>1. /\ op.condition.cond \in {0, 1} /\ op.condition.branch \in BOOLEAN
      /\ op.value \in Int /\ op.inValue \in Int /\ v \in Int
      /\ op.type = STORE_OP /\ op.type # LOAD_OP
  BY FastRamAssumptions DEF Op, Condition, Executed, LOAD_OP, STORE_OP
<1> DEFINE o == [op EXCEPT !.value = v]
<1>2. /\ o.type = op.type /\ o.condition = op.condition /\ o.inValue = op.inValue /\ o.value = v
  BY Zenon DEF Op
<1>3. Unconditional(o) <=> Unconditional(op)
  BY <1>2, Zenon DEF Unconditional
<1>4. InputConstraint(o)
  OBVIOUS
<1> HIDE DEF o
<1>5. CASE op.condition.branch = TRUE
  <2>1. op.condition.cond = 1
    BY <1>1, <1>5, Zenon DEF Executed, Selects
  <2>2. v - op.inValue = 0 /\ op.value - op.inValue = 0
    BY <1>1, <1>2, <1>3, <1>4, <1>5, <2>1 DEF InputConstraint
  <2>3. QED BY <1>1, <2>2
<1>6. CASE op.condition.branch = FALSE
  <2>1. op.condition.cond = 0
    BY <1>1, <1>6, Zenon DEF Executed, Selects
  <2>2. v - op.inValue = 0 /\ op.value - op.inValue = 0
    BY <1>1, <1>2, <1>3, <1>4, <1>6, <2>1 DEF InputConstraint
  <2>3. QED BY <1>1, <2>2
<1>7. QED BY <1>1, <1>5, <1>6, Zenon

\* The words the prover loaded satisfy the constraints, and at settled loads they
\* are the only ones that do.
LEMMA Determined ==
    TypeOK /\ OutputsListed /\ ThenWitnessSatisfies => LoadsDetermined
<1>0. SUFFICES
      ASSUME TypeOK, OutputsListed, ThenWitnessSatisfies,
             phase = "done", NoElsePut,
             NEW word \in [DOMAIN trace -> Values],
             Constraints(OpsWith(word), OutputWith(word)),
             NEW m \in DOMAIN trace, Settled(m)
      PROVE  word[m] = trace[m].value
  BY Zenon DEF LoadsDetermined
<1> DEFINE n == Len(output)
           out == OutputWith(word)
<1>1. /\ n \in Nat /\ DOMAIN output = 1 .. n /\ output \in [1 .. n -> Access]
      /\ \A i \in DOMAIN trace : trace[i] \in Op
  BY <1>0 DEF TypeOK
<1>2. /\ DOMAIN output = DOMAIN trace
      /\ \A i \in DOMAIN output :
           /\ output[i].ts + 1 \in DOMAIN trace
           /\ Lists(output[i], trace[output[i].ts + 1])
      /\ \A j \in DOMAIN trace : \E i \in DOMAIN output : output[i].ts + 1 = j
  BY <1>0, Zenon DEF OutputsListed
<1>3. Constraints(trace, output) /\ Constraints(OpsWith(word), out)
  BY <1>0, Zenon DEF ThenWitnessSatisfies
<1>4. DOMAIN out = 1 .. n /\ Len(out) = n
  BY <1>1 DEF OutputWith
<1>5. ASSUME NEW i \in DOMAIN trace, Executed(trace[i]) PROVE word[i] = trace[i].value
  <2>1. trace[i] \in Op /\ word[i] \in Values
    BY <1>0, <1>1, <1>5, Zenon
  <2>2. OpsWith(word)[i] = [trace[i] EXCEPT !.value = word[i]] /\ i \in DOMAIN OpsWith(word)
    BY <1>5, Zenon DEF OpsWith
  <2>3. InputConstraint(trace[i]) /\ InputConstraint([trace[i] EXCEPT !.value = word[i]])
    BY <1>3, <1>5, <2>2, Zenon DEF Constraints
  <2>4. QED BY <1>5, <2>1, <2>3, InputForces, Zenon
<1> HIDE DEF n
<1>6. ASSUME NEW i \in 1 .. n
      PROVE  /\ out[i] \in Access
             /\ out[i].addr = output[i].addr
             /\ out[i].type = output[i].type
             /\ out[i].value = word[output[i].ts + 1]
             /\ out[i].type = STORE_OP => out[i].value = output[i].value
  <2>1. output[i] \in Access /\ word[output[i].ts + 1] \in Values
    BY <1>0, <1>1, <1>2, Zenon
  <2>2. out[i] = [output[i] EXCEPT !.value = word[output[i].ts + 1]]
    BY <1>1, Zenon DEF OutputWith
  <2>3. /\ out[i] \in Access
        /\ out[i].addr = output[i].addr
        /\ out[i].type = output[i].type
        /\ out[i].value = word[output[i].ts + 1]
    BY <2>1, <2>2, Zenon DEF Access
  <2>4. ASSUME out[i].type = STORE_OP PROVE out[i].value = output[i].value
    <3>1. /\ output[i].ts + 1 \in DOMAIN trace
          /\ Lists(output[i], trace[output[i].ts + 1])
      BY <1>1, <1>2, Zenon
    <3>2. Executed(trace[output[i].ts + 1]) /\ output[i].value = trace[output[i].ts + 1].value
      BY <2>3, <2>4, <3>1, Zenon DEF Lists
    <3>3. word[output[i].ts + 1] = trace[output[i].ts + 1].value
      BY <1>5, <3>1, <3>2, Zenon
    <3>4. QED BY <2>3, <3>2, <3>3, Zenon
  <2>5. QED BY <2>3, <2>4, Zenon
<1> HIDE DEF out
<1>7. out \in [1 .. n -> Access]
  <2>1. out = [i \in 1 .. n |-> out[i]]
    BY <1>1, <1>4, Zenon DEF out, OutputWith
  <2>2. QED BY <1>6, <2>1, Zenon
<1>8. Satisfies(n, out) /\ Satisfies(n, output)
  <2>1. n >= 1 => out # <<>> /\ output # <<>>
    BY <1>1, <1>4
  <2>2. Len(output) = n
    BY Zenon DEF n
  <2>3. Satisfies(n, out)
    BY <1>3, <1>4, <1>7, <2>1, Zenon DEF Constraints, Satisfies
  <2>4. Satisfies(n, output)
    BY <1>1, <1>3, <2>1, <2>2, Zenon DEF Constraints, Satisfies
  <2>5. QED BY <2>3, <2>4, Zenon
<1>9. \A i \in SettledPlaces : output[i].value = out[i].value
  <2>1. SamePuts(n, output, out)
    BY <1>6, Zenon DEF SamePuts
  <2>2. Chained(n, output, SettledPlaces)
    BY <1>0, SettledChained, Zenon DEF n
  <2>3. n \in Nat
    BY <1>1, Zenon
  <2>4. QED BY <1>8, <2>1, <2>2, <2>3, FirstDifference
<1>10. PICK i \in 1 .. n : output[i].ts + 1 = m
  BY <1>0, <1>1, <1>2, Zenon
<1>11. i \in SettledPlaces
  BY <1>0, <1>1, <1>10, Zenon DEF SettledPlaces
<1>12. output[i].value = trace[m].value
  BY <1>1, <1>2, <1>10, Zenon DEF Lists
<1>13. QED BY <1>6, <1>9, <1>10, <1>11, <1>12, Zenon

\* For every program that executes no put of an else block, the words of the
\* settled loads are determined by the constraints: with the words the prover
\* computes, no assignment that satisfies them has another word there.
THEOREM LoadsForced == Spec => []LoadsDetermined
<1>1. Init => IInv /\ OutputsListed
  BY InitType, InitCoherent, Zenon DEF IInv, Init, OutputsListed
<1>2. IInv /\ OutputsListed /\ [Next]_vars => (IInv /\ OutputsListed)'
  BY NextType, NextCoherent, NextOutputs, Zenon DEF IInv
<1>3. IInv /\ OutputsListed => LoadsDetermined
  BY Determined, Zenon DEF IInv
<1>4. QED BY <1>1, <1>2, <1>3, PTL DEF Spec
=============================================================================
