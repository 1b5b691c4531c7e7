------------------------------ MODULE FastRam ------------------------------
(***************************************************************************)
(* The fast RAM of a compiled program, end to end.  The front-end turns a  *)
(* load or a store whose address is not known at compile time into a       *)
(* RAMGET_FAST or a RAMPUT_FAST line; a store carries the condition and    *)
(* the branch of the `if' around it.  The prover executes the lines in     *)
(* order against true_ram and so assigns the variables of the constraints. *)
(* The back-end has listed the operations in program order and appended    *)
(* the memory consistency constraints: the operations, sorted by address   *)
(* and then by time, must be a history of a memory.                        *)
(*                                                                         *)
(* Compiling and executing proceed in the same order, one line at a time,  *)
(* so the model takes the two together: a step expands one statement of    *)
(* the program and executes the line it produced.  Every statement of both *)
(* branches of an `if' becomes a line, whatever the condition evaluates to.*)
(* `memory' and `reads' are the reference, the memory of the C program     *)
(* itself and what the loads it reaches return.                            *)
(***************************************************************************)
EXTENDS Integers, Sequences

CONSTANTS
    Addrs,       \* the addresses the program uses
    Values,      \* the words it stores
    MaxOps,      \* bound: memory operations of a program
    MaxDepth     \* bound: `if' statements around a statement

ASSUME FastRamAssumptions ==
    /\ Addrs \subseteq Nat
    /\ Values \subseteq Int /\ 0 \in Values
    /\ MaxOps \in Nat /\ MaxDepth \in Nat

LOAD_OP == 0
STORE_OP == 1
NO_OP == 2

VARIABLES
    ifs,       \* StatementBuffer.conditions and branches, innermost last
    memory,    \* what the memory of the C program holds
    reads,     \* the words the loads the C program reaches return, by place in trace
    true_ram,  \* the prover's RAM, a partial function
    trace,     \* mem_ops_input with the values the prover gave its variables
    output,    \* the sorted operations at the outputs of the network
    phase      \* "run", then "done" or "failed"

vars == <<ifs, memory, reads, true_ram, trace, output, phase>>

Condition == [cond : {0, 1}, literal : BOOLEAN, branch : BOOLEAN]

Op == [addr : Addrs, type : {LOAD_OP, STORE_OP}, value : Values,
       condition : Condition, inValue : Values]

Access == [addr : Addrs, ts : Nat, type : {LOAD_OP, STORE_OP, NO_OP},
           value : Values]

Always == [cond |-> 1, literal |-> TRUE, branch |-> TRUE]

Init ==
    /\ ifs = <<>>
    /\ memory = [a \in Addrs |-> 0]
    /\ reads = [i \in {} |-> 0]
    /\ true_ram = [a \in {} |-> 0]
    /\ trace = <<>>
    /\ output = <<>>
    /\ phase = "run"

-----------------------------------------------------------------------------
(***************************************************************************)
(* The front-end's stack of conditions                                     *)
(***************************************************************************)

\* The condition and branch select this block.
Selects(c) == (c.cond = 1) = c.branch

\* The C program reaches the statement.
Taken == \A k \in DOMAIN ifs : Selects(ifs[k])

\* The statement is expanded: a block a constant condition rules out is not.
Expanded == \A k \in DOMAIN ifs : ifs[k].literal => Selects(ifs[k])

PushThen(c, literal) ==
    /\ phase = "run"
    /\ Len(ifs) < MaxDepth
    /\ Expanded
    /\ ifs' = Append(ifs, [cond |-> c, literal |-> literal, branch |-> TRUE])
    /\ UNCHANGED <<memory, reads, true_ram, trace, output, phase>>

PushElse ==
    /\ phase = "run"
    /\ ifs # <<>>
    /\ ifs[Len(ifs)].branch
    /\ ifs' = [ifs EXCEPT ![Len(ifs)].branch = FALSE]
    /\ UNCHANGED <<memory, reads, true_ram, trace, output, phase>>

PopIf ==
    /\ phase = "run"
    /\ ifs # <<>>
    /\ ~ifs[Len(ifs)].branch
    /\ ifs' = SubSeq(ifs, 1, Len(ifs) - 1)
    /\ UNCHANGED <<memory, reads, true_ram, trace, output, phase>>

\* getCondition and getBranch: the innermost one, or the constant one.
PutCondition == IF ifs = <<>> THEN Always ELSE ifs[Len(ifs)]

-----------------------------------------------------------------------------
(***************************************************************************)
(* The prover's execution of a line                                        *)
(***************************************************************************)

RamAt(a) == IF a \in DOMAIN true_ram THEN true_ram[a] ELSE 0

Stored(a, v) ==
    [x \in DOMAIN true_ram \cup {a} |-> IF x = a THEN v ELSE true_ram[x]]

Noted(i, v) ==
    [x \in DOMAIN reads \cup {i} |-> IF x = i THEN v ELSE reads[x]]

compute_fast_ramget(a) ==
    /\ phase = "run"
    /\ Expanded
    /\ Len(trace) < MaxOps
    /\ trace' = Append(trace, [addr |-> a, type |-> LOAD_OP,
                               value |-> RamAt(a), condition |-> Always,
                               inValue |-> RamAt(a)])
    /\ reads' = IF Taken THEN Noted(Len(trace) + 1, memory[a]) ELSE reads
    /\ UNCHANGED <<ifs, memory, true_ram, output, phase>>

\* Mutant: a put that is skipped does not read the word that stays.
TargetNew(a, v, c) == IF Selects(c) /\ ~c.branch THEN 0 ELSE v

\* What the put writes into its return variable.  An else block's put that is
\* executed writes nothing: the variable keeps its initial zero.
Target(a, v, c) ==
    IF ~Selects(c) THEN RamAt(a)
    ELSE IF c.branch THEN v ELSE 0

\* Mutant: the condition is looked at and the branch is not.
RamAfterPutByCondition(a, v, c) ==
    IF c.cond = 1 THEN Stored(a, v) ELSE true_ram

RamAfterPut(a, v, c) == IF Selects(c) THEN Stored(a, v) ELSE true_ram

compute_fast_ramput(a, v) ==
    /\ phase = "run"
    /\ Expanded
    /\ Len(trace) < MaxOps
    /\ memory' = IF Taken THEN [memory EXCEPT ![a] = v] ELSE memory
    /\ true_ram' = RamAfterPut(a, v, PutCondition)
    /\ trace' = Append(trace, [addr |-> a, type |-> STORE_OP,
                               value |-> Target(a, v, PutCondition),
                               condition |-> PutCondition,
                               inValue |-> v])
    /\ UNCHANGED <<ifs, reads, output, phase>>

-----------------------------------------------------------------------------
(***************************************************************************)
(* The memory consistency constraints.  Bit is what a comparison gate      *)
(* leaves in its output variable; the polynomials are the ones generated.  *)
(***************************************************************************)

Bit(b) == IF b THEN 1 ELSE 0

\* The put's condition and branch are the literals of an unconditional put.
Unconditional(op) == op.condition.literal /\ Selects(op.condition)

\* Mutant: the difference to a no-op is not taken.
ActualTypeSum(op) ==
    IF op.type = LOAD_OP \/ Unconditional(op) THEN op.type
    ELSE IF op.condition.branch
         THEN op.condition.cond * op.type + NO_OP
         ELSE (1 - op.condition.cond) * op.type + NO_OP

\* The type of the operation at the input of the network.
ActualType(op) ==
    IF op.type = LOAD_OP \/ Unconditional(op) THEN op.type
    ELSE IF op.condition.branch
         THEN op.condition.cond * (op.type - NO_OP) + NO_OP
         ELSE (1 - op.condition.cond) * (op.type - NO_OP) + NO_OP

\* The constraint that ties a put's return variable to the word it stores.
InputConstraint(op) ==
    IF op.type = LOAD_OP THEN TRUE
    ELSE IF Unconditional(op) THEN op.value - op.inValue = 0
    ELSE IF op.condition.branch
         THEN op.condition.cond * (op.value - op.inValue) = 0
         ELSE (1 - op.condition.cond) * (op.value - op.inValue) = 0

first_mem_consistency(op2) ==
    LET V12 == Bit(op2.type # LOAD_OP)
        V13 == Bit(op2.value # 0)
        V26 == (1 - V12) * (-V13) + 1
    IN V26 - 1 = 0

\* Mutant: a load of another address need not return zero.
PairwiseAnyFirst(op1, op2) ==
    LET V13 == Bit(op1.addr < op2.addr)
        V23 == Bit(op1.addr # op2.addr)
        V25 == Bit(op1.ts < op2.ts)
        V29 == Bit(op1.value # op2.value)
        V28 == Bit(op2.type # LOAD_OP)
        V41 == V25 * (1 - V23) * ((1 - V28) * (-V29) + 1)
    IN V13 * (1 - V41) + V41 - 1 = 0

pairwise_mem_consistency(op1, op2) ==
    LET V13 == Bit(op1.addr < op2.addr)
        V14 == Bit(op2.type # LOAD_OP)
        V15 == Bit(op2.value # 0)
        V23 == Bit(op1.addr # op2.addr)
        V25 == Bit(op1.ts < op2.ts)
        V27 == V25 * (1 - V23)
        V28 == Bit(op2.type # LOAD_OP)
        V29 == Bit(op1.value # op2.value)
        V39 == (1 - V28) * (-V29) + 1
        V41 == V27 * V39
        V43 == (1 - V14) * (-V15) + (1 - V41)
        V51 == V13 * V43 + V41
    IN V51 - 1 = 0

\* All the constraints, on an assignment of the variables.
Constraints(ops, out) ==
    /\ \A i \in DOMAIN ops : InputConstraint(ops[i])
    /\ out # <<>> => first_mem_consistency(out[1])
    /\ \A i \in 1 .. Len(out) - 1 : pairwise_mem_consistency(out[i], out[i + 1])

-----------------------------------------------------------------------------
(***************************************************************************)
(* The end of the worksheet                                                *)
(***************************************************************************)

\* The operation at input i of the network.
ActualInput(i) ==
    [addr |-> trace[i].addr, ts |-> i - 1, type |-> ActualType(trace[i]),
     value |-> trace[i].value]

packet_cmp(a, b) == IF a.addr = b.addr THEN a.ts < b.ts ELSE a.addr < b.addr

Permutations(n) ==
    {p \in [1 .. n -> 1 .. n] : \A i \in 1 .. n : \E j \in 1 .. n : p[j] = i}

\* The worksheet solves the input constraint of an unconditional put for the
\* stored word, whose variable it so assigns.
Solved(op) ==
    IF op.type = STORE_OP /\ Unconditional(op)
    THEN [op EXCEPT !.inValue = op.value] ELSE op

MemConsistency ==
    /\ phase = "run"
    /\ ifs = <<>>
    /\ Len(trace) # 1
    /\ \E p \in Permutations(Len(trace)) :
         /\ output' = [i \in 1 .. Len(trace) |-> ActualInput(p[i])]
         /\ \A i, j \in 1 .. Len(trace) :
              i < j => packet_cmp(output'[i], output'[j])
    /\ trace' = [i \in 1 .. Len(trace) |-> Solved(trace[i])]
    /\ phase' = "done"
    /\ UNCHANGED <<ifs, memory, reads, true_ram>>

\* There is no network of width one: the back-end raises an exception.
NoNetwork ==
    /\ phase = "run"
    /\ ifs = <<>>
    /\ Len(trace) = 1
    /\ phase' = "failed"
    /\ UNCHANGED <<ifs, memory, reads, true_ram, trace, output>>

Next ==
    \/ \E c \in {0, 1}, literal \in BOOLEAN : PushThen(c, literal)
    \/ PushElse
    \/ PopIf
    \/ \E a \in Addrs : compute_fast_ramget(a)
    \/ \E a \in Addrs, v \in Values : compute_fast_ramput(a, v)
    \/ MemConsistency
    \/ NoNetwork

Spec == Init /\ [][Next]_vars

-----------------------------------------------------------------------------
(***************************************************************************)
(* Properties                                                              *)
(***************************************************************************)

\* Every variable holds what the code can put into it.
TypeOK ==
    /\ ifs \in Seq(Condition)
    /\ memory \in [Addrs -> Values]
    /\ DOMAIN true_ram \subseteq Addrs
    /\ \A a \in DOMAIN true_ram : true_ram[a] \in Values
    /\ trace \in Seq(Op)
    /\ output \in Seq(Access)
    /\ phase \in {"run", "done", "failed"}

\* The prover's RAM holds what the memory of the C program holds, so that
\* every RAMGET_FAST of a block the program reaches returns the program's
\* word.
RamAgrees == \A a \in Addrs : RamAt(a) = memory[a]

\* A put of an else block was executed.
ElsePut(op) == op.type = STORE_OP /\ ~op.condition.branch /\ Selects(op.condition)

\* The program executed no put of an else block.
NoElsePut == \A i \in DOMAIN trace : ~ElsePut(trace[i])

\* The values the prover assigns by executing a program that puts only outside
\* else blocks satisfy every memory consistency constraint generated for it,
\* puts that the prover skips because their condition is zero included.
ThenWitnessSatisfies ==
    phase = "done" /\ NoElsePut => Constraints(trace, output)

\* The operations, and the outputs of the network, with other words in the
\* variables of loads and puts.
OpsWith(word) == [i \in DOMAIN trace |-> [trace[i] EXCEPT !.value = word[i]]]
OutputWith(word) ==
    [i \in DOMAIN output |-> [output[i] EXCEPT !.value = word[output[i].ts + 1]]]

Executed(op) == op.type = STORE_OP /\ Selects(op.condition)
Skipped(op) == op.type = STORE_OP /\ ~Selects(op.condition)

\* Since the last executed put on its address, or since the start, no put on it
\* was skipped.
Settled(i) ==
    /\ trace[i].type = LOAD_OP
    /\ \A j \in 1 .. i - 1 :
         trace[j].addr = trace[i].addr /\ Skipped(trace[j]) =>
           \E k \in j + 1 .. i - 1 : trace[k].addr = trace[i].addr /\ Executed(trace[k])

\* The constraints leave no choice for what a load returns, unless a put on its
\* address was skipped since the last one that was executed: whatever words are
\* in the variables of loads and puts, if they satisfy the constraints on the
\* puts and on neighbours at the outputs of the network, such a load has the word
\* the prover's RAM held.
LoadsDetermined ==
    phase = "done" /\ NoElsePut =>
      \A word \in [DOMAIN trace -> Values] :
        Constraints(OpsWith(word), OutputWith(word)) =>
          \A i \in DOMAIN trace : Settled(i) => word[i] = trace[i].value

\* README.md: "the constraints are satisfiable if and only if the purported output
\* (...) is what the original program would have produced".  The words that the
\* loads the program reaches may have are the program's and no others.
OnlyTheProgram ==
    phase = "done" =>
      {[i \in DOMAIN reads |-> word[i]] :
         word \in {w \in [DOMAIN trace -> Values] : Constraints(OpsWith(w), OutputWith(w))}}
        = {reads}
=============================================================================
