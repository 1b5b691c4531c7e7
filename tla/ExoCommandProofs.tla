-------------------------- MODULE ExoCommandProofs --------------------------
(***************************************************************************)
(* execute_command called any number of times, with any programs and       *)
(* inputs: nothing is lost between the processes, and they hang only when  *)
(* the pipes are full.                                                     *)
(***************************************************************************)
EXTENDS ExoCommand, SequenceTheorems, TLAPS

Tokens == Seq(Token)

\* The caller takes the tokens and goes on, or ends.
Return ==
    /\ parent = "done"
    /\ parent' \in {"idle", "ended"}
    /\ UNCHANGED <<program, procIn, to_write, stdin, eof, child, got, out, stdout, procOut>>

ExoNext ==
    \/ \E p \in Programs : \E input \in Tokens : Fork(p, input)
    \/ ForkFails
    \/ Return
    \/ ParentStep
    \/ ChildStep

ExoSpec == ExoInit /\ [][ExoNext]_exoVars

-----------------------------------------------------------------------------
(***************************************************************************)
(* The inductive invariant.                                                *)
(***************************************************************************)
ExoTypeOK ==
    /\ program \in Programs
    /\ procIn \in Tokens /\ to_write \in Tokens /\ stdin \in Tokens
    /\ got \in Tokens /\ out \in Tokens /\ stdout \in Tokens /\ procOut \in Tokens
    /\ parent \in {"idle", "write", "read", "done", "ended"}
    /\ child \in {"starting", "reading", "last", "exited"}
    /\ eof \in BOOLEAN

Join(s, t) == s \o t

\* The input is with the child, in the pipe, or still to be written.
InputConserved == procIn = Join(Join(got, stdin), to_write)

\* What the child has put out: with the prover, in the pipe, or about to be written.
Produced == Join(Join(procOut, stdout), out)

\* Where the prover is says what it has done.
ParentPlace ==
    /\ parent = "write" => ~eof /\ procOut = <<>>
    /\ parent \in {"read", "done"} => eof /\ to_write = <<>>
    /\ parent \in {"idle", "done", "ended"} => child = "exited"
    /\ parent = "done" => stdout = <<>>

\* Where the child is says what it has put out.
Finished ==
    /\ Produced = Output(program, procIn)
    /\ program.kind = "runs" /\ program.reads => got = procIn

ChildPlace ==
    /\ child = "starting" => Produced = <<>> /\ got = <<>>
    /\ child = "reading" => /\ program.kind = "runs" /\ program.reads
                            /\ Produced = IF program.echoes THEN got ELSE <<>>
    /\ child = "last" => Finished
    /\ child = "exited" => out = <<>> /\ (parent \notin {"idle", "ended"} => Finished)

ExoInv == ExoTypeOK /\ InputConserved /\ ParentPlace /\ ChildPlace

-----------------------------------------------------------------------------
(***************************************************************************)
(* Sequences of tokens.                                                    *)
(***************************************************************************)

\* Joining, its length, and the empty sequence.
LEMMA JoinFacts ==
    /\ <<>> \in Tokens /\ Len(<<>>) = 0
    /\ \A s \in Tokens : /\ Len(s) \in Nat /\ (s # <<>> => Len(s) > 0)
                         /\ Join(s, <<>>) = s /\ Join(<<>>, s) = s
    /\ \A s, t \in Tokens : Join(s, t) \in Tokens /\ Len(Join(s, t)) = Len(s) + Len(t)
<1>1. <<>> \in Tokens /\ Len(<<>>) = 0
  BY EmptySeq, Zenon DEF Tokens
<1>2. ASSUME NEW s \in Tokens
      PROVE  Len(s) \in Nat /\ (s # <<>> => Len(s) > 0)
  BY EmptySeq, LenProperties DEF Tokens
<1>3. ASSUME NEW s \in Tokens
      PROVE  Join(s, <<>>) = s /\ Join(<<>>, s) = s
  BY ConcatEmptySeq, Zenon DEF Tokens, Join
<1>4. ASSUME NEW s \in Tokens, NEW t \in Tokens
      PROVE  Join(s, t) \in Tokens /\ Len(Join(s, t)) = Len(s) + Len(t)
  BY ConcatProperties, Zenon DEF Tokens, Join
<1> QED  BY <1>1, <1>2, <1>3, <1>4, Zenon

\* Three of them.
LEMMA LenThree ==
    ASSUME NEW s \in Tokens, NEW t \in Tokens, NEW u \in Tokens
    PROVE  /\ Len(s) \in Nat /\ Len(t) \in Nat /\ Len(u) \in Nat
           /\ Len(Join(Join(s, t), u)) = Len(s) + Len(t) + Len(u)
<1>1. Len(s) \in Nat /\ Len(t) \in Nat /\ Len(u) \in Nat
  BY JoinFacts, Zenon
<1>2. Join(s, t) \in Tokens /\ Len(Join(s, t)) = Len(s) + Len(t)
  BY JoinFacts, Zenon
<1>3. Len(Join(Join(s, t), u)) = Len(Join(s, t)) + Len(u)
  BY <1>2, JoinFacts, Zenon
<1> QED  BY <1>1, <1>2, <1>3, Zenon

\* Joining is associative.
LEMMA JoinAssociative ==
    \A s, t, u \in Tokens : Join(Join(s, t), u) = Join(s, Join(t, u))
<1> SUFFICES ASSUME NEW s \in Seq(Token), NEW t \in Seq(Token), NEW u \in Seq(Token)
             PROVE  (s \o t) \o u = s \o (t \o u)
  BY Zenon DEF Tokens, Join
<1> QED  BY ConcatAssociative

\* The first token of one sequence, put at the end of another.
LEMMA MoveToken ==
    ASSUME NEW s \in Tokens, NEW t \in Tokens, t # <<>>
    PROVE  /\ Head(t) \in Token /\ Tail(t) \in Tokens /\ <<Head(t)>> \in Tokens
           /\ Append(s, Head(t)) \in Tokens
           /\ Append(s, Head(t)) = Join(s, <<Head(t)>>)
           /\ Join(Append(s, Head(t)), Tail(t)) = Join(s, t)
<1> USE DEF Tokens, Join
<1>1. /\ Head(t) \in Token /\ Tail(t) \in Seq(Token)
      /\ Len(Tail(t)) = Len(t) - 1
      /\ \A i \in 1..Len(Tail(t)) : Tail(t)[i] = t[i + 1]
      /\ Head(t) = t[1] /\ Len(t) \in Nat \ {0}
  BY HeadTailProperties, EmptySeq, LenProperties
<1>2. /\ Append(s, Head(t)) \in Seq(Token)
      /\ Len(Append(s, Head(t))) = Len(s) + 1
      /\ \A i \in 1..Len(s) : Append(s, Head(t))[i] = s[i]
      /\ Append(s, Head(t))[Len(s) + 1] = Head(t)
  BY <1>1, AppendProperties
<1>3. Append(s, Head(t)) \o Tail(t) \in Seq(Token) /\ s \o t \in Seq(Token)
  BY <1>1, <1>2, ConcatProperties, Zenon
<1>4. Len(Append(s, Head(t)) \o Tail(t)) = Len(s \o t)
  BY <1>1, <1>2, LenProperties, ConcatProperties
<1>5. \A i \in 1..Len(s \o t) : (Append(s, Head(t)) \o Tail(t))[i] = (s \o t)[i]
  BY <1>1, <1>2, LenProperties, ConcatProperties
<1>6. Append(s, Head(t)) \o Tail(t) = s \o t
  BY <1>3, <1>4, <1>5, SeqEqual, Zenon
<1>7. Append(s, Head(t)) = s \o <<Head(t)>>
  BY <1>1, AppendIsConcat, Zenon
<1> QED  BY <1>1, <1>2, <1>6, <1>7

-----------------------------------------------------------------------------
(***************************************************************************)
(* The invariant is inductive.                                             *)
(***************************************************************************)

\* Programs have the fields the model reads.
LEMMA ProgramFields ==
    ASSUME NEW p \in Programs
    PROVE  /\ p.kind \in {"missing", "noexec", "runs"}
           /\ p.reads \in BOOLEAN /\ p.echoes \in BOOLEAN /\ p.answer \in Tokens
  BY ProgramAssumption, Zenon DEF Tokens

\* A child that has put out nothing left nothing anywhere.
LEMMA AllEmpty ==
    ASSUME ExoTypeOK, Produced = <<>>
    PROVE  procOut = <<>> /\ stdout = <<>> /\ out = <<>>
<1>1. procOut \in Tokens /\ stdout \in Tokens /\ out \in Tokens
  BY Zenon DEF ExoTypeOK
<1>2. /\ Len(procOut) \in Nat /\ Len(stdout) \in Nat /\ Len(out) \in Nat
      /\ Len(Produced) = Len(procOut) + Len(stdout) + Len(out)
  BY <1>1, LenThree, Zenon DEF Produced
<1>3. Len(Produced) = 0
  BY JoinFacts, Zenon
<1>4. Len(procOut) = 0 /\ Len(stdout) = 0 /\ Len(out) = 0
  BY <1>2, <1>3
<1> QED  BY <1>1, <1>4, JoinFacts

\* It holds before the first call.
LEMMA InitInv == ExoInit => ExoInv
<1> SUFFICES ASSUME ExoInit PROVE ExoInv
  BY Zenon
<1>1. program \in Programs
  BY ProgramAssumption, Zenon DEF ExoInit
<1> QED
  BY <1>1, JoinFacts, Zenon DEF ExoInit, ExoInv, ExoTypeOK, InputConserved, ParentPlace, ChildPlace, Produced

\* A new call starts from empty pipes.
LEMMA ForkInv ==
    ASSUME ExoInv, NEW p \in Programs, NEW input \in Tokens, Fork(p, input)
    PROVE  ExoInv'
  BY JoinFacts, Zenon DEF Fork, ExoInv, ExoTypeOK, InputConserved, ParentPlace, ChildPlace, Produced

\* The prover's steps.
LEMMA ParentInv ==
    ASSUME ExoInv, ParentStep \/ ForkFails \/ Return
    PROVE  ExoInv'
<1> USE DEF ExoInv, ExoTypeOK, ParentPlace, ChildPlace
<1>1. CASE WriteInput
  <2>1. /\ to_write # <<>> /\ to_write' = Tail(to_write)
        /\ stdin' = Append(stdin, Head(to_write)) /\ got' = got
    BY <1>1, Zenon DEF WriteInput
  <2>2. /\ to_write' \in Tokens /\ stdin' \in Tokens
        /\ Join(stdin', to_write') = Join(stdin, to_write)
    BY <2>1, MoveToken, Zenon
  <2>3. InputConserved'
    BY <1>1, <2>1, <2>2, JoinAssociative DEF InputConserved, WriteInput
  <2> QED  BY <1>1, <2>2, <2>3, Zenon DEF WriteInput, Produced, Finished
<1>2. CASE BrokenPipe
  BY <1>2, Zenon DEF BrokenPipe, InputConserved, Produced, Finished
<1>3. CASE CloseInput
  BY <1>3, Zenon DEF CloseInput, InputConserved, Produced, Finished
<1>4. CASE ReadOutput
  <2>1. procOut' = Join(procOut, stdout) /\ stdout' = <<>> /\ procOut' \in Tokens
    BY <1>4, JoinFacts, Zenon DEF ReadOutput, Join
  <2>2. Produced' = Produced /\ Finished' = Finished
    BY <1>4, <2>1, JoinFacts, Zenon DEF ReadOutput, Produced, Finished
  <2>3. ExoTypeOK' /\ InputConserved'
    BY <1>4, <2>1, JoinFacts, Zenon DEF ReadOutput, InputConserved
  <2>4. ParentPlace' /\ ChildPlace'
    BY <1>4, <2>2, Zenon DEF ReadOutput
  <2> QED  BY <2>3, <2>4, Zenon
<1>5. CASE Return
  BY <1>5, Zenon DEF Return, InputConserved, Produced, Finished
<1>6. CASE ForkFails
  BY <1>6, Zenon DEF ForkFails, InputConserved, Produced, Finished
<1> QED  BY <1>1, <1>2, <1>3, <1>4, <1>5, <1>6, Zenon DEF ParentStep

\* The child's steps.
LEMMA ChildInv ==
    ASSUME ExoInv, ChildStep
    PROVE  ExoInv'
<1> USE DEF ExoInv, ExoTypeOK
<1>0. /\ program.kind \in {"missing", "noexec", "runs"} /\ program.reads \in BOOLEAN
      /\ program.echoes \in BOOLEAN /\ program.answer \in Tokens
  BY ProgramFields, Zenon
<1>1. CASE Start
  <2>1. procOut = <<>> /\ stdout = <<>> /\ got = <<>>
    BY <1>1, AllEmpty, Zenon DEF Start, ChildPlace
  <2>2. out' \in Tokens
    BY <1>0, <1>1, JoinFacts, ExcuseAssumption, Zenon DEF Start, Tokens
  <2>3. Produced' = out'
    BY <1>1, <2>1, <2>2, JoinFacts, Zenon DEF Start, Produced
  <2>4. ExoTypeOK' /\ InputConserved' /\ ParentPlace'
    BY <1>0, <1>1, <2>2, Zenon DEF Start, InputConserved, ParentPlace
  <2>5. ChildPlace'
    <3>1. CASE program.kind = "missing"
      BY <1>1, <2>3, <3>1, Zenon DEF Start, ChildPlace, Finished, Output
    <3>2. CASE program.kind = "noexec"
      BY <1>1, <2>3, <3>2, Zenon DEF Start, ChildPlace, Finished, Output
    <3>3. CASE program.kind = "runs" /\ program.reads
      BY <1>1, <2>1, <2>3, <3>3, Zenon DEF Start, ChildPlace, Finished, Output
    <3>4. CASE program.kind = "runs" /\ ~program.reads
      BY <1>1, <2>3, <3>4, Zenon DEF Start, ChildPlace, Finished, Output
    <3> QED  BY <1>0, <3>1, <3>2, <3>3, <3>4, Zenon
  <2> QED  BY <2>4, <2>5, Zenon
<1>2. CASE ChildReads
  <2>1. /\ stdin # <<>> /\ out = <<>> /\ child = "reading" /\ child' = "reading"
        /\ got' = Append(got, Head(stdin)) /\ stdin' = Tail(stdin)
        /\ out' = IF program.echoes THEN <<Head(stdin)>> ELSE <<>>
    BY <1>2, Zenon DEF ChildReads
  <2>2. /\ stdin' \in Tokens /\ got' \in Tokens /\ <<Head(stdin)>> \in Tokens
        /\ got' = Join(got, <<Head(stdin)>>)
        /\ Join(got', stdin') = Join(got, stdin)
    BY <2>1, MoveToken, Zenon
  <2>3. ExoTypeOK' /\ ParentPlace' /\ InputConserved'
    BY <1>2, <2>1, <2>2, JoinFacts, Zenon DEF ChildReads, ParentPlace, InputConserved
  <2>4. Produced' = IF program.echoes THEN got' ELSE <<>>
    <3>1. Join(procOut, stdout) = IF program.echoes THEN got ELSE <<>>
      BY <2>1, JoinFacts, Zenon DEF Produced, ChildPlace
    <3> QED  BY <1>2, <2>1, <2>2, <3>1, JoinFacts, Zenon DEF ChildReads, Produced
  <2>5. ChildPlace'
    BY <1>2, <2>1, <2>4, Zenon DEF ChildReads, ChildPlace
  <2> QED  BY <2>3, <2>5, Zenon
<1>3. CASE ChildEnds
  <2>1. /\ child = "reading" /\ child' = "last" /\ out = <<>> /\ stdin = <<>>
        /\ to_write = <<>> /\ out' = program.answer
    BY <1>3, Zenon DEF ChildEnds, ParentPlace
  <2>2. Join(procOut, stdout) = IF program.echoes THEN got ELSE <<>>
    BY <2>1, JoinFacts, Zenon DEF Produced, ChildPlace
  <2>3. got = procIn
    BY <2>1, JoinFacts, Zenon DEF InputConserved
  <2>4. Produced' = IF program.echoes THEN Join(procIn, program.answer) ELSE program.answer
    BY <1>0, <1>3, <2>1, <2>2, <2>3, JoinFacts, Zenon DEF ChildEnds, Produced
  <2>5. ChildPlace'
    BY <1>3, <2>1, <2>3, <2>4, Zenon DEF ChildEnds, ChildPlace, Finished, Output, Join
  <2> QED  BY <1>0, <1>3, <2>1, <2>5, Zenon DEF ChildEnds, InputConserved, ParentPlace
<1>4. CASE ChildWrites
  <2>1. out # <<>> /\ out' = Tail(out) /\ stdout' = Append(stdout, Head(out)) /\ procOut' = procOut
    BY <1>4, Zenon DEF ChildWrites
  <2>2. out' \in Tokens /\ stdout' \in Tokens /\ Join(stdout', out') = Join(stdout, out)
    BY <2>1, MoveToken, Zenon
  <2>3. Produced' = Produced
    BY <2>1, <2>2, JoinAssociative DEF Produced
  <2>4. child # "exited"
    BY <2>1, Zenon DEF ChildPlace
  <2>5. ChildPlace'
    BY <1>4, <2>3, <2>4, Zenon DEF ChildWrites, ChildPlace, Finished
  <2> QED  BY <1>4, <2>2, <2>4, <2>5, Zenon DEF ChildWrites, InputConserved, ParentPlace
<1>5. CASE ChildExits
  BY <1>5, Zenon DEF ChildExits, InputConserved, ParentPlace, ChildPlace, Produced, Finished
<1> QED  BY <1>1, <1>2, <1>3, <1>4, <1>5, Zenon DEF ChildStep

-----------------------------------------------------------------------------
(***************************************************************************)
(* The theorems.                                                           *)
(***************************************************************************)

\* The invariant holds in every behaviour of any sequence of calls.
THEOREM ExoInvariant == ExoSpec => []ExoInv
<1>1. ExoInv /\ [ExoNext]_exoVars => ExoInv'
  <2> SUFFICES ASSUME ExoInv, [ExoNext]_exoVars PROVE ExoInv'
    BY Zenon
  <2>1. CASE UNCHANGED exoVars
    BY <2>1, Zenon DEF exoVars, ExoInv, ExoTypeOK, InputConserved, ParentPlace, ChildPlace, Produced, Finished
  <2>2. CASE ExoNext
    BY <2>2, ForkInv, ParentInv, ChildInv, Zenon DEF ExoNext
  <2> QED  BY <2>1, <2>2, Zenon
<1> QED  BY <1>1, InitInv, PTL DEF ExoSpec

(***************************************************************************)
(* When execute_command returns it returns all that the program writes,    *)
(* whatever the capacity of the pipes, the input and the program.          *)
(***************************************************************************)
THEOREM NothingLost == ExoSpec => []AllExchanged
<1>1. ExoInv => AllExchanged
  <2> SUFFICES ASSUME ExoInv, parent = "done"
               PROVE  /\ procOut = Output(program, procIn)
                      /\ program.kind = "runs" /\ program.reads => got = procIn
    BY Zenon DEF AllExchanged
  <2>1. child = "exited" /\ stdout = <<>> /\ out = <<>> /\ Finished
    BY Zenon DEF ExoInv, ParentPlace, ChildPlace
  <2>2. Produced = procOut
    BY <2>1, JoinFacts, Zenon DEF ExoInv, ExoTypeOK, Produced
  <2> QED  BY <2>1, <2>2, Zenon DEF Finished
<1> QED  BY <1>1, ExoInvariant, PTL

(***************************************************************************)
(* The prover and the program wait for each other only with more input     *)
(* than a pipe holds, and a program that writes before it has read it.     *)
(***************************************************************************)
THEOREM HangOnlyWhenFull == ExoSpec => []HangNeedsFullPipes
<1>1. ExoInv => HangNeedsFullPipes
  <2> SUFFICES ASSUME ExoInv, Hang
               PROVE  /\ program.kind = "runs" /\ (program.reads => program.echoes)
                      /\ Len(procIn) > (IF program.reads THEN 2 * PIPE + 1 ELSE PIPE)
    BY Zenon DEF HangNeedsFullPipes
  <2> USE DEF ExoInv, ExoTypeOK
  <2>1. /\ program.kind \in {"missing", "noexec", "runs"} /\ program.reads \in BOOLEAN
        /\ program.echoes \in BOOLEAN
    BY ProgramFields, Zenon
  <2>2. PIPE \in Nat \ {0}
    BY PipeAssumption, Zenon
  <2>3. /\ parent = "write" /\ to_write # <<>> /\ child # "exited" /\ Len(stdin) = PIPE
        /\ out # <<>> /\ Len(stdout) = PIPE
    BY <2>2, JoinFacts, Zenon DEF Hang, ParentPlace
  <2>4. /\ Len(procIn) = Len(got) + PIPE + Len(to_write)
        /\ Len(got) \in Nat /\ Len(to_write) \in Nat \ {0}
    <3>1. Len(procIn) = Len(got) + Len(stdin) + Len(to_write) /\ Len(got) \in Nat /\ Len(to_write) \in Nat
      BY LenThree DEF InputConserved
    <3> QED  BY <2>3, <3>1, JoinFacts
  <2>5. Len(Produced) = PIPE + Len(out) /\ Len(out) \in Nat \ {0}
    <3>1. procOut = <<>>
      BY <2>3, Zenon DEF ParentPlace
    <3>2. Len(Produced) = Len(procOut) + Len(stdout) + Len(out) /\ Len(out) \in Nat
      BY LenThree DEF Produced
    <3> QED  BY <2>2, <2>3, <3>1, <3>2, JoinFacts
  <2>6. CASE child = "starting"
    BY <2>3, <2>6, AllEmpty, Zenon DEF ChildPlace
  <2>7. CASE child = "reading"
    <3>1. program.kind = "runs" /\ program.reads /\ program.echoes /\ Produced = got
      BY <2>1, <2>3, <2>7, AllEmpty, Zenon DEF ChildPlace
    <3> QED  BY <2>2, <2>4, <2>5, <3>1
  <2>8. CASE child = "last"
    <3>1. Produced = Output(program, procIn) /\ (program.kind = "runs" /\ program.reads => got = procIn)
      BY <2>8, Zenon DEF ChildPlace, Finished
    <3>2. program.kind = "runs"
      <4>1. program.kind # "missing"
        BY <2>3, <3>1, AllEmpty, Zenon DEF Output
      <4>2. program.kind # "noexec"
        <5> SUFFICES ASSUME program.kind = "noexec" PROVE FALSE
          BY Zenon
        <5>1. Produced = Excuse
          BY <3>1, Zenon DEF Output
        <5>2. Len(Excuse) \in Nat /\ Len(Excuse) <= PIPE
          BY ExcuseAssumption, LenProperties, Zenon
        <5> HIDE DEF ExoInv, ExoTypeOK
        <5> QED  BY <2>2, <2>5, <5>1, <5>2
      <4> QED  BY <2>1, <4>1, <4>2, Zenon
    <3>3. ~program.reads
      BY <2>2, <2>4, <3>1, <3>2
    <3> QED  BY <2>2, <2>4, <3>2, <3>3
  <2> QED  BY <2>3, <2>6, <2>7, <2>8, Zenon
<1> QED  BY <1>1, ExoInvariant, PTL

=============================================================================
