---------------------------- MODULE LoopFlatten ----------------------------
(***************************************************************************)
(* The loop flattener of compiler/buffetfsm: a loop annotated with         *)
(* [[buffet::fsm(n)]] becomes a state machine inside one loop of n passes, *)
(* into which the loops nested in it are folded.                           *)
(*                                                                         *)
(* Programs are trees of statements.  The flattener maps a program to a    *)
(* program of the same language, with assignments to the variables state,  *)
(* breakGuard and count of the machine; both are run by the same rules.    *)
(* What a program does is its trace: the statements it executes and the    *)
(* conditions it tests, with their outcomes, which are left open.          *)
(***************************************************************************)
EXTENDS Integers, Sequences, SequencesExt, FiniteSets

CONSTANT Programs

-----------------------------------------------------------------------------
(***************************************************************************)
(* Statements.  A loop is while, do or for; the init and inc of a for are  *)
(* statements too.  fsm is a loop with the annotation.                     *)
(***************************************************************************)
Stmt(a) == [k |-> "stmt", a |-> a]
Break == [k |-> "break"]
Continue == [k |-> "continue"]
Block(body) == [k |-> "block", body |-> body]
IfElse(c, then, else) == [k |-> "if", c |-> c, then |-> then, else |-> else]
If(c, then) == IfElse(c, then, Block(<<>>))
While(c, body) == [k |-> "while", c |-> c, body |-> body]
Do(body, c) == [k |-> "do", c |-> c, body |-> body]
For(init, c, inc, body) == [k |-> "for", c |-> c, body |-> body, init |-> init, inc |-> inc]
Fsm(n, loop) == [k |-> "fsm", n |-> n, loop |-> loop]

\* Statements and conditions the flattener adds; m is the machine, whose
\* variables have names of their own (uniqueName).
Set(m, var, val) == [k |-> "set", m |-> m, var |-> var, val |-> val]
GoRound(m, val) == [k |-> "round", m |-> m, val |-> val]
Increment(m, var) == [k |-> "increment", m |-> m, var |-> var]
Test(c, yes, no) == [k |-> "test", c |-> c, yes |-> yes, no |-> no]
StateIs(m, val) == [m |-> m, var |-> "state", val |-> val]
Unguarded(m) == [m |-> m, var |-> "breakGuard", val |-> 0]
CountBelow(m, n) == [m |-> m, var |-> "count", val |-> n]

\* isLoopingEntity
IsLoop(S) == S.k \in {"while", "do", "for"}

-----------------------------------------------------------------------------
(***************************************************************************)
(* BreakContinueRewriteVisitor.                                            *)
(***************************************************************************)

\* needsRewrite
RECURSIVE NeedsRewrite(_)
NeedsRewrite(S) ==
    \/ S.k \in {"break", "continue"}
    \/ S.k = "if" /\ (NeedsRewrite(S.then) \/ NeedsRewrite(S.else))
    \/ S.k = "block" /\ \E i \in DOMAIN S.body : NeedsRewrite(S.body[i])
    \/ IsLoop(S) /\ NeedsRewrite(S.body)

\* Mutant: a continue is sent past the continue clause, like a break.
JumpToEnd(m, S, target) ==
    <<Set(m, "state", target), Set(m, "breakGuard", 1)>>

\* VisitContinueStmt and VisitBreakStmt: what the statement is replaced by.
\* The increment at the end of the state is still to come.
Jump(m, S, target) ==
    <<Set(m, "state", IF S.k = "continue" THEN target - 1 ELSE target), Set(m, "breakGuard", 1)>>

\* doRewrite: the statements that replace S.  The replacement is textual:
\* where S is the body of an if or else without braces, only its first
\* assignment stays under it.
RECURSIVE Rewrite(_, _, _), RewriteAll(_, _, _)
Rewrite(m, S, target) ==
    IF ~NeedsRewrite(S) THEN <<S>>
    ELSE IF S.k \in {"break", "continue"} THEN Jump(m, S, target)
    ELSE IF S.k = "block" THEN <<[S EXCEPT !.body = RewriteAll(m, @, target)]>>
    ELSE IF S.k = "if"
    THEN LET then == Rewrite(m, S.then, target)
             else == Rewrite(m, S.else, target)
         IN <<[S EXCEPT !.then = then[1], !.else = else[1]]>> \o Tail(then) \o Tail(else)
    ELSE LET new == Rewrite(m, S.body, target) IN <<[S EXCEPT !.body = new[1]]>> \o Tail(new)

\* TraverseCompoundStmt: what follows a break or continue is guarded.
RewriteAll(m, body, target) ==
    IF body = <<>> THEN <<>>
    ELSE LET rest == RewriteAll(m, Tail(body), target)
         IN Rewrite(m, Head(body), target) \o
            (IF NeedsRewrite(Head(body)) /\ rest # <<>> THEN <<If(Unguarded(m), Block(rest))>>
             ELSE rest)

-----------------------------------------------------------------------------
(***************************************************************************)
(* AttributedStmtVisitor.  The emitted text is a sequence of states, each  *)
(* an if on the state variable; cnt is stateCnt.                           *)
(***************************************************************************)

EndsState(S) == S.k = "block" \/ IsLoop(S)

\* Mutant: a break or continue does not end the state it is in.
RECURSIVE CountStatesMerged(_)
CountStatesMerged(S) ==
    LET opens(b, i) == ~EndsState(b[i]) /\ (i = 1 \/ EndsState(b[i - 1]))
        count(b, i) == IF EndsState(b[i]) THEN CountStatesMerged(b[i])
                       ELSE IF opens(b, i) THEN 1 ELSE 0
    IN IF IsLoop(S) THEN 2 + CountStatesMerged(S.body)
       ELSE IF S.k = "block"
       THEN FoldLeft(LAMBDA n, i : n + count(S.body, i), 0, [i \in DOMAIN S.body |-> i])
       ELSE 1

\* Statements that are neither loops nor blocks share a state up to the
\* first one with a break or continue.
RECURSIVE countStates(_)
countStates(S) ==
    LET closes(T) == EndsState(T) \/ NeedsRewrite(T)
        opens(b, i) == ~EndsState(b[i]) /\ (i = 1 \/ closes(b[i - 1]))
        count(b, i) == IF EndsState(b[i]) THEN countStates(b[i])
                       ELSE IF opens(b, i) THEN 1 ELSE 0
    IN IF IsLoop(S) THEN 2 + countStates(S.body)
       ELSE IF S.k = "block"
       THEN FoldLeft(LAMBDA n, i : n + count(S.body, i), 0, [i \in DOMAIN S.body |-> i])
       ELSE 1

State(m, n, code) == If(StateIs(m, n), Block(code))
Finished(m, n, code) == State(m, n, Append(code, Increment(m, "state")))
Cleared(m, n, code) == Finished(m, n, Append(code, Set(m, "breakGuard", 0)))

\* The state before the body.
FirstState(m, S, start, end) ==
    LET enter == Test(S.c, <<Increment(m, "state")>>, <<Set(m, "state", end)>>)
    IN CASE S.k = "do" -> Finished(m, start, <<>>)
         [] S.k = "while" -> State(m, start, <<enter>>)
         [] S.k = "for" -> State(m, start, <<S.init, enter>>)

\* The continue clause.
LastState(m, S, start, target) ==
    LET again == Test(S.c, <<GoRound(m, start + 1)>>, <<Increment(m, "state")>>)
    IN State(m, target, (IF S.k = "for" THEN <<S.inc>> ELSE <<>>) \o <<again>>)

\* Mutant: the continue clause is emitted before the body.
EmittedEarly(first, body, last) == <<first, last>> \o body

\* The order of the text is the order in which a pass looks at the states.
Emitted(first, body, last) == <<first>> \o body \o <<last>>

\* flattenDoLoop, flattenForLoop, flattenWhileLoop and flattenBody: the
\* states, the counter after them, and whether the assertions on it hold.
RECURSIVE flattenLoop(_, _, _), flattenCompoundStmt(_, _, _, _, _)
flattenLoop(m, S, cnt) ==
    LET target == cnt + countStates(S) - 1
        bare == IF NeedsRewrite(S.body)
                THEN Cleared(m, cnt + 1, Rewrite(m, S.body, target))
                ELSE Finished(m, cnt + 1, <<S.body>>)
        body == IF S.body.k = "block" THEN flattenCompoundStmt(m, S.body.body, cnt + 1, target, <<>>)
                ELSE IF IsLoop(S.body) THEN flattenLoop(m, S.body, cnt + 1)
                ELSE [code |-> <<bare>>, cnt |-> cnt + 2, agree |-> TRUE]
    IN [code |-> Emitted(FirstState(m, S, cnt, target + 1), body.code, LastState(m, S, cnt, target)),
        cnt |-> body.cnt + 1,
        agree |-> body.agree /\ body.cnt = target]

\* open is the code of the state that is not closed yet.
flattenCompoundStmt(m, body, cnt, target, open) ==
    LET S == Head(body)
        closed == IF open = <<>> THEN <<>> ELSE <<Finished(m, cnt - 1, open)>>
        child == IF IsLoop(S) THEN flattenLoop(m, S, cnt)
                 ELSE flattenCompoundStmt(m, S.body, cnt, target, <<>>)
        in == IF open = <<>> THEN cnt + 1 ELSE cnt
        jumps == <<Cleared(m, in - 1, open \o Rewrite(m, S, target))>>
        onward(c, o) == flattenCompoundStmt(m, Tail(body), c, target, o)
        after(code, agree, rest) == [rest EXCEPT !.code = code \o @, !.agree = agree /\ @]
    IN IF body = <<>> THEN [code |-> closed, cnt |-> cnt, agree |-> TRUE]
       ELSE IF EndsState(S) THEN after(closed \o child.code, child.agree, onward(child.cnt, <<>>))
       ELSE IF NeedsRewrite(S) THEN after(jumps, TRUE, onward(in, <<>>))
       ELSE onward(in, Append(open, S))

\* TraverseAttributedStmt: every annotated loop in S, inner loops first.
\* n = 0 leaves the loop alone.  m machines enclose S.
RECURSIVE Flattened(_, _)
Flattened(m, S) ==
    LET loop == Flattened(m + 1, S.loop)
        states == flattenLoop(m + 1, loop, 0)
        pass == Block(Append(states.code, Increment(m + 1, "count")))
    IN CASE S.k = "fsm" /\ S.n = 0 -> [k |-> "annotated", code |-> <<Flattened(m, S.loop)>>]
         [] S.k = "fsm" /\ S.n # 0 ->
              [k |-> "annotated",
               code |-> <<[k |-> "enter", m |-> m + 1, total |-> states.cnt, agree |-> states.agree],
                          While(CountBelow(m + 1, S.n), pass), [k |-> "leave", m |-> m + 1]>>]
         [] S.k = "if" -> [S EXCEPT !.then = Flattened(m, @), !.else = Flattened(m, @)]
         [] S.k = "block" -> [S EXCEPT !.body = [i \in DOMAIN @ |-> Flattened(m, @[i])]]
         [] IsLoop(S) -> [S EXCEPT !.body = Flattened(m, @)]
         [] OTHER -> S

-----------------------------------------------------------------------------
(***************************************************************************)
(* Runs.  cont is what is left to do; vars are the variables of the        *)
(* machines, with four that only the properties look at: total, its number *)
(* of states, and agree, whether the assertions on it held; rounds, how    *)
(* often a loop went round; cut, whether a machine used up its passes      *)
(* before the last state was done.                                         *)
(***************************************************************************)

Again(S) == [k |-> "again", loop |-> S]
Round(S) == Test(S.c, <<S.body, Again(S)>>, <<>>)

\* C's rules for one statement that does nothing to be seen.
Unfolded(S) ==
    CASE S.k = "block" -> S.body
      [] S.k = "if" -> <<Test(S.c, <<S.then>>, <<S.else>>)>>
      [] S.k = "while" -> <<Round(S)>>
      [] S.k = "for" -> <<S.init, Round(S)>>
      [] S.k = "do" -> <<S.body, Again(S)>>
      [] S.k = "again" -> (IF S.loop.k = "for" THEN <<S.loop.inc>> ELSE <<>>) \o <<Round(S.loop)>>
      [] S.k = "fsm" -> <<S.loop>>
      [] S.k = "annotated" -> S.code

\* The rest of the loop a break or continue is in is skipped.
Skipped(S, rest) ==
    LET clause == CHOOSE i \in DOMAIN rest : rest[i].k = "again" /\ \A j \in 1 .. i - 1 : rest[j].k # "again"
    IN SubSeq(rest, IF S.k = "break" THEN clause + 1 ELSE clause, Len(rest))

Holds(c, v) == IF c.var = "count" THEN v[c.m].count < c.val ELSE v[c.m][c.var] = c.val

Assigned(S, v) ==
    CASE S.k = "set" -> [v EXCEPT ![S.m][S.var] = S.val]
      [] S.k = "round" -> [v EXCEPT ![S.m].state = S.val, ![S.m].rounds = @ + 1]
      [] S.k = "increment" -> [v EXCEPT ![S.m][S.var] = @ + 1]
      [] S.k = "enter" -> [v EXCEPT ![S.m] = [state |-> 0, breakGuard |-> 0, count |-> 0,
                                              total |-> S.total, agree |-> S.agree, rounds |-> 0, cut |-> @.cut]]
      [] S.k = "leave" -> [v EXCEPT ![S.m].cut = @ \/ v[S.m].state # v[S.m].total]

Internal(c) == "m" \in DOMAIN c

\* One statement, or one test of a machine's variable, that is not seen.
Silent(run) ==
    LET S == Head(run.cont)
        rest == Tail(run.cont)
        go(cont) == [run EXCEPT !.cont = cont]
    IN CASE S.k = "test" -> go((IF Holds(S.c, run.vars) THEN S.yes ELSE S.no) \o rest)
         [] S.k \in {"break", "continue"} -> go(Skipped(S, rest))
         [] S.k \in {"set", "round", "increment", "enter", "leave"} ->
              [cont |-> rest, vars |-> Assigned(S, run.vars)]
         [] OTHER -> go(Unfolded(S) \o rest)

\* Up to the next thing to be seen, in at most 2^n statements.
RECURSIVE SettledWithin(_, _)
SettledWithin(n, run) ==
    IF run.cont = <<>> THEN run
    ELSE LET S == Head(run.cont)
         IN IF S.k = "stmt" \/ (S.k = "test" /\ ~Internal(S.c)) THEN run
            ELSE IF n = 0 THEN Silent(run)
            ELSE SettledWithin(n - 1, SettledWithin(n - 1, run))

\* MaxSilent: a visible step has fewer than 2^MaxSilent silent ones behind it.
MaxSilent == 10
Settled(cont, v) == SettledWithin(MaxSilent, [cont |-> cont, vars |-> v])

Idle == [state |-> 0, breakGuard |-> 0, count |-> 0, total |-> 0, agree |-> TRUE, rounds |-> 0, cut |-> FALSE]
Started(S) == Settled(<<S>>, [m \in 1 .. 2 |-> Idle])

\* One visible step: the statement S, or the test S with that outcome.
Stepped(run, outcome) ==
    LET S == Head(run.cont)
        next == IF S.k = "stmt" THEN <<>> ELSE IF outcome THEN S.yes ELSE S.no
    IN Settled(next \o Tail(run.cont), run.vars)

Seen(run) ==
    IF run.cont = <<>> THEN <<"end">>
    ELSE LET S == Head(run.cont) IN IF S.k = "stmt" THEN <<"stmt", S.a>> ELSE <<"test", S.c.a>>

VARIABLES
    program,    \* the annotated program
    machine,    \* the run of what the flattener made of it
    source,     \* the run of the program itself
    apart       \* the two did different things

vars == <<program, machine, source, apart>>

Init ==
    /\ program \in Programs
    /\ machine = Started(Flattened(0, program))
    /\ source = Started(program)
    /\ apart = (Seen(machine) # Seen(source))

\* Both programs take the step, for as long as they agree on what it is.
Step(outcome) ==
    /\ machine' = Stepped(machine, outcome)
    /\ source' = IF apart THEN source ELSE Stepped(source, outcome)
    /\ apart' = (apart \/ Seen(machine') # Seen(source'))
    /\ UNCHANGED program

Execute ==
    /\ machine.cont # <<>> /\ Head(machine.cont).k = "stmt"
    /\ Step(TRUE)

Evaluate(outcome) ==
    /\ machine.cont # <<>> /\ Head(machine.cont).k = "test"
    /\ Step(outcome)

Next == Execute \/ \E outcome \in BOOLEAN : Evaluate(outcome)

Spec == Init /\ [][Next]_vars

-----------------------------------------------------------------------------
(***************************************************************************)
(* Properties.                                                             *)
(***************************************************************************)

\* A jump that is the whole body of an if or else without braces.
RECURSIVE Spills(_)
Spills(S) ==
    \/ S.k = "if" /\ \E T \in {S.then, S.else} : T.k \in {"break", "continue"} \/ Spills(T)
    \/ S.k = "block" /\ \E i \in DOMAIN S.body : Spills(S.body[i])

\* An else needs braces before it when the jumps there are rewritten.
Braced(S) == S.else # Block(<<>>) => S.then.k = "block" \/ ~NeedsRewrite(S.then)

\* What the flattener handles: under an if, a loop without break and
\* continue, and braces around a jump that more statements or an else follow.
RECURSIVE Handled(_), HandledBelowIf(_)
Handled(S) ==
    /\ S.k = "block" => \A i \in DOMAIN S.body : Handled(S.body[i])
    /\ IsLoop(S) => Handled(S.body)
    /\ S.k = "fsm" => Handled(S.loop)
    /\ S.k = "if" => Braced(S) /\ HandledBelowIf(S.then) /\ HandledBelowIf(S.else)
HandledBelowIf(S) ==
    /\ S.k = "block" => \A i \in DOMAIN S.body :
                           HandledBelowIf(S.body[i]) /\ (Spills(S.body[i]) => i = Len(S.body))
    /\ IsLoop(S) => ~NeedsRewrite(S) /\ HandledBelowIf(S.body)
    /\ S.k = "fsm" => Handled(S.loop)
    /\ S.k = "if" => Braced(S) /\ HandledBelowIf(S.then) /\ HandledBelowIf(S.else)

(***************************************************************************)
(* "To fix this, we must rewrite breaks and continues in terms of the flat *)
(* state machine": whatever the conditions return, the flattened program   *)
(* does what the program does, in the same order, until a machine runs out *)
(* of passes.                                                              *)
(***************************************************************************)
SameTrace == Handled(program) /\ apart => \E m \in DOMAIN machine.vars : machine.vars[m].cut

(***************************************************************************)
(* "Number of states disagrees after flattening": countStates, which       *)
(* predicts the number of a loop's last state for the jumps to it, agrees  *)
(* with the states that flattenCompoundStmt then emits.                    *)
(***************************************************************************)
CountsAgree == \A m \in DOMAIN machine.vars : machine.vars[m].agree

(***************************************************************************)
(* The number in the annotation is enough when it is the number of times   *)
(* the loops go round, plus one: a pass ends with a machine that is done   *)
(* or a loop that has gone round since the pass before.                    *)
(***************************************************************************)
NoIdlePass ==
    \A m \in DOMAIN machine.vars :
        LET v == machine.vars[m]
        IN Handled(program) /\ ~apart => v.state = v.total \/ v.count <= v.rounds

=============================================================================
