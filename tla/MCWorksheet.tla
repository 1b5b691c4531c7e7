---------------------------- MODULE MCWorksheet ----------------------------
(* Worksheets of the kinds of line the back end writes, over small types.  *)
EXTENDS Worksheet

x == <<"x">>
y == <<"y">>
z == <<"z">>
int(n)   == Var(n, "int", 4, 0)
uint(n)  == Var(n, "uint", 3, 0)
float(n) == Var(n, "float", 2, 2)
result(i) == Var(<<"r", ToString(i)>>, "int", 8, 0)

Pair(a, b) == {[inputs |-> <<a, b>>, lines |-> ls] : ls \in
    { <<LessLine(a, b, result(1)), NotEqLine(a, b, result(2))>>,
      \* 2 * r3 = (3 * a - b) * (a + b - 1) + a + b
      <<PolyLine(<<T(3, a), T(-1, b)>>, <<T(1, a), T(1, b), T(-1, Const(1))>>,
                 <<T(1, a), T(1, b)>>, 2, result(3)),
        PolyLine(<<>>, <<>>, <<T(-1, a), T(-2, b)>>, 1, result(4))>> }}

Divisions(a, b) == {[inputs |-> <<a, b>>, lines |-> <<DivideLine(a, op, b, result(1))>>] :
                       op \in {"/", "%"}}

Ends(a) == [inputs |-> <<a>>, lines |->
    <<LessLine(a, Const(0), result(1)), LessLine(Const(0), a, result(2)),
      NotEqLine(a, Const(-1), result(3))>>]

Splits == {[inputs |-> <<int(x)>>, lines |-> <<SplitLine("SIL", int(x), 4, <<"b">>)>>],
           [inputs |-> <<uint(x)>>, lines |->
               <<SplitLine("SIL", uint(x), 3, <<"b">>), SplitLine("SI", uint(x), 3, <<"c">>)>>]}

bit(n) == Var(n, "uint", 1, 0)
Advice == {
    [inputs |-> <<bit(x)>>, lines |->
        <<ExoLine(<< <<bit(x), Const(1)>>, <<bit(x), bit(x)>> >>, <<y, z>>),
          LessLine(int(y), int(z), result(1))>>],
    [inputs |-> <<bit(x)>>, lines |-> <<ExoLine(<< <<>> >>, <<y>>)>>],
    [inputs |-> <<bit(x)>>, lines |-> <<GadgetLine(<<bit(x)>>, <<y, z>>)>>] }

MCSheets ==
    Pair(int(x), int(y)) \union Pair(uint(x), int(y)) \union Pair(float(x), float(y))
    \union Pair(float(x), uint(y)) \union Pair(uint(x), uint(y))
    \union Divisions(int(x), int(y)) \union Divisions(uint(x), int(y))
    \union Divisions(int(x), Const(-1)) \union Divisions(uint(x), uint(y))
    \union {Ends(int(x)), Ends(uint(x)), Ends(float(x))} \union Splits \union Advice

MCToken == {Num(Int1(i)) : i \in -2..3} \union {Frac(Int1(i)) : i \in 0..1}
               \union {Word(w) : w \in {"[", "]", "ERROR:", "failed"}}
MCExcuse == <<Word("ERROR:"), Word("failed")>>

Runs(reads, echoes, answer) ==
    [kind |-> "runs", reads |-> reads, echoes |-> echoes, answer |-> answer]
MCPrograms ==
    {[Runs(FALSE, FALSE, <<>>) EXCEPT !.kind = k] : k \in {"missing", "noexec"}}
    \union {Runs(reads, FALSE, a) : reads \in BOOLEAN, a \in
               {<<>>, <<Num(One), Num(Int1(-2))>>, <<Word("failed"), Num(One), Num(Zero)>>}}
    \union {Runs(TRUE, TRUE, a) : a \in {<<>>, <<Num(One), Num(Int1(3))>>}}

=============================================================================
