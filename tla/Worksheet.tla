----------------------------- MODULE Worksheet -----------------------------
(***************************************************************************)
(* The prover's worksheet.  For every line of the program's arithmetic the *)
(* back end (compiler/backend/zcc_parser.py) writes constraints over a     *)
(* prime field, and gates of a worksheet from which the prover             *)
(* (pepper/libv/computation_p.cpp) computes with rationals a witness of    *)
(* those constraints.  The two are written by different functions, and run *)
(* by different programs; here they meet.  Exogenous computations and      *)
(* external gadgets are run through ExoCommand.                            *)
(***************************************************************************)
EXTENDS ExoCommand, SequencesExt, FiniteSetsExt, TLC

CONSTANTS
    prime,      \* the order of the field
    Sheets      \* programs: [inputs |-> operands, lines |-> lines]

VARIABLES
    sheet,      \* the program that runs
    pws,        \* its worksheet
    pc,         \* the next gate
    vals        \* the values of F1_q, input_q and output_q set so far

vars == <<sheet, pws, pc, vals, exoVars>>

-----------------------------------------------------------------------------
(***************************************************************************)
(* Rationals in lowest terms (mpq_t), and their field elements.            *)
(***************************************************************************)
Abs(z) == IF z < 0 THEN -z ELSE z
Sgn(z) == IF z < 0 THEN -1 ELSE IF z = 0 THEN 0 ELSE 1

RECURSIVE Gcd(_, _)
Gcd(a, b) == IF b = 0 THEN a ELSE Gcd(b, a % b)

Rat(n, d) == LET g == Gcd(Abs(n), Abs(d)) * Sgn(d)
             IN [n |-> Sgn(g) * Sgn(n) * (Abs(n) \div Abs(g)), d |-> Abs(d) \div Abs(g)]
Int1(z)  == [n |-> z, d |-> 1]
Zero     == Int1(0)
One      == Int1(1)
Plus(x, y)  == Rat(x.n * y.d + y.n * x.d, x.d * y.d)
Neg(x)      == [x EXCEPT !.n = -@]
Minus(x, y) == Plus(x, Neg(y))
Times(x, y) == Rat(x.n * y.n, x.d * y.d)
Less(x, y)  == x.n * y.d < y.n * x.d

\* Division that truncates towards zero (mpz_tdiv).
Quot(a, b) == Sgn(a) * Sgn(b) * (Abs(a) \div Abs(b))
Bit(z, i)  == Sgn(z) * ((Abs(z) \div 2^i) % 2)

\* mpz_invert, which leaves its result alone where there is no inverse.
Invert(z) == IF z % prime = 0 THEN 0 ELSE CHOOSE m \in 1..prime-1 : (z * m) % prime = 1

convert_to_z(x) == (x.n * Invert(x.d)) % prime

-----------------------------------------------------------------------------
(***************************************************************************)
(* Operands: variables with the type the front end gave them, and integer  *)
(* constants.  A name is a sequence of strings: aux(t, "Mlt") is t$Mlt.    *)
(***************************************************************************)
Var(n, type, na, nb) == [n |-> n, c |-> 0, type |-> type, na |-> na, nb |-> nb]

CeilLog2(k) == CHOOSE e \in 0..k : 2^e >= k /\ (e = 0 \/ 2^(e - 1) < k)

Const(c) == [n |-> <<>>, c |-> c, type |-> "int", nb |-> 0,
             na |-> IF c = 0 THEN 2 ELSE CeilLog2(IF c < 0 THEN -c ELSE c + 1) + 1]
IsZero(x) == x.n = <<>> /\ x.c = 0

aux(t, name)    == Append(t, name)
auxs(t, name, i) == t \o <<name, ToString(i)>>

Get(v, n)  == IF n \in DOMAIN v THEN v[n] ELSE Zero
voc(v, x)  == IF x.n = <<>> THEN Int1(x.c) ELSE Get(v, x.n)

\* The values a type allows.
InType(x) ==
    CASE x.type = "uint"  -> {Int1(z) : z \in 0..2^x.na - 1}
      [] x.type = "int"   -> {Int1(z) : z \in -(2^(x.na - 1))..2^(x.na - 1) - 1}
      [] x.type = "float" -> {Rat(z, 2^k) : z \in 1 - 2^x.na..2^x.na - 1, k \in 0..x.nb}

\* Mutant: an unsigned operand is given no bit for the sign.
SignedDifferenceTight(x, y) ==
    [nb |-> Max({x.nb, y.nb}),
     na |-> Max({x.na, y.na}) + IF IsZero(x) \/ IsZero(y) THEN 0 ELSE Max({x.nb, y.nb}) + 1]

get_bits_signed_difference(x, y) ==
    LET adjusted(z) == z.na + IF z.type = "uint" THEN 1 ELSE 0
        nb == Max({x.nb, y.nb})
    IN [nb |-> nb,
        na |-> Max({adjusted(x), adjusted(y)}) + IF IsZero(x) \/ IsZero(y) THEN 0 ELSE nb + 1]

-----------------------------------------------------------------------------
(***************************************************************************)
(* The back end's lines.  A linear form is a sequence of terms [k, x].     *)
(***************************************************************************)
T(k, x) == [k |-> k, x |-> x]

PolyLine(a, b, c, k, y)  == [l |-> "poly", a |-> a, b |-> b, c |-> c, k |-> k, y |-> y]
LessLine(x1, x2, y)      == [l |-> "<", x1 |-> x1, x2 |-> x2, y |-> y]
NotEqLine(x1, x2, y)     == [l |-> "!=", x1 |-> x1, x2 |-> x2, y |-> y]
DivideLine(x1, op, x2, y) == [l |-> "divide", op |-> op, x1 |-> x1, x2 |-> x2, y |-> y]
SplitLine(l, x, bits, y) == [l |-> l, x |-> x, bits |-> bits, y |-> y]
ExoLine(ins, outs)       == [l |-> "exo", ins |-> ins, outs |-> outs]
GadgetLine(ins, outs)    == [l |-> "gadget", ins |-> ins, outs |-> outs]

\* The auxiliary variables of a division, with the types they are given.
Div(x1, x2, y) ==
    LET like(name, z) == Var(aux(y.n, name), "int", z.na + IF z.type = "uint" THEN 1 ELSE 0, 0)
        flag(name) == Var(aux(y.n, name), "uint", 1, 0)
        r == like("R", x2)
    IN [q |-> like("Q", x1), r |-> r, absr |-> like("Absr", r), absb |-> like("Absb", x2),
        bnon0 |-> flag("Bnon0"), rnon0 |-> flag("Rnon0"), rless0 |-> flag("Rless0"),
        bless0 |-> flag("Bless0"), aless0 |-> flag("Aless0"), qless0 |-> flag("Qless0"),
        absrlessabsb |-> flag("Absrlessabsb"), atbnon0 |-> like("ATBnon0", x1)]

\* The lines a division stands for, after its quotient and remainder.
DivideLines(x1, x2, y) ==
    LET d == Div(x1, x2, y)
    IN << NotEqLine(x2, Const(0), d.bnon0),
          LessLine(d.r, Const(0), d.rless0),
          NotEqLine(d.r, Const(0), d.rnon0),
          LessLine(x2, Const(0), d.bless0),
          LessLine(x1, Const(0), d.aless0),
          LessLine(d.q, Const(0), d.qless0),
          PolyLine(<<T(1, d.rless0)>>, <<T(-2, d.r)>>, <<T(1, d.r)>>, 1, d.absr),
          PolyLine(<<T(1, d.bless0)>>, <<T(-2, x2)>>, <<T(1, x2)>>, 1, d.absb),
          LessLine(d.absr, d.absb, d.absrlessabsb),
          PolyLine(<<T(1, d.bnon0)>>, <<T(1, x1)>>, <<>>, 1, d.atbnon0) >>

Chosen(line) == LET d == Div(line.x1, line.x2, line.y) IN IF line.op = "/" THEN d.q ELSE d.r

-----------------------------------------------------------------------------
(***************************************************************************)
(* The constraints: (a) * (b) + (c) = 0 in the field.                      *)
(***************************************************************************)
R1(a, b, c) == [a |-> a, b |-> b, c |-> c]
V(n) == Var(n, "int", 0, 0)
Powers(t, name, ks) == [i \in 1..Len(ks) |-> T(ks[i], V(auxs(t, name, i - 1)))]

\* n * (top - n) = 0
OneOf(n, top) == R1(<<T(1, V(n))>>, <<T(top, Const(1)), T(-1, V(n))>>, <<>>)
Booleans(ns) == [i \in 1..Len(ns) |-> OneOf(ns[i], 1)]

\* What the two kinds of "less than" share: exactly one case holds, and y is Mlt.
Cases(x1, x2, t, difference) ==
    LET m(name) == V(aux(t, name))
        if(name, form) == R1(<<T(1, m(name))>>, form, <<>>)
    IN Booleans(<<aux(t, "Mlt"), aux(t, "Meq"), aux(t, "Mgt")>>)
       \o << R1(<<>>, <<>>, <<T(1, m("Mlt")), T(1, m("Meq")), T(1, m("Mgt")), T(-1, Const(1))>>),
             if("Mlt", <<T(1, x1), T(-1, x2)>> \o difference),
             if("Meq", <<T(1, x1), T(-1, x2)>>),
             if("Mgt", <<T(1, x2), T(-1, x1)>> \o difference),
             R1(<<>>, <<>>, <<T(1, m("Mlt")), T(-1, V(t))>>) >>

less_than_as_basic_constraints_i(na, x1, x2, t) ==
    LET bits == Powers(t, "N", [i \in 1..na-1 |-> -1])
    IN [i \in 1..na-1 |-> OneOf(auxs(t, "N", i - 1), 2^(i - 1))]
       \o Cases(x1, x2, t, Append(bits, T(2^(na - 1), Const(1))))

less_than_as_basic_constraints_f(na, nb, x1, x2, t) ==
    LET N == V(aux(t, "N")) D == V(aux(t, "D")) ND == V(aux(t, "ND"))
    IN [i \in 1..na |-> OneOf(auxs(t, "N", i - 1), 2^(i - 1))]
       \o << R1(<<>>, <<>>, Powers(t, "N", [i \in 1..na |-> -1])
                            \o <<T(1, N), T(2^na, Const(1))>>) >>
       \o Booleans([i \in 1..nb+1 |-> auxs(t, "D", i - 1)])
       \o << R1(<<>>, <<>>, Append(Powers(t, "D", [i \in 1..nb+1 |-> -(2^(nb - i + 1))]),
                                   T(2^nb, D))),
             R1(<<>>, <<>>, Append(Powers(t, "D", [i \in 1..nb+1 |-> 1]), T(-1, Const(1)))),
             R1(<<T(1, N)>>, <<T(1, D)>>, <<T(-1, ND)>>) >>
       \o Cases(x1, x2, t, <<T(-1, ND)>>)

not_equal_as_basic_constraints(x1, x2, y) ==
    LET difference == <<T(1, x1), T(-1, x2)>>
    IN << R1(<<T(1, V(aux(y.n, "M")))>>, difference, <<T(-1, y)>>),
          R1(<<T(1, y)>>, difference, <<T(-1, x1), T(1, x2)>>) >>

\* split_int_le_as_basic_constraints and split_unsignedint_as_basic_constraints
split_as_basic_constraints(line) ==
    LET weight(i) == IF line.l = "SI" THEN 2^(line.bits - i)
                     ELSE IF i = line.bits /\ line.x.type = "int" THEN -(2^(i - 1))
                     ELSE 2^(i - 1)
    IN Booleans([i \in 1..line.bits |-> auxs(line.y, "", i - 1)])
       \o << R1(<<>>, <<>>, Append(Powers(line.y, "", [i \in 1..line.bits |-> weight(i)]),
                                   T(-1, line.x))) >>

RECURSIVE Constraints(_)
Constraints(line) ==
    CASE line.l = "poly" -> <<R1(line.a, line.b, Append(line.c, T(-line.k, line.y)))>>
      [] line.l = "<" ->
            LET w == get_bits_signed_difference(line.x1, line.x2)
            IN IF w.nb = 0
               THEN less_than_as_basic_constraints_i(w.na, line.x1, line.x2, line.y.n)
               ELSE less_than_as_basic_constraints_f(w.na, w.nb, line.x1, line.x2, line.y.n)
      [] line.l = "!=" -> not_equal_as_basic_constraints(line.x1, line.x2, line.y)
      [] line.l = "divide" ->       \* division_as_basic_constraints
            LET a == line.x1 b == line.x2 d == Div(a, b, line.y)
            IN FlattenSeq([i \in 1..10 |-> Constraints(DivideLines(a, b, line.y)[i])])
               \o << R1(<<T(1, b)>>, <<T(1, d.q)>>, <<T(1, d.r), T(-1, d.atbnon0)>>),
                     R1(<<T(1, d.bnon0)>>, <<T(1, Const(1)), T(-1, d.absrlessabsb)>>, <<>>),
                     R1(<<T(1, d.rnon0)>>, <<T(1, d.rless0), T(-1, d.aless0)>>, <<>>),
                     R1(<<>>, <<>>, <<T(1, Chosen(line)), T(-1, line.y)>>) >>
      [] line.l \in {"SI", "SIL"} -> split_as_basic_constraints(line)
      [] line.l \in {"exo", "gadget"} -> <<>>

-----------------------------------------------------------------------------
(***************************************************************************)
(* The worksheet's gates (generate_computation_line).                      *)
(***************************************************************************)
Op(op)  == [op |-> op, x |-> Const(0)]
Val(x)  == [op |-> "value", x |-> x]

\* A linear form as the tokens of a worksheet: x, - x, + k * x.
Text(form) ==
    FlattenSeq([i \in 1..Len(form) |->
        LET x == Val(form[i].x)
        IN CASE form[i].k = 1  -> IF i = 1 THEN <<x>> ELSE <<Op("+"), x>>
             [] form[i].k = -1 -> <<Op("-"), x>>
             [] OTHER -> (IF i = 1 THEN <<>> ELSE <<Op("+")>>)
                         \o <<Val(Const(form[i].k)), Op("*"), x>>])
In(form) == <<Op("(")>> \o Text(form) \o <<Op(")")>>

generate_computation_poly(line) ==
    LET product == IF line.a = <<>> THEN <<>> ELSE In(line.a) \o <<Op("*")>> \o In(line.b)
        plus == IF line.a = <<>> \/ line.c = <<>> THEN <<>> ELSE <<Op("+")>>
    IN [g |-> "P", y |-> line.y, poly |-> product \o plus \o Text(line.c) \o <<Op("E")>>]

Binary(g, y, x1, x2) == [g |-> g, y |-> y, x1 |-> x1, x2 |-> x2]

generate_computation_less(x1, x2, y) ==
    LET w == get_bits_signed_difference(x1, x2)
    IN [g |-> IF w.nb = 0 THEN "<I" ELSE "<F", na |-> w.na, nb |-> w.nb,
        x1 |-> x1, x2 |-> x2, y |-> y]

RECURSIVE Gates(_)
Gates(line) ==
    CASE line.l = "poly" ->
            <<generate_computation_poly(line)>>
            \o IF line.k = 1 THEN <<>> ELSE <<Binary("/", line.y, line.y, Const(line.k))>>
      [] line.l = "<"  -> <<generate_computation_less(line.x1, line.x2, line.y)>>
      [] line.l = "!=" -> <<Binary("!=", line.y, line.x1, line.x2)>>
      [] line.l = "divide" ->       \* generate_computation_divide
            LET d == Div(line.x1, line.x2, line.y)
                ls == DivideLines(line.x1, line.x2, line.y)
                    \o <<PolyLine(<<>>, <<>>, <<T(1, Chosen(line))>>, 1, line.y)>>
            IN << Binary("/I", d.q, line.x1, line.x2), Binary("%I", d.r, line.x1, line.x2) >>
               \o FlattenSeq([i \in 1..Len(ls) |-> Gates(ls[i])])
      [] line.l \in {"SI", "SIL"} ->
            <<[g |-> line.l, x |-> line.x, bits |-> line.bits, y |-> line.y]>>
      [] line.l \in {"exo", "gadget"} ->
            <<[g |-> line.l, ins |-> line.ins, outs |-> line.outs]>>

PWS(lines) == FlattenSeq([i \in 1..Len(lines) |-> Gates(lines[i])])

-----------------------------------------------------------------------------
(***************************************************************************)
(* The prover's gates.  Each returns the values it sets.                   *)
(***************************************************************************)
EmptyPoly(at) == [poly |-> Zero, term |-> Zero, hasFactors |-> FALSE, negate |-> FALSE, at |-> at]

\* "Emit last term, if necessary"
Emit(s) ==
    IF ~s.hasFactors THEN s
    ELSE [s EXCEPT !.poly = Plus(@, IF s.negate THEN Neg(s.term) ELSE s.term),
                   !.hasFactors = FALSE, !.negate = FALSE]

Factor(s, x) ==
    [s EXCEPT !.term = IF s.hasFactors THEN Times(@, x) ELSE x, !.hasFactors = TRUE]

RECURSIVE compute_poly(_, _, _)
compute_poly(v, toks, before) ==
    LET tok == toks[before.at]
        s == [(IF tok.op \in {"+", "-"} THEN Emit(before) ELSE before) EXCEPT !.at = @ + 1]
    IN CASE tok.op = "(" ->
              LET sub == compute_poly(v, toks, EmptyPoly(s.at))
              IN compute_poly(v, toks, [Factor(s, sub.poly) EXCEPT !.at = sub.at])
         [] tok.op \in {")", "E"} -> Emit(s)
         [] tok.op \in {"+", "*"} -> compute_poly(v, toks, s)
         [] tok.op = "-" -> compute_poly(v, toks, [s EXCEPT !.negate = ~@])
         [] tok.op = "value" -> compute_poly(v, toks, Factor(s, voc(v, tok.x)))

Bits(t, name, count, f(_)) ==
    [n \in {auxs(t, name, i) : i \in 0..count-1} |->
        f(CHOOSE i \in 0..count-1 : n = auxs(t, name, i))]

\* Mlt, Meq, Mgt and Y.
Compared(a, b, t) ==
    LET is(c) == IF c THEN One ELSE Zero
    IN (aux(t, "Mlt") :> is(Less(a, b))) @@ (aux(t, "Meq") :> is(a = b))
       @@ (aux(t, "Mgt") :> is(Less(b, a))) @@ (t :> is(Less(a, b)))

compute_less_than_int(v, g) ==
    LET a == voc(v, g.x1) b == voc(v, g.x2) t == g.y.n
        difference == IF Less(b, a) THEN Minus(b, a) ELSE Minus(a, b)
        bit(i) == Int1(2^i * Bit(2^(g.na - 1) + difference.n, i))
    IN Compared(a, b, t) @@ Bits(t, "N", g.na - 1, bit)

compute_less_than_float(v, g) ==
    LET a == voc(v, g.x1) b == voc(v, g.x2) t == g.y.n
        difference == IF a = b THEN Int1(-1)
                      ELSE IF Less(a, b) THEN Minus(a, b) ELSE Minus(b, a)
        n(i) == Int1(2^i * Bit(2^g.na + difference.n, i))
        d(i) == Int1(Bit(difference.d, i))
    IN Compared(a, b, t)
       @@ (aux(t, "N") :> Int1(difference.n)) @@ (aux(t, "D") :> Rat(1, difference.d))
       @@ (aux(t, "ND") :> difference)
       @@ Bits(t, "N", g.na, n) @@ Bits(t, "D", g.nb + 1, d)

not_equals(v, g) ==
    LET a == voc(v, g.x1) b == voc(v, g.x2) M == aux(g.y.n, "M")
        difference == Minus(a, b)
    IN IF a = b THEN (M :> Zero) @@ (g.y.n :> Zero)
       ELSE (M :> Int1(Invert(difference.n) * difference.d)) @@ (g.y.n :> One)

\* "/", "/I" and "%I" set nothing when the divisor is zero.
binary_operation(v, g) ==
    LET a == voc(v, g.x1) b == voc(v, g.x2)
    IN IF b.n = 0 THEN <<>>
       ELSE g.y.n :> CASE g.g = "/"  -> Rat(a.n * b.d, a.d * b.n)
                       [] g.g = "/I" -> Int1(Quot(a.n, b.n))
                       [] g.g = "%I" -> Int1(a.n - b.n * Quot(a.n, b.n))

compute_split_unsignedint(v, g) ==
    LET z == voc(v, g.x).n
        bit(i) == Int1((z \div 2^(g.bits - i - 1)) % 2)
    IN Bits(g.y, "", g.bits, bit)

compute_split_int_le(v, g) ==
    LET z == voc(v, g.x).n
        temp == IF z < 0 THEN z + 2^g.bits ELSE z
        bit(i) == IF i = g.bits - 1 /\ g.x.type = "int" THEN IF z < 0 THEN One ELSE Zero
                  ELSE Int1(Bit(temp, i))
    IN Bits(g.y, "", g.bits, bit)

Computed(v, g) ==
    CASE g.g = "P"   -> g.y.n :> compute_poly(v, g.poly, EmptyPoly(1)).poly
      [] g.g = "<I"  -> compute_less_than_int(v, g)
      [] g.g = "<F"  -> compute_less_than_float(v, g)
      [] g.g = "!="  -> not_equals(v, g)
      [] g.g \in {"/", "/I", "%I"} -> binary_operation(v, g)
      [] g.g = "SI"  -> compute_split_unsignedint(v, g)
      [] g.g = "SIL" -> compute_split_int_le(v, g)

-----------------------------------------------------------------------------
(***************************************************************************)
(* Exogenous computations and gadgets: the tokens they exchange with the   *)
(* programs, and what becomes of the answer.                               *)
(***************************************************************************)
Num(x)  == [w |-> "number", x |-> x]     \* n/d, which mpq_set_str reads
Frac(x) == [w |-> "fraction", x |-> x]   \* n%d, which it does not
Word(w) == [w |-> w, x |-> Zero]

\* A gadget is sent numbers; an exogenous computation, lists of fractions.
Input(v, g) ==
    LET fractions(xs) == [i \in 1..Len(xs) |-> Frac(voc(v, xs[i]))]
    IN IF g.g = "gadget" THEN [i \in 1..Len(g.ins) |-> Num(voc(v, g.ins[i]))]
       ELSE FlattenSeq([i \in 1..Len(g.ins) |->
                <<Word("[")>> \o fractions(g.ins[i]) \o <<Word("]")>>])

\* Mutant: what is not a number is skipped, and the next token taken for it.
AssignedSkipping(toks, outs) ==
    LET ns == SelectSeq(toks, LAMBDA t : t.w = "number")
        some == 1..Min({Len(ns), Len(outs)})
    IN [n \in {outs[i] : i \in some} |-> ns[CHOOSE i \in some : outs[i] = n].x]

\* Tokens for outputs, in order, as far as there are both; a token that is not
\* a number sets nothing.
Assigned(toks, outs) ==
    LET some == {i \in 1..Min({Len(toks), Len(outs)}) : toks[i].w = "number"}
    IN [n \in {outs[i] : i \in some} |-> toks[CHOOSE i \in some : outs[i] = n].x]

\* The assertions of compute_ext_gadget: the gadget repeats its inputs and
\* gives every output, and no more.  (With fewer tokens than inputs it compares
\* with what lies behind the last token, and is taken to fail there as well.)
GadgetAgrees(v, g, toks) ==
    /\ Len(toks) = Len(g.ins) + Len(g.outs)
    /\ \A i \in 1..Len(g.ins) : toks[i] = Num(voc(v, g.ins[i]))
-----------------------------------------------------------------------------
(***************************************************************************)
(* compute_from_pws, a gate at a time.                                     *)
(***************************************************************************)
Gate == pws[pc]
External == Gate.g \in {"exo", "gadget"}

Init ==
    /\ sheet \in Sheets
    /\ pws = PWS(sheet.lines)
    /\ pc = 1
    /\ vals \in {v \in [{sheet.inputs[i].n : i \in 1..Len(sheet.inputs)} ->
                           UNION {InType(sheet.inputs[i]) : i \in 1..Len(sheet.inputs)}] :
                    \A i \in 1..Len(sheet.inputs) :
                        v[sheet.inputs[i].n] \in InType(sheet.inputs[i])}
    /\ ExoInit

Compute ==
    /\ parent = "idle" /\ pc <= Len(pws)
    /\ ~External
    /\ vals' = Computed(vals, Gate) @@ vals
    /\ pc' = pc + 1
    /\ UNCHANGED <<sheet, pws, exoVars>>

Launch(p) ==
    /\ parent = "idle" /\ pc <= Len(pws)
    /\ External
    /\ Fork(p, Input(vals, Gate))
    /\ UNCHANGED <<sheet, pws, pc, vals>>

LaunchFails ==
    /\ parent = "idle" /\ pc <= Len(pws)
    /\ External
    /\ ForkFails
    /\ UNCHANGED <<sheet, pws, pc, vals>>

\* The rest of compute_exo_compute and compute_ext_gadget.
TakeAnswer ==
    /\ parent = "done"
    /\ LET skip == IF Gate.g = "gadget" THEN Len(Gate.ins) ELSE 0
           agreed == Gate.g = "gadget" => GadgetAgrees(vals, Gate, procOut)
       IN /\ vals' = IF agreed
                     THEN Assigned(SubSeq(procOut, skip + 1, Len(procOut)), Gate.outs) @@ vals
                     ELSE vals
          /\ parent' = IF agreed THEN "idle" ELSE "ended"
          /\ pc' = IF agreed THEN pc + 1 ELSE pc
    /\ UNCHANGED <<sheet, pws, program, procIn, to_write, stdin, eof, child, got, out, stdout, procOut>>

Prover == ParentStep /\ UNCHANGED <<sheet, pws, pc, vals>>
Program == ChildStep /\ UNCHANGED <<sheet, pws, pc, vals>>

Next ==
    \/ Compute \/ (\E p \in Programs : Launch(p)) \/ LaunchFails \/ TakeAnswer
    \/ Prover \/ Program

\* The operating system runs both processes.
Spec == Init /\ [][Next]_vars /\ WF_vars(Prover) /\ WF_vars(Program)

-----------------------------------------------------------------------------
(***************************************************************************)
(* Properties.                                                             *)
(***************************************************************************)
InField(form) ==
    FoldLeft(LAMBDA sum, t : (sum + t.k * convert_to_z(voc(vals, t.x))) % prime, 0, form)
Holds(c) == (InField(c.a) * InField(c.b) + InField(c.c)) % prime = 0

\* A quotient is an integer of the width its variable is declared with.
QuotientFits(line) ==
    line.l = "divide" =>
        LET q == Div(line.x1, line.x2, line.y).q IN voc(vals, q) \in InType(q)

(***************************************************************************)
(* For inputs of their types, the values the prover's gates compute over   *)
(* the rationals satisfy in the field every constraint the back end wrote  *)
(* for the same lines: the bits it allots to a difference hold it, at the  *)
(* ends of the types and for a divisor of zero, too.  Left out are         *)
(* divisions whose quotient is out of its type (the least number by -1),   *)
(* of which the comments in zcc_parser.py say "Not satisfiable if q is not *)
(* an N bit integer"; the lines generated for them do not rule them out.   *)
(***************************************************************************)
GatesSatisfied ==
    pc > Len(pws) =>
        \A i \in 1..Len(sheet.lines) :
            LET cs == Constraints(sheet.lines[i])
            IN QuotientFits(sheet.lines[i]) => \A j \in 1..Len(cs) : Holds(cs[j])

(***************************************************************************)
(* However the prover and the program interleave, a gate that is finished  *)
(* has set its outputs from the program's answer, position by position;    *)
(* an output without a number in its place stays zero.  A gadget that      *)
(* finishes has repeated its inputs.                                       *)
(***************************************************************************)
AdviceTaken ==
    \A k \in 1..pc-1 :
        LET g == pws[k]
            answer == Output(program, procIn)
            skip == IF g.g = "gadget" THEN Len(g.ins) ELSE 0
        IN g.g \in {"exo", "gadget"} =>
            /\ g.g = "gadget" => SubSeq(answer, 1, skip) = Input(vals, g)
            /\ \A i \in 1..Len(g.outs) :
                   Get(vals, g.outs[i]) =
                       IF skip + i <= Len(answer) /\ answer[skip + i].w = "number"
                       THEN answer[skip + i].x ELSE Zero

(***************************************************************************)
(* A program that is given no more input than the pipe holds, or that      *)
(* reads its input before it answers, makes execute_command return or the  *)
(* prover end.                                                             *)
(***************************************************************************)
EventuallyReturns ==
    parent = "write" /\ (Len(procIn) <= PIPE \/ program.kind = "missing"
                                             \/ (program.reads /\ ~program.echoes))
        ~> parent \in {"done", "ended"}

=============================================================================
