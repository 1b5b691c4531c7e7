--------------------------- MODULE MCLoopFlatten ---------------------------
(***************************************************************************)
(* Programs: an annotated loop of each kind, with a body of up to three of *)
(* the statements below.                                                   *)
(***************************************************************************)
EXTENDS LoopFlatten

C(a) == [a |-> a]
Jumps == {If(C("b"), Block(<<Break>>)), If(C("b"), Continue),
          If(C("p"), Block(<<If(C("b"), Block(<<Stmt("r"), Continue>>)), Stmt("q")>>)),
          If(C("p"), Block(<<If(C("b"), Block(<<Break>>)), If(C("d"), Block(<<Continue>>)), Stmt("q")>>)),
          IfElse(C("b"), Block(<<Break>>), Stmt("q")),
          IfElse(C("p"), Block(<<If(C("b"), Block(<<Continue>>)), Stmt("q")>>), Break)}
Inner == {While(C("w"), Block(<<Stmt("v"), If(C("y"), Block(<<Break>>)), Stmt("z")>>)),
          Do(Block(<<If(C("y"), Block(<<Continue>>)), Block(<<Stmt("z"), Stmt("v")>>)>>), C("w")),
          For(Stmt("i"), C("w"), Stmt("j"), If(C("y"), Break)),
          While(C("w"), Do(Stmt("z"), C("x"))),
          Fsm(2, While(C("w"), If(C("y"), Continue))),
          Fsm(0, Do(Block(<<Stmt("z"), If(C("y"), Break)>>), C("w"))),
          If(C("p"), While(C("w"), Block(<<Fsm(2, Do(If(C("y"), Break), C("x")))>>)))}
Items == Jumps \cup Inner

\* What the flattener does not handle.
Unhandled == {If(C("p"), Block(<<If(C("b"), Break), Stmt("q")>>)),
              If(C("p"), While(C("w"), Block(<<If(C("y"), Block(<<Break>>)), Stmt("z")>>)))}
Bodies ==
    {<<>>, <<Stmt("s")>>} \cup {<<x>> : x \in Items}
      \cup {<<Stmt("s"), x, Stmt("t")>> : x \in Items}
      \cup {<<x, Stmt("t"), y>> : x \in Items, y \in Items}
      \cup {<<x, Block(<<y, Stmt("u")>>)>> : x \in Jumps, y \in Inner}

SmallPrograms ==
    UNION {{Fsm(4, While(C("c"), Block(b))), Fsm(4, Do(Block(b), C("c"))),
            Fsm(4, For(Stmt("f"), C("c"), Stmt("g"), Block(b)))} : b \in Bodies}
      \cup {Fsm(4, While(C("c"), x)) : x \in Items \cup Unhandled}

=============================================================================
