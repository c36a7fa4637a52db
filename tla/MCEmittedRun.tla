----------------------------- MODULE MCEmittedRun -----------------------------
(***************************************************************************)
(* Programs to emit, and programs to emit and run.  Those that are run     *)
(* have no && or || whose left side is not known when compiling, no loop   *)
(* that goes round twice, no break, continue or return in the arm of an if *)
(* or in a loop, no local variable read in another block than the one it   *)
(* was written in, and none that hides another local one.  LoopPrograms    *)
(* are the smallest that loop, ArgumentPrograms those that evaluate an &&  *)
(* at run time and read elsewhere.                                         *)
(***************************************************************************)
EXTENDS EmittedRun, SourcePrograms

Wider == INSTANCE EmitterPrograms

\* Conditions: tests at run time, and constants that decide whether a test is
\* made.  (The grammar allows && and || in conditions only, || not under &&.)
Constant == {One, Zero}
Tests == {In, Ref("a"), Do("f"), One, Zero}
KnownBoths == {Both(Zero, In), Both(One, One), Both(One, Zero), Both(Zero, Do("f"))}
KnownEithers == {Either(One, Do("f")), Either(Zero, One), Either(Zero, Zero), Either(One, In)}
Guarded == {Both(l, r) : l \in Constant \union KnownBoths, r \in Tests}
             \union {Either(l, r) : l \in Constant \union KnownBoths \union KnownEithers, r \in Tests}
             \union {Either(l, Both(One, r)) : l \in Constant, r \in Tests}

Effects == {Set("a", In), Set("b", Ref("a")), Do("f"), Do("v"), Seqn(<<Set("a", Zero), Do("f")>>)}

Functions ==
  [f |-> Fun("int", "", <<Set("b", In), Cond(Ref("b"), Set("b", In)), Ret(Ref("b"))>>),
   v |-> Fun("void", "", <<Cond(In, Cond(Do("f"), Set("a", Ref("b")))), RetVoid>>)]

Main(body) ==
  InOrder(<<"f", "v">>, Program(<<Decl("a", One), Decl("b", Zero)>>, Functions, body))

\* Local variables, read in the block that wrote them: in the function's first
\* block, in arms, after a condition; one that hides a global for a while; one
\* name declared in block after block.  h hands its parameter on.
WithParams ==
  [g |-> Fun("int", "p", <<Set("b", Ref("p")), Set("p", In),
                           CondElse(Ref("p"), Set("b", In), Set("a", Zero)), Ret(Ref("b"))>>),
   h |-> Fun("int", "p", <<Decl("x", Do1("g", Ref("p"))), Ret(Ref("x"))>>)]

Scoped == {<<Decl("x", In), Set("a", Ref("x"))>>,
           <<Decl("a", In), Set("b", Ref("a"))>>,
           <<Set("b", Ref("a")), Decl("a", In), Set("a", Zero), Set("b", Ref("a"))>>,
           <<Decl("x", One), Set("x", Do1("g", Ref("x"))), Set("b", Ref("x"))>>,
           <<Cond(Do1("h", Zero), Set("b", In)), Decl("x", In), Seqn(<<Set("x", Zero)>>),
             Set("a", Ref("x"))>>}

LocalMain(body) ==
  InOrder(<<"g", "h">>, Program(<<Decl("a", One), Decl("b", Zero)>>, WithParams, body))

OwnBlock ==
  {LocalMain(s \o <<Ret(Ref("b"))>>) : s \in Scoped}
    \union {LocalMain(<<Seqn(s), Seqn(t), Ret(Ref("a"))>>) : s \in Scoped, t \in Scoped}
    \union {LocalMain(<<CondElse(In, Seqn(s), Set("a", In)), Set("b", Ref("a")),
                        Cond(Do1("h", In), Seqn(s)), Ret(Ref("a"))>>) : s \in Scoped}

RunPrograms ==
  {Main(<<CondElse(e, Set("a", In), Set("b", In)), Ret(Ref("a"))>>) : e \in Guarded}
    \union {Main(<<Cond(e, Cond(Ref("a"), Do("v"))), Ret(Ref("b"))>>) : e \in Guarded}
    \union {Main(<<Cond(In, s), CondElse(Ref("a"), Cond(In, t), s), Ret(Ref("b"))>>) :
              s \in Effects, t \in Effects}
    \union {Main(<<Loops(e, Seqn(<<s, Set("a", Zero)>>)), Ret(Ref("b"))>>) :
              e \in {Ref("a"), Ref("b"), Both(One, Ref("a")), Either(Zero, Ref("a"))}, s \in Effects}
    \union OwnBlock

PlainPrograms == RunPrograms \union Wider!Globals
MCPrograms == RunPrograms \union Wider!Emissions

\* A loop asks for its condition again after the body.
LoopPrograms == {Main(<<Loops(In, Set("a", In)), Ret(Ref("a"))>>)}
\* The right side of an && is evaluated on the way to a block with a parameter,
\* and the arm reads a variable set before the if.
ArgumentPrograms ==
  {LocalMain(<<Decl("x", In), Cond(Both(In, In), Set("a", Ref("x"))), Ret(Ref("a"))>>)}

MCNodes == NodesOf(Programs)
============================================================================
