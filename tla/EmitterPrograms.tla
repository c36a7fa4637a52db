---------------------------- MODULE EmitterPrograms ----------------------------
(***************************************************************************)
(* Programs for the emitter: every condition of two short-circuit          *)
(* operators over input, a global and constants, nested as the grammar     *)
(* nests them, in an if or a loop; every small statement inside ifs, loops *)
(* and blocks; programs of several functions; and programs with local      *)
(* variables.                                                              *)
(***************************************************************************)
EXTENDS SourcePrograms

---------------------------------------------------------------------------
Atoms == {In, One, Zero, Ref("a")}
Boths == {Both(l, r) : l \in Atoms, r \in Atoms}
Simple == Boths \union {Either(l, r) : l \in Atoms, r \in Atoms}
Deep == {Both(l, In) : l \in Boths} \union {Either(l, In) : l \in Simple}
          \union {Either(In, r) : r \in Boths}

Main(body) == InOrder(<<>>, Program(<<Decl("a", One)>>, NoFuncs, body))

Conditions ==
  {Main(<<Cond(e, Set("a", In)), Ret(Ref("a"))>>) : e \in Simple \union Deep}
    \union {Main(<<Loops(e, Set("a", In)), Ret(One)>>) : e \in Simple}
    \union {Main(<<CondElse(e, Do("getint"), Set("a", Zero)), Ret(Ref("a"))>>) : e \in Simple}

---------------------------------------------------------------------------
Leaves == {Stop, Skip, Ret(One), Set("a", In), Do("getint")}

Arms == Leaves
  \union {Cond(In, s) : s \in Leaves}
  \union {Cond(One, s) : s \in Leaves}
  \union {CondElse(In, s, t) : s \in Leaves, t \in Leaves}
  \union {Seqn(<<s, Set("a", One)>>) : s \in Leaves}
  \union {Loops(In, s) : s \in Leaves}

\* Statements in a loop, alone and followed by another.
Loopings ==
  {Main(<<Loops(Ref("a"), s), Ret(One)>>) : s \in Arms}
    \union {Main(<<Loops(In, Seqn(<<s, Set("a", Zero)>>)), Ret(Zero)>>) : s \in Arms}

\* Several functions: each begins with a block of its own, on the stack the
\* one before left.
Bodies == {<<Cond(In, Set("a", In)), Ret(One)>>, <<Loops(In, Stop), Ret(Ref("a"))>>,
           <<RetVoid>>, <<>>}

Units == {InOrder(<<"f", "g">>, Program(<<Decl("a", One)>>,
            [x \in {"f", "g"} |-> Fun("int", "", IF x = "f" THEN f ELSE g)],
            <<Do("f"), Cond(Do("g"), Do("f")), Ret(Do("g"))>>)) : f \in Bodies, g \in Bodies}

---------------------------------------------------------------------------
(* Local variables: x and y of main, p of f.                               *)

Local(body) == InOrder(<<"f">>, Program(<<Decl("a", One)>>,
  [f |-> Fun("int", "p", <<Cond(Both(Ref("p"), Ref("a")), Set("p", Zero)), Ret(Ref("p"))>>)], body))

Uses1 == {Set("a", Ref("x")), Set("x", Zero), Seqn(<<Set("x", In), Set("a", Ref("x"))>>),
          Set("x", Do1("f", Ref("x"))), Seqn(<<Decl("x", Zero), Set("a", Ref("x"))>>)}
Tests == {In, Ref("x"), Both(Ref("x"), In)}

\* x is used in an arm, after an if, in the one after it, and where two meet.
Locals ==
  {Local(<<Decl("x", In), Cond(t, s), r, CondElse(In, s, r), Ret(Ref("x"))>>) :
     t \in Tests, s \in Uses1, r \in Uses1}
    \union {Local(<<DeclOnly("y"), Decl("x", In), CondElse(t, Set("y", One), Set("y", Ref("x"))),
                    Cond(Both(In, Ref("y")), s), Ret(Ref("y"))>>) : t \in Tests, s \in Uses1}
    \union {Local(<<Decl("x", In), Loops(t, Seqn(<<s, Stop>>)), Ret(Ref("x"))>>) :
              t \in Tests, s \in {Set("x", Zero), Set("a", In)}}

\* A read that reaches an arm sealed before the branch into it was drawn.
UnlinkedPrograms ==
  {Local(<<Decl("x", In),
           Cond(In, Seqn(<<Cond(In, Set("a", In)), Set("a", Ref("x")), Cond(In, Set("a", In))>>)),
           Ret(One)>>)}

\* Loops in loops: their conditions read x before their bodies do.
Reads == Set("a", Ref("x"))
Inner == {Reads, Seqn(<<Reads, Stop>>), Seqn(<<Reads, Skip>>), Seqn(<<Set("x", In), Skip>>)}
Nested ==
  {Local(<<Decl("x", In), Loops(Ref("x"), Seqn(<<s, t>>)), Ret(Ref("x"))>>) :
     s \in Inner \union {Loops(Ref("x"), s) : s \in Inner},
     t \in {Reads, Skip, Cond(Ref("x"), Reads), Loops(Ref("x"), Reads)}}

\* The programs without local variables.
Globals == Conditions \union Loopings \union Units

Emissions == Globals \union Locals \union Nested \union UnlinkedPrograms

\* The arm of an if that leaves the function.
ArmPrograms == {Main(<<Cond(In, Ret(One)), Ret(Zero)>>)}

\* The body of a loop that reads a variable which the condition does not.
BodyPrograms == {Local(<<Decl("x", In), Loops(In, Set("a", Ref("x"))), Ret(Ref("x"))>>)}
============================================================================
