----------------------------- MODULE MCInterpreter -----------------------------
(***************************************************************************)
(* Programs for the interpreter: every small loop body made of break,      *)
(* continue, return, assignments, ifs and blocks, alone and in a loop of   *)
(* its own or in a called function, and programs about names and calls.    *)
(***************************************************************************)
EXTENDS Interpreter, SourcePrograms, TLC

---------------------------------------------------------------------------
Leaves == {Stop, Skip, Ret(One), Set("a", In)}

Arms == Leaves
  \union {Cond(In, s) : s \in Leaves}
  \union {CondElse(In, s, t) : s \in Leaves, t \in Leaves}
  \union {Seqn(<<Decl("a", One), s>>) : s \in Leaves}

Bodies == {Seqn(<<s, t>>) : s \in Arms, t \in {Skip, Set("a", Zero)}} \union Arms

ControlPrograms ==
  LET a == <<Decl("a", One)>>
      in_main(s) == Program(a, NoFuncs, <<Loops(In, s), Ret(Ref("a"))>>)
      nested(s)  == Program(a, NoFuncs,
                      <<Loops(Ref("a"), Seqn(<<Loops(In, s), Set("a", In), Stop>>)), Ret(Zero)>>)
      called(s)  == Program(a, "f" :> Fun("int", "p", <<Loops(Ref("p"), s), Ret(Ref("a"))>>),
                      <<Loops(Do1("f", In), Skip), Ret(Ref("a"))>>)
  IN  {in_main(s) : s \in Bodies} \union {nested(s) : s \in Bodies}
        \union {called(s) : s \in Bodies}

\* A function sees the global, not the caller's variable of the same name.
Scopes == Program(<<Decl("a", One)>>,
  "f" :> Fun("void", "", <<Set("a", Zero), RetVoid>>),
  <<Decl("a", In), Do("f"), Ret(Ref("a"))>>)

\* Blocks and loop bodies declare their own variable at each entry.
Shadows == Program(<<Decl("a", Zero)>>, NoFuncs,
  <<Set("a", In), Decl("a", In),
    Seqn(<<Decl("a", Ref("a")), Set("a", In)>>),
    Loops(Ref("a"), Seqn(<<Set("a", In), Decl("a", Ref("a")), Set("a", Zero)>>)),
    Ret(Ref("a"))>>)

\* Recursion: every call has its own parameter.
Recursion == Program(<<>>,
  "f" :> Fun("int", "p", <<Cond(Ref("p"), Ret(Both(Do1("f", In), Ref("p")))), Ret(Ref("p"))>>),
  <<Ret(Either(Do1("f", In), Do1("f", Do1("f", One))))>>)

\* The argument is a copy, and a call on the right side may change the
\* variable that is about to be assigned.
Copies == Program(<<Decl("a", One)>>,
  "f" :> Fun("int", "p", <<Set("p", In), Set("a", Ref("p")), Ret(Zero)>>),
  <<Set("a", Do1("f", Ref("a"))), Seqn(<<Decl("a", Zero), Set("a", Do1("f", Ref("a")))>>),
    Ret(Ref("a"))>>)

\* A call as a statement, without a block around it, with and without value.
Discards == Program(<<Decl("a", One)>>,
  ("v" :> Fun("void", "p", <<Loops(Ref("p"), Seqn(<<Cond(In, RetVoid), Set("p", In)>>)),
                             Set("a", Zero)>>))
    @@ ("i" :> Fun("int", "", <<Seqn(<<Seqn(<<Ret(One)>>), Set("a", Zero)>>)>>)),
  <<Loops(In, Do("i")), CondElse(In, Do1("v", In), Do("i")), Ret(Ref("a"))>>)

\* Functions that end without return.
FallsOff == Program(<<>>,
  "f" :> Fun("int", "", <<Cond(In, Ret(Zero))>>),
  <<Decl("a", Do("f")), Cond(Ref("a"), Ret(One))>>)

MCPrograms == ControlPrograms
  \union {Scopes, Shadows, Recursion, Copies, Discards, FallsOff}

\* The nodes of each program; none nests deeper than 8.
PartsAt(nd) ==
  {<<nd[1].kids[i], AskedOf(nd[1].kind, i, nd[2]), NamesAt(nd[1], i, nd[3])>> :
     i \in DOMAIN nd[1].kids}

NodesAt(p) ==
  LET level[k \in 0..8] ==
        IF k = 0
        THEN {<<p.globals[i], {"constant"}, Declared(p.globals, i - 1)>> : i \in DOMAIN p.globals}
               \union {<<p.main, {"result"}, Globals(p)>>}
               \union {<<p.funcs[f].body, BodyAsks(p.funcs[f]),
                         Globals(p) \union Params(p.funcs[f])>> : f \in DOMAIN p.funcs}
        ELSE UNION {PartsAt(nd) : nd \in level[k - 1]}
  IN  UNION {level[k] : k \in 0..8}

MCNodes == [p \in MCPrograms |-> NodesAt(p)]
============================================================================
