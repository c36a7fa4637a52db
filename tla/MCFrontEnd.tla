----------------------------- MODULE MCFrontEnd -----------------------------
(* Programs for the front end: scopes, constants and conversions by hand,  *)
(* array initialisers enumerated.                                          *)
EXTENDS FrontEnd

CONSTANT NoPart

Lit(n) == [e |-> "int", value |-> n]
FLit(n) == [e |-> "float", value |-> n]
Ref(x) == [e |-> "ref", name |-> x]
Elem(x, index) == [e |-> "elem", name |-> x, index |-> index]
Bin(op, l, r) == [e |-> "binary", op |-> op, lhs |-> l, rhs |-> r]
Rel(op, l, r) == [e |-> "rel", op |-> op, lhs |-> l, rhs |-> r]
Eq(op, l, r) == [e |-> "eq", op |-> op, lhs |-> l, rhs |-> r]
Logic(op, l, r) == [e |-> "logic", op |-> op, lhs |-> l, rhs |-> r]
Neg(x) == [e |-> "neg", sub |-> x]
Not(x) == [e |-> "not", sub |-> x]
CallOf(f, args) == [e |-> "call", name |-> f, args |-> args]
ListOfItems(items) == [e |-> "list", items |-> items]

Const(base, x, dims, init) == [s |-> "const", base |-> base, name |-> x, dims |-> dims, init |-> init]
Var(base, x, dims, init) == [s |-> "var", base |-> base, name |-> x, dims |-> dims, init |-> init]
Block(items) == [s |-> "block", items |-> items]
If(c, t, e) == [s |-> "if", cond |-> c, then |-> t, orelse |-> e]
While(c, b) == [s |-> "while", cond |-> c, body |-> b]
Set(l, x) == [s |-> "assign", lval |-> l, exp |-> x]
Exp(x) == [s |-> "exp", exp |-> x]
Return(x) == [s |-> "return", exp |-> x]
Break == [s |-> "break"]
Continue == [s |-> "continue"]
Param(base, x) == [s |-> "param", base |-> base, name |-> x, pointer |-> FALSE, dims |-> <<>>]
ArrayParam(base, x, dims) == [s |-> "param", base |-> base, name |-> x, pointer |-> TRUE, dims |-> dims]
Function(result, f, params, body) ==
  [s |-> "func", result |-> result, name |-> f, params |-> params, body |-> Block(body)]

MCLibFuncs == <<[s |-> "lib", name |-> "putint", type |-> Func(Void_v, <<Int_v>>)],
                [s |-> "lib", name |-> "getfloat", type |-> Func(Float_v, <<Void_v>>)]>>

---------------------------------------------------------------------------
(* Scopes and statements.                                                  *)

ScopePrograms == {
  \* A parameter, a block's variable and a constant take turns with a name.
  << Const(Int_v, "n", <<>>, Lit(2)),
     Var(Int_v, "g", <<Bin("+", Ref("n"), Lit(1)), Ref("n")>>, NoPart),
     Function(Int_v, "f", <<Param(Float_v, "n"), ArrayParam(Int_v, "p", <<Lit(2)>>)>>,
       << Const(Int_v, "m", <<>>, Lit(3)),
          Var(Float_v, "b", <<Bin("-", Bin("*", Ref("m"), Lit(2)), Lit(4))>>, NoPart),
          Set(Ref("n"), Ref("m")),
          Block(<< Const(Int_v, "m", <<>>, Lit(1)),
                   Var(Int_v, "n", <<Ref("m"), Lit(3)>>, NoPart),
                   Set(Elem("n", <<Lit(0), Lit(1)>>), Ref("m")) >>),
          Block(<< Var(Int_v, "c", <<Ref("m")>>, NoPart) >>),
          Return(Bin("+", Ref("n"), Elem("p", <<Lit(0), Lit(1)>>))) >>),
     Function(Void_v, "main", <<>>,
       << Var(Int_v, "x", <<>>, CallOf("f", <<Lit(1), Ref("g")>>)),
          Exp(CallOf("putint", <<Ref("x")>>)),
          Return(NoPart) >>) >>,
  \* Statements, with conversions both ways.
  << Var(Float_v, "y", <<>>, Lit(1)),
     Function(Int_v, "main", <<>>,
       << Var(Int_v, "x", <<>>, FLit(2)),
          While(Logic("And", Rel("<", Ref("x"), Ref("y")), Ref("x")),
            Block(<< If(Not(Ref("x")), Break, NoPart),
                     If(Eq("==", Ref("x"), Lit(0)), Continue,
                        Block(<< Set(Ref("y"), Bin("*", Ref("x"), Neg(Ref("y")))) >>)),
                     Block(<< Set(Ref("x"), Lit(1)),
                              Var(Float_v, "x", <<>>, CallOf("getfloat", <<>>)),
                              Set(Ref("x"), Bin("/", Ref("x"), Lit(2))) >>) >>)),
          If(Logic("Or", Ref("y"), Rel(">=", Lit(1), Ref("x"))), Exp(NoPart), NoPart),
          Return(Ref("y")) >>) >>,
  \* Extents from the elements of constants, and division.
  << Const(Int_v, "k", <<Lit(3)>>, ListOfItems(<<Lit(4), Lit(2), Lit(3)>>)),
     Const(Int_v, "q", <<>>, Neg(Bin("-", Lit(4), Bin("%", Lit(7), Lit(8))))),
     Var(Int_v, "a", <<Elem("k", <<Lit(2)>>), Bin("/", Lit(7), Ref("q"))>>, NoPart),
     Function(Int_v, "main", <<ArrayParam(Float_v, "p", <<Ref("q"), Elem("k", <<Lit(0)>>)>>),
                               ArrayParam(Float_v, "r", <<>>)>>,
       << Var(Int_v, "b", <<Bin("-", Elem("k", <<Lit(0)>>), Lit(1))>>, NoPart),
          Set(Elem("a", <<Lit(0), Lit(0)>>), Elem("r", <<Lit(0)>>)),
          Return(Elem("a", <<Lit(1), Lit(1)>>)) >>) >> }

---------------------------------------------------------------------------
(* Extents from constants that are made of constants: scalars of scalars,  *)
(* of elements and of both, arrays of scalars and of elements, in two      *)
(* dimensions and more.                                                    *)

Consts == <<
  Const(Int_v, "n", <<>>, Lit(2)),
  Const(Int_v, "m", <<>>, Bin("+", Ref("n"), Lit(1))),
  Const(Int_v, "k", <<Ref("n")>>, ListOfItems(<<Ref("m"), Bin("-", Ref("m"), Ref("n"))>>)),
  Const(Int_v, "q", <<>>, Bin("%", Elem("k", <<Lit(0)>>), Ref("n"))),
  Const(Int_v, "t", <<Ref("n"), Ref("n")>>,
        ListOfItems(<<ListOfItems(<<Elem("k", <<Ref("q")>>), Lit(5)>>),
                      ListOfItems(<<Lit(4), Ref("m")>>)>>)),
  Const(Int_v, "z", <<>>, Lit(1)) >>

Extent == {Ref("m"), Ref("q"), Elem("k", <<Lit(0)>>), Elem("k", <<Bin("-", Ref("m"), Ref("n"))>>),
           Elem("t", <<Lit(0), Lit(0)>>), Elem("t", <<Ref("q"), Elem("t", <<Lit(0), Lit(0)>>)>>),
           Bin("*", Ref("n"), Elem("t", <<Ref("q"), Ref("q")>>))}

\* Used around functions, for a parameter, in a function and in its blocks,
\* where a constant of the same name (which no other is made of) takes over
\* and where a block before had others.
Used(x, y) == Consts \o <<
  Var(Int_v, "g", <<x, y>>, NoPart),
  Function(Void_v, "f", <<ArrayParam(Int_v, "p", <<y, x>>)>>, <<
    Const(Int_v, "l", <<>>, Bin("+", x, y)),
    Var(Int_v, "a", <<y, Ref("l")>>, NoPart),
    Block(<< Const(Int_v, "z", <<>>, Ref("l")),
             Var(Int_v, "n", <<Ref("z")>>, NoPart),
             Var(Int_v, "m", <<Lit(1)>>, NoPart) >>),
    Block(<< Const(Int_v, "z", <<>>, Lit(1)),
             Const(Int_v, "j", <<x>>, ListOfItems(<<Ref("l")>>)),
             Block(<< Var(Float_v, "a", <<Elem("j", <<Lit(0)>>), x, Ref("z")>>, NoPart) >>) >>) >>),
  Function(Void_v, "main", <<>>, << Var(Int_v, "b", <<x, x>>, NoPart) >>) >>

ExtentPrograms == {Used(x, y) : x \in Extent, y \in {Ref("m"), Elem("t", <<Ref("q"), Lit(1)>>)}}

---------------------------------------------------------------------------
(* Initialiser lists: a bare value or a list of them, up to a depth; the   *)
(* values tell their places in the list apart.                             *)

Bare == [bare |-> TRUE]
Braces(shapes) == [bare |-> FALSE, items |-> shapes]
UpTo(S, n) == UNION {[1..k -> S] : k \in 0..n}
Shapes1 == {Bare} \cup {Braces(s) : s \in UpTo({Bare}, 2)}
Shapes2 == Shapes1 \cup {Braces(s) : s \in UpTo(Shapes1, 2)}

RECURSIVE Written(_, _)
Written(shape, code) ==
  IF shape.bare THEN Lit(code)
  ELSE ListOfItems([i \in DOMAIN shape.items |-> Written(shape.items[i], 10 * code + i)])

\* A list fits an array when its nested lists stand where a row begins and
\* nothing goes past the end.
RECURSIVE FitsIn(_, _, _)
FitsIn(dims, items, at) ==
  \/ items = <<>> /\ at <= Product(dims)
  \/ /\ items # <<>> /\ at < Product(dims)
     /\ LET x == Head(items)
            row == Meaning!RowAt(dims, at)
        IN IF x.e # "list" THEN FitsIn(dims, Tail(items), at + 1)
           ELSE /\ row # <<>> /\ FitsIn(row, x.items, 0)
                /\ FitsIn(dims, Tail(items), at + Product(row))

Initialised(dims, shape) ==
  LET exts == [i \in DOMAIN dims |-> Lit(dims[i])]
      init == Written(Braces(shape), 0)
  IN << Const(Int_v, "c", exts, init),
        Function(Void_v, "main", <<>>, << Var(Float_v, "v", exts, init) >>) >>

ArrayPrograms(allDims, shapes) ==
  {Initialised(dims, shape) :
     <<dims, shape>> \in {<<d, s>> \in allDims \X shapes :
                            FitsIn(d, Written(Braces(s), 0).items, 0)}}

Flat == UpTo({Bare}, 5)
MCPrograms ==
  ScopePrograms
    \cup ExtentPrograms
    \cup ArrayPrograms({<<2>>, <<3>>, <<2, 2>>, <<3, 2>>, <<2, 3>>}, Flat \cup UpTo(Shapes1, 3))
    \cup ArrayPrograms({<<2, 2, 2>>, <<1, 2, 3>>}, UpTo(Shapes2, 2))

SizePrograms == ArrayPrograms({<<2>>, <<3, 2>>}, Flat)
=============================================================================
