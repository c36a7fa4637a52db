---------------------------- MODULE TreeBuilder ----------------------------
(***************************************************************************)
(* SyntaxTreeBuilder: the visitor that turns the parse tree of a program   *)
(* into the syntax tree, entering symbols and evaluating array extents on  *)
(* its way (SyntaxTreeBuilder.cpp, ConstantEvaluator.cpp).                 *)
(*                                                                         *)
(* The calls of the visitor that are open are the frames of walk: what is  *)
(* visited, the node reserved for it, the children still to be visited and *)
(* the nodes they gave.  Declarations, statements, blocks and functions    *)
(* are numbered nodes; an expression is kept as a term in the node that    *)
(* holds it.                                                               *)
(***************************************************************************)
EXTENDS SyntaxTree, DataTypes, Integers
LOCAL INSTANCE SequencesExt

CONSTANTS
  Programs,  (* translation units: sequences of declarations             *)
  LibFuncs,  (* the library functions: sequence of [name, type]          *)
  None       (* an absent part of a statement                            *)

VARIABLES
  unit,        (* the translation unit that is visited                   *)
  walk,        (* the visitor's open calls                               *)
  valueStack,  (* the stack of the constant evaluator                    *)
  phase        (* "walking", "built", or "failed": exit or assertion     *)

vars == <<tree, unit, walk, valueStack, phase>>

---------------------------------------------------------------------------
(* Expressions.                                                            *)

VarInfo(name) == getInfo(tree, tree.top, "vars", IdFor(tree, name)).info
FuncInfo(name) == getInfo(tree, tree.top, "funcs", IdFor(tree, name)).info

ToInt(x) == [node |-> "ToInt", type |-> Int_v, operant |-> x]
ToFloat(x) == [node |-> "ToFloat", type |-> Float_v, operant |-> x]
IsList(x) == x.node = "List"
IsCond(x) == x.node \in {"Compare", "And", "Or", "ToCond"}

\* Programs are well typed: what else convertTo meets is an array for a
\* pointer it matches, which is left as it is.
convertTo(t, x) ==
  IF IsList(x) \/ ~IsBasic(t) \/ Match(t, x.type) THEN x
  ELSE IF t = Int_v THEN ToInt(x) ELSE ToFloat(x)

convertToCond(x) == IF IsCond(x) THEN x ELSE [node |-> "ToCond", operant |-> x]

\* A mutant: the wrong operand is converted.
CastOther(x, y) == IF ~Match(x.type, y.type) /\ y.type = Int_v THEN ToFloat(x) ELSE x
\* numberTypeCast: of two types that differ, the int becomes a float.
Cast(x, y) == IF ~Match(x.type, y.type) /\ x.type = Int_v THEN ToFloat(x) ELSE x
Binary(op, l, r) ==
  [node |-> "BinaryOp", type |-> Cast(l, r).type, op |-> op,
   lhs |-> Cast(l, r), rhs |-> Cast(r, l)]
Compare(op, l, r) == [node |-> "Compare", op |-> op, lhs |-> l, rhs |-> r]

RECURSIVE Built(_)
Built(e) ==
  CASE e.e = "int"   -> [node |-> "IntLiteral", type |-> Int_v, value |-> e.value]
    [] e.e = "float" -> [node |-> "FloatLiteral", type |-> Float_v, value |-> e.value]
    [] e.e = "ref"   -> [node |-> "DeclRef", type |-> VarInfo(e.name).type,
                         var |-> IdFor(tree, e.name)]
    [] e.e = "elem"  -> [node |-> "ArrayRef", var |-> IdFor(tree, e.name),
                         type |-> Index(VarInfo(e.name).type, Len(e.index)),
                         subscripts |-> [i \in DOMAIN e.index |-> Built(e.index[i])]]
    [] e.e = "binary" -> Binary(e.op, Built(e.lhs), Built(e.rhs))
    [] e.e = "neg"   -> [node |-> "UnaryOp", type |-> Built(e.sub).type, sub |-> Built(e.sub)]
    [] e.e = "not"   -> [node |-> "Not", type |-> Int_v, sub |-> convertTo(Int_v, Built(e.sub))]
    [] e.e = "rel"   -> Compare(e.op, Cast(Built(e.lhs), Built(e.rhs)),
                                      Cast(Built(e.rhs), Built(e.lhs)))
    [] e.e = "eq"    -> Compare(e.op, Built(e.lhs), Built(e.rhs))
    [] e.e = "logic" -> [node |-> e.op, lhs |-> convertToCond(Built(e.lhs)),
                         rhs |-> convertToCond(Built(e.rhs))]
    [] e.e = "call"  ->
         LET f == FuncInfo(e.name).type
         IN [node |-> "Call", type |-> f.result, func |-> IdFor(tree, e.name),
             args |-> [i \in DOMAIN e.args |-> convertTo(f.params[i], Built(e.args[i]))]]

\* An initialiser: an expression or a list, whose values take the base type.
RECURSIVE BuiltInit(_, _)
BuiltInit(base, x) ==
  IF x.e # "list" THEN Built(x)
  ELSE [node |-> "List",
        vals |-> [i \in DOMAIN x.items |-> convertTo(base, BuiltInit(base, x.items[i]))]]

---------------------------------------------------------------------------
(* The constant evaluator.  A reference is evaluated by evaluating the     *)
(* initialiser of what its id means in the environment that is open now.   *)

Failed == [is |-> "failed"]
Value(is, n) == [is |-> is, n |-> n]

\* C's division and remainder: towards zero.
Abs(n) == IF n < 0 THEN -n ELSE n
Quotient(a, b) == IF (a < 0) = (b < 0) THEN Abs(a) \div Abs(b) ELSE -(Abs(a) \div Abs(b))
Arithmetic(op, a, b) ==
  CASE op = "+" -> a + b
    [] op = "-" -> a - b
    [] op = "*" -> a * b
    [] op = "/" -> Quotient(a, b)
    [] op = "%" -> a - b * Quotient(a, b)

Apply(op, l, r) ==
  IF l = Failed \/ r = Failed \/ l.is # r.is THEN Failed
  ELSE IF op \in {"/", "%"} /\ r.n = 0 THEN Failed
  ELSE Value(l.is, Arithmetic(op, l.n, r.n))

TopOf(s) == IF s = <<>> THEN Failed ELSE Last(s)
Popped(s) == IF s = <<>> THEN s ELSE Front(s)
Replace(s, v) == Append(Popped(s), v)

\* open holds the references under evaluation: to meet one again is to
\* recurse without end.
RECURSIVE Run(_, _, _)
RECURSIVE RunAll(_, _, _)
Run(x, s, open) ==
  CASE x.node \in {"IntLiteral"} -> Append(s, Value("int", x.value))
    [] x.node = "FloatLiteral" -> Append(s, Value("float", x.value))
    [] x.node = "BinaryOp" ->
         LET both == Run(x.rhs, Run(x.lhs, s, open), open)
         IN Replace(Popped(both), Apply(x.op, TopOf(Popped(both)), TopOf(both)))
    [] x.node = "ToFloat" ->
         LET t == Run(x.operant, s, open)
         IN Replace(t, IF TopOf(t).is = "int" THEN Value("float", TopOf(t).n) ELSE Failed)
    [] x.node = "UnaryOp" ->
         LET t == Run(x.sub, s, open)
         IN Replace(t, IF TopOf(t) = Failed THEN Failed ELSE Value(TopOf(t).is, -TopOf(t).n))
    [] x.node = "DeclRef" ->
         LET info == getInfo(tree, tree.top, "vars", x.var).info
         IN IF x.var \in open \/ ~info.isConstant \/ tree.nodes[info.decl] = NoNode
            THEN Append(s, Failed)
            ELSE LET t == Run(tree.nodes[info.decl].init, s, open \cup {x.var})
                 IN Append(Popped(t), TopOf(t))
    [] x.node = "ArrayRef" ->
         LET info == getInfo(tree, tree.top, "vars", x.var).info
         IN IF x.var \in open \/ info.isParam \/ tree.nodes[info.decl] = NoNode
            THEN Append(s, Failed)
            ELSE IF tree.nodes[info.decl].init = None THEN Append(s, Failed)
            ELSE Run(tree.nodes[info.decl].init, RunAll(x.subscripts, s, open),
                     open \cup {x.var})
    [] x.node = "List" ->
         LET i == TopOf(s)
         IN IF i.is = "int" /\ i.n + 1 \in DOMAIN x.vals
            THEN Run(x.vals[i.n + 1], Popped(s), open)
            ELSE Append(Popped(s), Failed)
    [] OTHER -> s   \* ToInt, Not, Call and conditions: nothing is executed
RunAll(xs, s, open) ==
  IF xs = <<>> THEN s ELSE RunAll(Tail(xs), Run(Head(xs), s, open), open)

\* compute: the value on top of the stack, which is popped.
RECURSIVE Computed(_, _)
Computed(xs, s) ==
  IF xs = <<>> THEN [values |-> <<>>, stack |-> s]
  ELSE LET t == Run(Head(xs), s, {})
           rest == Computed(Tail(xs), Popped(t))
       IN [values |-> <<TopOf(t)>> \o rest.values, stack |-> rest.stack]

\* A mutant: outermost first.
ExtentsInOrder(dims) == Computed([i \in DOMAIN dims |-> Built(dims[i])], valueStack)
\* The extents of a declarator, innermost first, computed in that order.
Extents(dims) == Computed(Reverse([i \in DOMAIN dims |-> Built(dims[i])]), valueStack)
AreExtents(values) == \A i \in DOMAIN values : values[i].is = "int" /\ values[i].n >= 0

---------------------------------------------------------------------------
(* The walk.                                                               *)

Frame(at, node, todo, part) ==
  [at |-> at, node |-> node, todo |-> todo, part |-> part, kids |-> <<>>]

Here == Last(walk)
Visiting(s) == /\ phase = "walking"
               /\ Here.todo # <<>>
               /\ Head(Here.todo).s = s
Item == Head(Here.todo)
Leaving(at) == phase = "walking" /\ Here.todo = <<>> /\ Here.at = at

\* The child under visit gave node no; a callee opens a frame of its own.
Given(w, no) == [w EXCEPT ![Len(w)] =
                   [@ EXCEPT !.todo = Tail(@), !.kids = Append(@, no)]]
Calling(frame) == Append([walk EXCEPT ![Len(walk)] = [@ EXCEPT !.todo = Tail(@)]], frame)
Answered(no) == LET w == Front(walk)
                IN [w EXCEPT ![Len(w)] = [@ EXCEPT !.kids = Append(@, no)]]

\* Push a node and set it at once.
WithNode(t, node) == LET p == PushNode(t) IN SetNode(p, LastNode(p), node)

Fail == phase' = "failed" /\ UNCHANGED <<tree, walk>>
Walking == UNCHANGED <<unit, phase>>

\* A leaf of the walk: one node, no symbol.
Leaf(node) ==
  /\ tree' = WithNode(tree, node)
  /\ walk' = Given(walk, LastNode(tree'))
  /\ UNCHANGED valueStack
  /\ Walking

Init ==
  /\ unit \in Programs
  /\ tree = EmptyTree
  /\ walk = <<Frame("unit", 0, LibFuncs \o unit, None)>>
  /\ valueStack = <<>>
  /\ phase = "walking"

\* The constructor enters the library functions before anything is visited.
AddLibFunc ==
  /\ Visiting("lib")
  /\ tree' = Enter(tree, tree.top, "funcs", Item.name, [type |-> Item.type, decl |-> 0])
  /\ walk' = Given(walk, 0)
  /\ UNCHANGED valueStack
  /\ Walking

ElementType(base, values) == Arr(base, [i \in DOMAIN values |-> values[i].n])

\* visitConstDecl and visitVarDecl, for one definition: the initialiser is
\* visited before the name is entered.
Declared(t, item, type, const) ==
  LET p == PushNode(WithId(t, item.name))
      no == LastNode(p)
      init == IF item.init = None THEN None
              ELSE convertTo(type, BuiltInit(item.base, item.init))
      s == SetNode(p, no, [node |-> "VarDecl", var |-> IdFor(p, item.name), init |-> init])
  IN Enter(s, s.top, "vars", item.name,
           [type |-> type, decl |-> no, isConstant |-> const, isParam |-> FALSE])

Declare(const) ==
  LET ext == Extents(Item.dims)
      type == IF Item.dims = <<>> THEN Item.base ELSE ElementType(Item.base, ext.values)
  IN /\ valueStack' = ext.stack
     /\ UNCHANGED unit
     /\ IF AreExtents(ext.values)
        THEN /\ tree' = Declared(tree, Item, type, const)
             /\ walk' = Given(walk, LastNode(tree'))
             /\ UNCHANGED phase
        ELSE Fail

visitConstDecl == Visiting("const") /\ Declare(TRUE)
visitVarDecl == Visiting("var") /\ Declare(FALSE)

visitFuncDef ==
  /\ Visiting("func")
  /\ LET t == PushNode(WithId(tree, Item.name))
     IN /\ tree' = PushEnv(t)
        /\ walk' = Calling(Frame("func", LastNode(t),
                      Item.params \o <<[s |-> "signature"], Item.body>>, Item))
  /\ UNCHANGED valueStack
  /\ Walking

ParamType(item, values) ==
  IF ~item.pointer THEN item.base
  ELSE IF item.dims = <<>> THEN Ptr(item.base)
  ELSE Ptr(ElementType(item.base, values))

visitFuncFParam ==
  /\ Visiting("param")
  /\ LET ext == Extents(Item.dims)
         t == PushNode(tree)
         no == LastNode(t)
         info == [type |-> ParamType(Item, ext.values), decl |-> no,
                  isConstant |-> FALSE, isParam |-> TRUE]
         e == Enter(t, t.top, "vars", Item.name, info)
     IN /\ valueStack' = ext.stack
        /\ UNCHANGED unit
        /\ IF AreExtents(ext.values)
           THEN /\ tree' = SetNode(e, no, [node |-> "ParamDecl",
                                           var |-> IdFor(e, Item.name)])
                /\ walk' = Given(walk, no)
                /\ UNCHANGED phase
           ELSE Fail

\* The function is entered around its own scope, before its body.
ParamTypes(kids) ==
  [i \in DOMAIN kids |->
     getInfo(tree, tree.top, "vars", tree.nodes[kids[i]].var).info.type]
Signature ==
  /\ Visiting("signature")
  /\ LET params == IF Here.kids = <<>> THEN <<Void_v>> ELSE ParamTypes(Here.kids)
     IN tree' = Enter(tree, Parent(tree, tree.top), "funcs", Here.part.name,
                      [type |-> Func(Here.part.result, params), decl |-> Here.node])
  /\ walk' = [walk EXCEPT ![Len(walk)] = [@ EXCEPT !.todo = Tail(@)]]
  /\ UNCHANGED valueStack
  /\ Walking

visitBlock ==
  /\ Visiting("block")
  /\ LET t == PushNode(tree)
     IN /\ tree' = PushEnv(t)
        /\ walk' = Calling(Frame("block", LastNode(t), Item.items, None))
  /\ UNCHANGED valueStack
  /\ Walking

visitIf ==
  /\ Visiting("if")
  /\ tree' = PushNode(tree)
  /\ walk' = Calling(Frame("if", LastNode(tree'),
                <<Item.then>> \o IF Item.orelse = None THEN <<>> ELSE <<Item.orelse>>,
                convertToCond(Built(Item.cond))))
  /\ UNCHANGED valueStack
  /\ Walking

\* The condition of a loop is not converted.
visitWhile ==
  /\ Visiting("while")
  /\ tree' = PushNode(tree)
  /\ walk' = Calling(Frame("while", LastNode(tree'), <<Item.body>>, Built(Item.cond)))
  /\ UNCHANGED valueStack
  /\ Walking

visitAssign ==
  /\ Visiting("assign")
  /\ LET l == Built(Item.lval)
     IN Leaf([node |-> "Assign", lval |-> l, rval |-> convertTo(l.type, Built(Item.exp))])

visitExpr ==
  /\ Visiting("exp")
  /\ Leaf(IF Item.exp = None THEN [node |-> "Empty"] ELSE Built(Item.exp))

\* (The Empty node pushed for a return without a value is nobody's child and
\* is left out.)
ReturnedType == walk[2].part.result
visitReturn ==
  /\ Visiting("return")
  /\ Leaf([node |-> "Return",
           value |-> IF Item.exp = None THEN None
                     ELSE convertTo(ReturnedType, Built(Item.exp))])

visitBreak == Visiting("break") /\ Leaf([node |-> "Break"])
visitContinue == Visiting("continue") /\ Leaf([node |-> "Continue"])

---------------------------------------------------------------------------
(* The end of a visit: the node is set, and the environment is attached    *)
(* to it before it is closed.                                              *)

\* A mutant: the environment is closed first.
ClosedFirst(t, no, node) ==
  LET p == PopEnv(SetNode(t, no, node)) IN SetupEnv(p, no, p.top)
Closed(t, no, node) == PopEnv(SetupEnv(SetNode(t, no, node), no, t.top))

Leave ==
  /\ walk' = Answered(Here.node)
  /\ UNCHANGED valueStack
  /\ Walking

LeaveFuncDef ==
  /\ Leaving("func")
  /\ LET n == Len(Here.kids)
     IN tree' = Closed(tree, Here.node,
          [node |-> "FuncDecl", func |-> IdFor(tree, Here.part.name),
           params |-> SubSeq(Here.kids, 1, n - 1), body |-> Here.kids[n]])
  /\ Leave

LeaveBlock ==
  /\ Leaving("block")
  /\ tree' = Closed(tree, Here.node, [node |-> "Block", subs |-> Here.kids])
  /\ Leave

LeaveIf ==
  /\ Leaving("if")
  /\ tree' = SetNode(tree, Here.node,
       [node |-> "If", cond |-> Here.part, then |-> Here.kids[1],
        orelse |-> IF Len(Here.kids) = 2 THEN Here.kids[2] ELSE 0])
  /\ Leave

LeaveWhile ==
  /\ Leaving("while")
  /\ tree' = SetNode(tree, Here.node,
       [node |-> "While", cond |-> Here.part, body |-> Here.kids[1]])
  /\ Leave

\* getTree: the tree is handed over.
getTree ==
  /\ Leaving("unit")
  /\ phase' = "built"
  /\ UNCHANGED <<tree, unit, walk, valueStack>>

Next ==
  \/ AddLibFunc \/ visitConstDecl \/ visitVarDecl
  \/ visitFuncDef \/ visitFuncFParam \/ Signature \/ LeaveFuncDef
  \/ visitBlock \/ LeaveBlock
  \/ visitIf \/ LeaveIf \/ visitWhile \/ LeaveWhile
  \/ visitAssign \/ visitExpr \/ visitReturn \/ visitBreak \/ visitContinue
  \/ getTree

Spec == Init /\ [][Next]_vars
=============================================================================
