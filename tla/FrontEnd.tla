------------------------------ MODULE FrontEnd ------------------------------
(***************************************************************************)
(* What the front end must make of a program: a tree whose environments    *)
(* follow its blocks, whose types are those of static scoping, and whose   *)
(* array initialisers fill memory as the language says.  The reference is  *)
(* StaticMeaning, which reads the source without symbol tables.            *)
(***************************************************************************)
EXTENDS ArrayDecls, FiniteSets

Meaning == INSTANCE StaticMeaning

Finished == phase = "built"
NodesOf(kinds) == {no \in DOMAIN tree.nodes : tree.nodes[no].node \in kinds}

---------------------------------------------------------------------------
(* The walk.                                                               *)

Scoped == {k \in DOMAIN walk : walk[k].at \in {"func", "block"}}

\* The walk and the store agree: an environment is open for every function
\* and block that is open, the node reserved for a visit is not set before
\* the visit ends, and a finished walk leaves no node unset.
BuilderTypeOK ==
  /\ phase \in {"walking", "built", "failed"}
  /\ tree.top \in DOMAIN tree.envs
  /\ Len(tree.envs[tree.top].path) = 1 + Cardinality(Scoped)
  /\ \A k \in DOMAIN walk : k > 1 => tree.nodes[walk[k].node] = NoNode
  /\ \A no \in DOMAIN tree.nodes :
       tree.nodes[no] = NoNode => \E k \in DOMAIN walk : walk[k].node = no
  /\ \A v \in {valueStack[k] : k \in DOMAIN valueStack} :
       v = Failed \/ v.is \in {"int", "float"}

---------------------------------------------------------------------------
(* Environments.                                                           *)

Children(no) ==
  LET n == tree.nodes[no] IN
  CASE n.node = "FuncDecl" -> {n.params[i] : i \in DOMAIN n.params} \cup {n.body}
    [] n.node = "Block" -> {n.subs[i] : i \in DOMAIN n.subs}
    [] n.node = "If" -> {n.then, n.orelse} \ {0}
    [] n.node = "While" -> {n.body}
    [] OTHER -> {}

Enclosing(no) == {m \in DOMAIN tree.nodes : no \in Children(m)}

\* The environment a node is visited in.
RECURSIVE ScopeAround(_)
ScopeAround(no) ==
  IF Enclosing(no) = {} THEN 1
  ELSE LET m == CHOOSE m \in Enclosing(no) : TRUE
       IN IF m \in DOMAIN tree.envOf THEN tree.envOf[m] ELSE ScopeAround(m)

\* The consumers find a scope by the node that opened it: every function and
\* block has an environment of its own, below the one of the function or block
\* around it, and every declaration is filed in the environment it stands in.
EnvsFollowTree ==
  Finished =>
    /\ DOMAIN tree.envOf = NodesOf({"FuncDecl", "Block"})
    /\ \A n, m \in DOMAIN tree.envOf : tree.envOf[n] = tree.envOf[m] => n = m
    /\ \A n \in DOMAIN tree.envOf :
         ~IsRoot(tree, tree.envOf[n]) /\ Parent(tree, tree.envOf[n]) = ScopeAround(n)
    /\ \A n \in NodesOf({"VarDecl", "ParamDecl"}) : EnvOfDecl(n) = ScopeAround(n)

---------------------------------------------------------------------------
(* Types.                                                                  *)

DeclNodes == NodesOf({"VarDecl", "ParamDecl"})

\* The extents a declaration gets are those its expressions have where the
\* declaration stands: evaluating a constant again from any place in its
\* scope, through the constants it is made of, gives its value, and leaves
\* nothing behind for the next extent.  (So it is where each subscript of a
\* constant's element can be exchanged for any other, its lists are nested
\* fully, and nothing it is made of is hidden where it is used.)
ExtentsAreStatic ==
  /\ phase # "failed"
  /\ Finished =>
       LET D == Meaning!MeaningOfUnit(unit)
           before(no) == Cardinality({m \in DeclNodes : m <= no})
       IN /\ Cardinality(DeclNodes) = Len(D)
          /\ \A no \in DeclNodes : TypeOfDecl(no) = D[before(no)].type
          /\ valueStack = <<>>

\* The operands of a term.
Parts(x) ==
  CASE x.node \in {"BinaryOp", "Compare", "And", "Or"} -> <<x.lhs, x.rhs>>
    [] x.node \in {"ToInt", "ToFloat", "ToCond"} -> <<x.operant>>
    [] x.node \in {"UnaryOp", "Not"} -> <<x.sub>>
    [] x.node = "List" -> x.vals
    [] x.node = "Call" -> x.args
    [] x.node = "ArrayRef" -> x.subscripts
    [] OTHER -> <<>>

\* The terms a node holds.
TermsOf(no) ==
  LET n == tree.nodes[no] IN
  CASE n.node = "Assign" -> {n.lval, n.rval}
    [] n.node = "Return" -> {n.value} \ {None}
    [] n.node \in {"If", "While"} -> {n.cond}
    [] n.node = "VarDecl" -> {n.init} \ {None}
    [] n.node \in {"ParamDecl", "FuncDecl", "Block", "Break", "Continue", "Empty"} -> {}
    [] OTHER -> {n}

\* What a reference finds in the finished table of the scope it stands in:
\* the declaration it was typed by, or one that comes after it in a scope
\* around it.
RECURSIVE FindsAgain(_, _)
FindsAgain(no, x) ==
  /\ x.node \in {"DeclRef", "ArrayRef"} =>
       LET e == ScopeAround(no)
           info == getInfo(tree, e, "vars", x.var).info
       IN \/ info.decl >= no /\ \E k \in DOMAIN tree.envs[e].path :
                                  tree.envs[e].path[k] = ScopeAround(info.decl)
          \/ x.node = "DeclRef" /\ info.type = x.type
          \/ x.node = "ArrayRef" /\ ~IsBasic(info.type) /\ Index(info.type, Len(x.subscripts)) = x.type
  /\ \A i \in DOMAIN Parts(x) : FindsAgain(no, Parts(x)[i])

\* Both consumers look a variable up again, by its id, when the whole tree
\* is built: ids are shared by all scopes, so what they find depends on
\* every scope being kept apart until then.
LateLookupsAgree ==
  Finished => \A no \in DOMAIN tree.nodes : \A x \in TermsOf(no) : FindsAgain(no, x)

FuncType(id) == getInfo(tree, 1, "funcs", id).info.type

Fits(x) ==
  CASE x.node = "BinaryOp" -> x.lhs.type = x.type /\ x.rhs.type = x.type
    [] x.node = "Compare" -> x.op \in {"==", "!="} \/ x.lhs.type = x.rhs.type
    [] x.node \in {"And", "Or"} -> IsCond(x.lhs) /\ IsCond(x.rhs)
    [] x.node = "ToInt" -> x.operant.type = Float_v
    [] x.node = "ToFloat" -> x.operant.type = Int_v
    [] x.node = "Not" -> x.sub.type = Int_v
    [] x.node = "Call" -> \A i \in DOMAIN x.args : Match(FuncType(x.func).params[i], x.args[i].type)
    [] OTHER -> TRUE

RECURSIVE Typed(_)
Typed(x) == Fits(x) /\ \A i \in DOMAIN Parts(x) : Typed(Parts(x)[i])

\* The values of a list take the base type of what they fill.
RECURSIVE ListOf(_, _)
ListOf(base, x) ==
  IF IsList(x) THEN \A i \in DOMAIN x.vals : ListOf(base, x.vals[i]) ELSE x.type = base

RECURSIVE ResultAround(_)
ResultAround(no) ==
  IF tree.nodes[no].node = "FuncDecl" THEN FuncType(tree.nodes[no].func).result
  ELSE ResultAround(CHOOSE m \in Enclosing(no) : TRUE)

\* Whatever is assigned, passed, returned, compared by order or computed has
\* been given the type it is used at, and an if tests a condition: later
\* passes convert nothing.  (Equality and the condition of a loop are left
\* as they are by the code.)
ConversionsMade ==
  Finished =>
    \A no \in DOMAIN tree.nodes :
      LET n == tree.nodes[no] IN
      /\ \A x \in TermsOf(no) : Typed(x)
      /\ n.node = "Assign" => Match(n.lval.type, n.rval.type)
      /\ n.node = "Return" /\ n.value # None => n.value.type = ResultAround(no)
      /\ n.node = "If" => IsCond(n.cond)
      /\ n.node = "VarDecl" /\ n.init # None =>
           IF IsArray(TypeOfDecl(no)) THEN ListOf(TypeOfDecl(no).base, n.init)
           ELSE n.init.type = TypeOfDecl(no)

---------------------------------------------------------------------------
(* Arrays.                                                                 *)

\* The declaration of an array in the source, its indexes, and the element
\* an index names.
DeclarationOf(no) ==
  Meaning!MeaningOfUnit(unit)[Cardinality({m \in DeclNodes : m <= no})]
SourceDims(t) == Meaning!SourceOrder(t.dims)
Indexes(t) ==
  {index \in [1..Rank(t) -> 0..(SizeOf(t) - 1)] :
     \A i \in 1..Rank(t) : index[i] < SourceDims(t)[i]}
Place(t, index) == Meaning!PlaceOf(SourceDims(t), index)

\* The interpreter's memory holds, at the offset an indexing of the array
\* computes, the element the language puts there, for lists with at most a
\* row of bare values before a nested list (parseInitList stops at others).
ArraysInitialised ==
  \A no \in DOMAIN interpreted :
    LET t == TypeOfDecl(no)
        elems == DeclarationOf(no).elems
    IN /\ interpreted[no] # NoMemory
       /\ \A index \in Indexes(t) :
            interpreted[no][ArrayOffset(t, index)] = elems[Place(t, index)]

\* Reading an element of a constant while compiling gives what reading it at
\* run time would, where no row on the way is an empty list.
ConstReadsAgree ==
  \A no \in DOMAIN emitted :
    LET t == TypeOfDecl(no)
        elems == DeclarationOf(no).elems
    IN emitted[no].is = "list" =>
         \A index \in Indexes(t) :
           constevalArrayRef(emitted[no], index) \in {Val(elems[Place(t, index)]), Undefined}

IsLocal(no) == emitted[no].is = "local"
AddressOf(t, index) == IROffset(corr_type(t), index)

\* A local array's allocation holds each of its elements.
AllocationFits ==
  \A no \in DOMAIN emitted :
    IsLocal(no) =>
      \A index \in Indexes(TypeOfDecl(no)) :
        AddressOf(TypeOfDecl(no), index) < emitted[no].size

\* A local array whose innermost extent is its largest keeps its elements
\* apart and inside, and its stores leave what the initialiser lists.
LocalElementsApart ==
  \A no \in DOMAIN emitted :
    LET t == TypeOfDecl(no)
        d == DeclarationOf(no)
    IN IsLocal(no) /\ (\A k \in 1..Rank(t) : t.dims[k] <= t.dims[1]) =>
         \A index \in Indexes(t) :
           /\ AddressOf(t, index) < emitted[no].size
           /\ \A other \in Indexes(t) :
                AddressOf(t, index) = AddressOf(t, other) => index = other
           /\ Place(t, index) \in d.listed =>
                /\ AddressOf(t, index) \in DOMAIN emitted[no].mem
                /\ emitted[no].mem[AddressOf(t, index)] = d.elems[Place(t, index)]
=============================================================================
