----------------------------- MODULE ArrayDecls -----------------------------
(***************************************************************************)
(* What the two consumers of the tree make of an array declaration: the    *)
(* interpreter fills memory, IREmitter gives a global its initial image    *)
(* and a local an allocation with a store for every value it lists         *)
(* (parseInitList, FillInitListMemory, constevalArrayRef, execute(VarDecl) *)
(* in Interpreter.cpp and IREmitter.cpp).                                  *)
(*                                                                         *)
(* A list is parsed by the same code in both.  Arrays that list other      *)
(* values than literals are left out: evaluating them is not modelled.     *)
(***************************************************************************)
EXTENDS TreeBuilder
LOCAL INSTANCE SequencesExt

VARIABLES
  interpreted,  (* array declaration -> the interpreter's memory         *)
  emitted       (* array declaration -> what the emitter made of it      *)

arrayVars == <<vars, interpreted, emitted>>

Undefined == [is |-> "undefined"]
Abort == [is |-> "abort"]
List(l) == [is |-> "list", list |-> l]
Val(v) == [is |-> "value", value |-> v]

ValueOf(x) == IF x.node \in {"ToInt", "ToFloat"} THEN x.operant.value ELSE x.value

---------------------------------------------------------------------------
(* parseInitList: braces and bare values to a list of rows.  The type is   *)
(* given by its extents, innermost first.                                  *)

Cut(s, from, to) == SubSeq(s, from, IF to < Len(s) THEN to ELSE Len(s))

RECURSIVE Parsed(_, _)
\* A mutant: the last element is left out when the values end in it.
ChunksWhole(below, s, n) ==
  [i \in 1..(Len(s) \div n) |-> Parsed(below, Cut(s, (i - 1) * n + 1, i * n))]
\* Bare values fill elements of size n, the last of them perhaps in part.
Chunks(below, s, n) ==
  LET count == (Len(s) + n - 1) \div n
  IN [i \in 1..count |-> Parsed(below, Cut(s, (i - 1) * n + 1, i * n))]

\* One row after the other: bare values wait until a list or the end.
RECURSIVE Rows(_, _, _, _)
Rows(below, inits, bares, rows) ==
  LET n == Product(below) IN
  IF inits = <<>> THEN rows \o Chunks(below, bares, n)
  ELSE IF ~IsList(Head(inits))
       THEN Rows(below, Tail(inits), Append(bares, Head(inits)), rows)
  ELSE IF below = <<>> \/ Len(bares) \notin {0, n} THEN <<Abort>>
  ELSE Rows(below, Tail(inits), <<>>,
            (IF bares = <<>> THEN rows ELSE Append(rows, Parsed(below, bares)))
              \o <<Parsed(below, Head(inits).vals)>>)

Parsed(dims, inits) ==
  IF inits = <<>> THEN List(<<>>)
  ELSE IF dims = <<>> THEN IF Len(inits) = 1 THEN Val(ValueOf(inits[1])) ELSE Abort
  ELSE LET rows == Rows(Front(dims), inits, <<>>, <<>>)
       IN IF \E i \in DOMAIN rows : rows[i] = Abort THEN Abort ELSE List(rows)

---------------------------------------------------------------------------
(* The interpreter: zeroed memory, filled row by row.                      *)

RECURSIVE Filled(_, _, _, _)
Filled(mem, dims, at, info) ==
  IF info.is = "value" THEN [mem EXCEPT ![at] = info.value]
  ELSE LET n == Product(Front(dims))
           row[i \in 0..Len(info.list)] ==
             IF i = 0 THEN mem
             ELSE Filled(row[i - 1], Front(dims), at + (i - 1) * n, info.list[i])
       IN row[Len(info.list)]

Zeroed(t) == [at \in 0..(SizeOf(t) - 1) |-> 0]

\* What is left of the memory when parsing the list aborts.
NoMemory == [at \in {} |-> 0]

InterpretedArray(t, init) ==
  IF init = None THEN Zeroed(t)
  ELSE LET info == Parsed(t.dims, init.vals)
       IN IF info = Abort THEN NoMemory ELSE Filled(Zeroed(t), t.dims, 0, info)

---------------------------------------------------------------------------
(* The emitter.                                                            *)

\* The stores of FillInitListMemory, as index sequences with their values.
RECURSIVE Stores(_, _)
StoresFromOne(index, info) == \* a mutant: the elements are counted from one
  IF info.is = "value" THEN {[index |-> index, value |-> info.value]}
  ELSE UNION {Stores(Append(index, i), info.list[i]) : i \in DOMAIN info.list}
Stores(index, info) ==
  IF info.is = "value" THEN {[index |-> index, value |-> info.value]}
  ELSE UNION {Stores(Append(index, i - 1), info.list[i]) : i \in DOMAIN info.list}

\* A local's allocation, with what its stores leave at each address; what
\* they do not reach is not defined.
LocalArray(t, init) ==
  LET ir == corr_type(t)
      info == IF init = None THEN List(<<>>) ELSE Parsed(t.dims, init.vals)
      at(st) == IROffset(ir, st.index)
      S == Stores(<<>>, info)
  IN IF info = Abort THEN Abort
     ELSE [is |-> "local", size |-> IRSize(ir),
           mem |-> [a \in {at(st) : st \in S} |->
                      (CHOOSE st \in S : at(st) = a).value]]

GlobalArray(t, init) ==
  IF init = None THEN List(<<>>) ELSE Parsed(t.dims, init.vals)

\* constevalArrayRef: the size of an empty list less one is no bound.
RECURSIVE constevalArrayRef(_, _)
constevalShort(info, index) == \* a mutant: the last element is past the end
  IF info.is = "value" THEN info
  ELSE IF info.list = <<>> THEN Undefined
  ELSE IF Head(index) + 1 < Len(info.list)
       THEN constevalArrayRef(info.list[Head(index) + 1], Tail(index))
  ELSE Val(0)
constevalArrayRef(info, index) ==
  IF info.is = "value" THEN info
  ELSE IF info.list = <<>> THEN Undefined
  ELSE IF Head(index) < Len(info.list)
       THEN constevalArrayRef(info.list[Head(index) + 1], Tail(index))
  ELSE Val(0)

---------------------------------------------------------------------------
(* The consumers visit the declarations of a finished tree.                *)

\* The environment a declaring node was entered in, and its type.
EnvOfDecl(no) ==
  CHOOSE e \in DOMAIN tree.envs :
    /\ tree.nodes[no].var \in DOMAIN tree.envs[e].vars.entry
    /\ tree.envs[e].vars.entry[tree.nodes[no].var].info.decl = no
TypeOfDecl(no) == tree.envs[EnvOfDecl(no)].vars.entry[tree.nodes[no].var].info.type

RECURSIVE Literals(_)
Literals(x) == IF IsList(x) THEN \A i \in DOMAIN x.vals : Literals(x.vals[i])
               ELSE LET v == IF x.node \in {"ToInt", "ToFloat"} THEN x.operant ELSE x
                    IN v.node \in {"IntLiteral", "FloatLiteral"}

ArrayNodes == {no \in DOMAIN tree.nodes :
                 /\ tree.nodes[no].node = "VarDecl" /\ IsArray(TypeOfDecl(no))
                 /\ tree.nodes[no].init = None \/ Literals(tree.nodes[no].init)}

\* Each takes them in the order of the source; one does not depend on another.
FirstOf(nodes) == {no \in nodes : \A m \in nodes : no <= m}

InterpretVarDecl(no) ==
  /\ phase = "built"
  /\ no \in FirstOf(ArrayNodes \ DOMAIN interpreted)
  /\ interpreted' = [m \in DOMAIN interpreted \cup {no} |->
       IF m = no THEN InterpretedArray(TypeOfDecl(no), tree.nodes[no].init)
       ELSE interpreted[m]]
  /\ UNCHANGED <<vars, emitted>>

EmitVarDecl(no) ==
  /\ phase = "built"
  /\ no \in FirstOf(ArrayNodes \ DOMAIN emitted)
  /\ emitted' = [m \in DOMAIN emitted \cup {no} |->
       IF m # no THEN emitted[m]
       ELSE IF EnvOfDecl(no) = 1 THEN GlobalArray(TypeOfDecl(no), tree.nodes[no].init)
       ELSE LocalArray(TypeOfDecl(no), tree.nodes[no].init)]
  /\ UNCHANGED <<vars, interpreted>>

ArrayInit == Init /\ interpreted = [no \in {} |-> Abort] /\ emitted = [no \in {} |-> Abort]

ArrayNext ==
  \/ Next /\ UNCHANGED <<interpreted, emitted>>
  \/ \E no \in DOMAIN tree.nodes : InterpretVarDecl(no) \/ EmitVarDecl(no)

ArraySpec == ArrayInit /\ [][ArrayNext]_arrayVars
=============================================================================
