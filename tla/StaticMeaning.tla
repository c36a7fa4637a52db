--------------------------- MODULE StaticMeaning ---------------------------
(***************************************************************************)
(* The reference for the front end: what the declarations of a program     *)
(* mean under static scoping, read off the source without symbol tables.   *)
(* A name denotes what its innermost declaration before the use says; a    *)
(* constant's value is fixed where it is declared; an initialiser list     *)
(* fills an array in row-major order, and a nested list fills the largest  *)
(* row that starts where it stands.                                        *)
(***************************************************************************)
EXTENDS DataTypes, Integers

CONSTANT None

---------------------------------------------------------------------------
(* Initialiser lists.  Extents are in source order, outermost first.       *)

\* The rows a list may fill at an element: those of the most extents whose
\* size divides its place.
RowAt(dims, at) ==
  LET starts == {k \in 2..(Len(dims) + 1) : at % Product(SubSeq(dims, k, Len(dims))) = 0}
      k == CHOOSE k \in starts : \A j \in starts : k <= j
  IN SubSeq(dims, k, Len(dims))

\* The elements listed, by place; the rest of the array is zero.
RECURSIVE ListedFrom(_, _, _)
ListedFrom(dims, items, at) ==
  IF items = <<>> THEN {}
  ELSE LET x == Head(items) IN
    IF x.e # "list"
    THEN {[at |-> at, item |-> x]} \cup ListedFrom(dims, Tail(items), at + 1)
    ELSE LET row == RowAt(dims, at)
         IN {[at |-> at + l.at, item |-> l.item] : l \in ListedFrom(row, x.items, 0)}
              \cup ListedFrom(dims, Tail(items), at + Product(row))

\* The place of an element.
PlaceOf(dims, index) ==
  LET sum[i \in 0..Len(dims)] ==
        IF i = 0 THEN 0 ELSE sum[i - 1] * dims[i] + index[i]
  IN sum[Len(dims)]

---------------------------------------------------------------------------
(* Constant expressions; meaning gives a name its constant: a number, or   *)
(* the extents and the listed values of an array.                          *)

Number(n) == [is |-> "number", n |-> n]
Constants(dims, mem) == [is |-> "array", dims |-> dims, mem |-> mem]
NotConstant == [is |-> "variable"]

RECURSIVE ValueIn(_, _)
ValueIn(meaning, e) ==
  CASE e.e = "int" -> e.value
    [] e.e = "ref" -> meaning[e.name].n
    [] e.e = "neg" -> -ValueIn(meaning, e.sub)
    [] e.e = "binary" ->
         LET l == ValueIn(meaning, e.lhs)
             r == ValueIn(meaning, e.rhs)
         IN (CASE e.op = "+" -> l + r [] e.op = "-" -> l - r [] e.op = "*" -> l * r
               [] e.op = "/" -> l \div r [] e.op = "%" -> l % r)
    [] e.e = "elem" ->
         LET a == meaning[e.name]
             index == [i \in DOMAIN e.index |-> ValueIn(meaning, e.index[i])]
         IN a.mem[PlaceOf(a.dims, index)]

Dims(meaning, exps) == [i \in DOMAIN exps |-> ValueIn(meaning, exps[i])]
SourceOrder(dims) == [i \in DOMAIN dims |-> dims[Len(dims) + 1 - i]]

\* The elements of an array by place.
ValuesOf(meaning, dims, init) ==
  LET L == IF init = None THEN {} ELSE ListedFrom(dims, init.items, 0)
  IN [at \in 0..(Product(dims) - 1) |->
       IF \E l \in L : l.at = at
       THEN ValueIn(meaning, (CHOOSE l \in L : l.at = at).item) ELSE 0]

---------------------------------------------------------------------------
(* Declarations, in the order of the source: the type of each, and the     *)
(* elements of the arrays.                                                 *)

TypeIn(meaning, item) ==
  LET dims == SourceOrder(Dims(meaning, item.dims)) IN
  CASE item.s = "param" /\ item.pointer ->
         Ptr(IF dims = <<>> THEN item.base ELSE Arr(item.base, dims))
    [] OTHER -> IF dims = <<>> THEN item.base ELSE Arr(item.base, dims)

Declaration(meaning, item) ==
  LET isArray == item.s # "param" /\ item.dims # <<>>
      dims == Dims(meaning, item.dims)
  IN [name |-> item.name, type |-> TypeIn(meaning, item),
      elems |-> IF isArray THEN ValuesOf(meaning, dims, item.init) ELSE <<>>,
      listed |-> IF isArray /\ item.init # None
                 THEN {l.at : l \in ListedFrom(dims, item.init.items, 0)} ELSE {}]

MeaningOf(meaning, item) ==
  IF item.s # "const" THEN NotConstant
  ELSE IF item.dims = <<>> THEN Number(ValueIn(meaning, item.init))
  ELSE Constants(Dims(meaning, item.dims),
                 ValuesOf(meaning, Dims(meaning, item.dims), item.init))

Bound(meaning, item) ==
  [n \in DOMAIN meaning \cup {item.name} |->
     IF n = item.name THEN MeaningOf(meaning, item) ELSE meaning[n]]

\* What a statement declares inside itself stays inside.
RECURSIVE Declarations(_, _)
Inside(meaning, item) ==
  CASE item.s = "block" -> Declarations(meaning, item.items)
    [] item.s = "if" -> Declarations(meaning, <<item.then>>)
                          \o IF item.orelse = None THEN <<>>
                             ELSE Declarations(meaning, <<item.orelse>>)
    [] item.s = "while" -> Declarations(meaning, <<item.body>>)
    [] item.s = "func" -> Declarations(meaning, item.params \o <<item.body>>)
    [] OTHER -> <<>>
Declarations(meaning, items) ==
  IF items = <<>> THEN <<>>
  ELSE LET item == Head(items) IN
    IF item.s \in {"const", "var", "param"}
    THEN <<Declaration(meaning, item)>> \o Declarations(Bound(meaning, item), Tail(items))
    ELSE Inside(meaning, item) \o Declarations(meaning, Tail(items))

MeaningOfUnit(items) == Declarations([n \in {} |-> NotConstant], items)
=============================================================================
