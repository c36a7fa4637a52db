----------------------------- MODULE DataTypes -----------------------------
(***************************************************************************)
(* The types of the syntax tree and of the intermediate representation.    *)
(* An array keeps its extents innermost first: int[2][3] is <<3, 2>>       *)
(* (Array.h).  Its type in the IR is nested: an array of arrays.           *)
(***************************************************************************)
EXTENDS Naturals, Sequences

Int_v   == [kind |-> "int"]
Float_v == [kind |-> "float"]
Void_v  == [kind |-> "void"]
Arr(base, dims) == [kind |-> "array", base |-> base, dims |-> dims]
Ptr(to) == [kind |-> "pointer", to |-> to]
Func(result, params) == [kind |-> "function", result |-> result, params |-> params]

IsBasic(t) == t \in {Int_v, Float_v}
IsArray(t) == t.kind = "array"
IsPointer(t) == t.kind = "pointer"
Rank(t) == Len(t.dims)

\* The product of a sequence of extents.
Product(s) ==
  LET upTo[i \in 0..Len(s)] == IF i = 0 THEN 1 ELSE s[i] * upTo[i - 1]
  IN upTo[Len(s)]

SizeOf(t) == Product(t.dims)

\* What is left of an array after its n outermost indexes.
IndexArray(t, n) ==
  IF n = 0 THEN t
  ELSE IF n = Rank(t) THEN t.base
  ELSE IF n < Rank(t) THEN Arr(t.base, SubSeq(t.dims, 1, Rank(t) - n))
  ELSE Void_v

IndexPointer(t, n) ==
  IF n = 0 THEN t ELSE IF n = 1 THEN t.to ELSE IndexArray(t.to, n - 1)

Index(t, n) == IF IsArray(t) THEN IndexArray(t, n) ELSE IndexPointer(t, n)

\* The offset of t[ind[1]]...[ind[n]], in elements.
ArrayOffset(t, ind) ==
  LET n == Len(ind)
      low == Rank(t) - n
      block[i \in 0..n] ==
        IF i = 0 THEN Product(SubSeq(t.dims, 1, low)) ELSE block[i - 1] * t.dims[low + i]
      sum[i \in 0..n] == IF i = 0 THEN 0 ELSE sum[i - 1] + block[i - 1] * ind[n + 1 - i]
  IN sum[n]

PointerOffset(t, ind) ==
  IF IsArray(t.to)
  THEN SizeOf(t.to) * Head(ind)
         + IF Len(ind) > 1 THEN ArrayOffset(t.to, Tail(ind)) ELSE 0
  ELSE Head(ind)

Offset(t, ind) == IF IsArray(t) THEN ArrayOffset(t, ind) ELSE PointerOffset(t, ind)

\* An array matches a pointer to what its first index leaves.
ArrayMatchesPointer(a, p) ==
  IF IsArray(p.to)
  THEN /\ p.to.base = a.base
       /\ Rank(a) = Rank(p.to) + 1
       /\ p.to.dims = SubSeq(a.dims, 1, Rank(a) - 1)
  ELSE Rank(a) = 1 /\ p.to = a.base
Match(l, r) ==
  \/ l = r
  \/ IsArray(l) /\ IsPointer(r) /\ ArrayMatchesPointer(l, r)
  \/ IsPointer(l) /\ IsArray(r) /\ ArrayMatchesPointer(r, l)

---------------------------------------------------------------------------
(* Types of the IR.                                                        *)

IRArr(sub, data) == [id |-> "arr", sub |-> sub, data |-> data]
IRBasic(t) == [id |-> t.kind]

\* corr_type takes the extent of every level from position 0, which holds
\* the innermost one.
corr_array(t) ==
  LET nested[i \in 0..Rank(t)] ==
        IF i = 0 THEN IRBasic(t.base) ELSE IRArr(nested[i - 1], t.dims[1])
  IN nested[Rank(t)]
corr_type(t) ==
  IF IsArray(t) THEN corr_array(t)
  ELSE IF ~IsPointer(t) THEN IRBasic(t)
  ELSE IRArr(IF IsArray(t.to) THEN corr_array(t.to) ELSE IRBasic(t.to), 0)

\* Type::size in elements, and what each index of indexof steps over.
RECURSIVE IRSize(_)
IRSize(t) == IF t.id = "arr" THEN t.data * IRSize(t.sub) ELSE 1

RECURSIVE IROffset(_, _)
IROffset(t, ind) ==
  IF ind = <<>> THEN 0
  ELSE Head(ind) * IRSize(t.sub) + IROffset(t.sub, Tail(ind))
=============================================================================
