-------------------------- MODULE EmitterCodeProofs --------------------------
(***************************************************************************)
(* Proofs about the code the emitter makes, for any programs and any       *)
(* finite number of blocks: the code is in static single assignment form,  *)
(* the edges of its blocks are those their gateways need, and every block  *)
(* of a function can be reached from its head.                             *)
(***************************************************************************)
EXTENDS EmitterProofs, WellFoundedInduction

---------------------------------------------------------------------------
(* Static single assignment.  A register is held where it gets its value,  *)
(* in a list of parameters still to be made, or in a call about to make    *)
(* one.  While a block is being sealed, and only then, its incomplete      *)
(* parameters are also in one of the other two.                            *)

\* The calls s will give block b the parameter r.  A call is known by how many
\* come after it.
PendingIn(s, b, i, r) ==
  \E j \in 1..Len(s) : s[j][1] = "addArg" /\ s[j][4] = b /\ s[j][3] = r /\ i = Len(s) - j

SealsIn(s, b) == \E j \in 1..Len(s) : s[j][1] = "sealed" /\ s[j][2] = b

InstHolds(b, i, r) ==
  b \in Block /\ i \in 1..Len(insts[b]) /\ insts[b][i].op \in {"call", "ld"} /\ r = insts[b][i].v
ParamHolds(b, i, r) == b \in Block /\ i \in 1..Len(params[b]) /\ r = params[b][i]
WaitHolds(b, i, r) == b \in Block /\ i \in 1..Len(incomplete[b]) /\ r = incomplete[b][i][2]
FunctionHolds(p, i, r) == p \in Proc /\ i \in 1..Len(procParams[p]) /\ r = procParams[p][i]
PendingHolds(b, i, r) == PendingIn(Frame.todo, b, i, r)

Holds(k, b, i, r) ==
  \/ k = "inst" /\ InstHolds(b, i, r)
  \/ k = "param" /\ ParamHolds(b, i, r)
  \/ k = "waiting" /\ WaitHolds(b, i, r)
  \/ k = "function" /\ FunctionHolds(b, i, r)
  \/ k = "pending" /\ PendingHolds(b, i, r)

Sealing(b) == SealsIn(Frame.todo, b)

\* The parameter that sealing block b makes of an incomplete one.
Completes(k, b, l, c) == k = "waiting" /\ l \in {"param", "pending"} /\ b = c /\ Sealing(b)

UniqueInv ==
  \A k, b, i, l, c, j, r :
    Holds(k, b, i, r) /\ Holds(l, c, j, r) =>
      \/ k = l /\ b = c /\ i = j
      \/ Completes(k, b, l, c)
      \/ Completes(l, c, k, b)

\* A register that is held was handed out.
LEMMA HeldIsRegister ==
  ASSUME TypesInv, NEW k, NEW b, NEW i, NEW r, Holds(k, b, i, r)
  PROVE  r \in Regs(regs)
<1>1. InstHolds(b, i, r) => r \in Regs(regs)
  BY DEF TypesInv, CodeTyped, InstHolds
<1>2. ParamHolds(b, i, r) \/ WaitHolds(b, i, r) \/ FunctionHolds(b, i, r) => r \in Regs(regs)
  BY DEF TypesInv, ParamsTyped, ParamHolds, WaitHolds, FunctionHolds
<1>3. PendingHolds(b, i, r) => r \in Regs(regs)
  BY DEF TypesInv, FramesTyped, PendingHolds, PendingIn, CallOK
<1>4. QED BY <1>1, <1>2, <1>3 DEF Holds

\* The calls that remain.
LEMMA PendingTail ==
  ASSUME NEW s, IsSeq(s), Len(s) # 0
  PROVE  /\ \A b, i, r : PendingIn(Tail(s), b, i, r) => PendingIn(s, b, i, r) /\ i # Len(s) - 1
         /\ \A b : SealsIn(s, b) => SealsIn(Tail(s), b) \/ (s[1][1] = "sealed" /\ s[1][2] = b)
<1> DEFINE t == Tail(s)
           n == Len(s)
<1>1. /\ n \in Nat /\ Len(t) = n - 1
      /\ \A j \in 1..(n - 1) : t[j] = s[j + 1] /\ j + 1 \in 1..n
  BY SeqFacts, TailFacts
<1> HIDE DEF t, n
<1>2. ASSUME NEW b, NEW i, NEW r, PendingIn(t, b, i, r)
      PROVE  PendingIn(s, b, i, r) /\ i # n - 1
  <2>1. PICK j \in 1..Len(t) : t[j][1] = "addArg" /\ t[j][4] = b /\ t[j][3] = r /\ i = Len(t) - j
    BY <1>2 DEF PendingIn
  <2>2. t[j] = s[j + 1] /\ j + 1 \in 1..n /\ i = n - (j + 1) /\ i # n - 1
    BY <1>1, <2>1
  <2>3. QED BY <2>1, <2>2 DEF PendingIn, n
<1>3. ASSUME NEW b, SealsIn(s, b)
      PROVE  SealsIn(t, b) \/ (s[1][1] = "sealed" /\ s[1][2] = b)
  <2>1. PICK j \in 1..n : s[j][1] = "sealed" /\ s[j][2] = b
    BY <1>3 DEF SealsIn, n
  <2>2. CASE j = 1
    BY <2>1, <2>2
  <2>3. CASE j # 1
    <3>1. j - 1 \in 1..(n - 1) /\ j - 1 + 1 = j
      BY <1>1, <2>3
    <3>2. t[j - 1] = s[j] /\ j - 1 \in 1..Len(t)
      BY <1>1, <3>1
    <3>3. QED BY <2>1, <3>2 DEF SealsIn
  <2>4. QED BY <2>2, <2>3
<1>4. QED BY <1>2, <1>3 DEF t, n

\* Calls put in front of them.
LEMMA PendingFront ==
  ASSUME NEW q, IsSeq(q), NEW s, IsSeq(s)
  PROVE  /\ \A b, i, r : PendingIn(q \o s, b, i, r) =>
              \/ PendingIn(s, b, i, r)
              \/ \E j \in 1..Len(q) : /\ q[j][1] = "addArg" /\ q[j][4] = b /\ q[j][3] = r
                                      /\ i = Len(q) + Len(s) - j
         /\ \A b : SealsIn(s, b) => SealsIn(q \o s, b)
         /\ \A b : \A j \in 1..Len(q) : q[j][1] = "sealed" /\ q[j][2] = b => SealsIn(q \o s, b)
<1> DEFINE t == q \o s
           m == Len(q)
           n == Len(s)
<1>1. /\ m \in Nat /\ n \in Nat /\ Len(t) = m + n
      /\ \A j \in 1..m : t[j] = q[j]
      /\ \A j \in 1..n : t[m + j] = s[j]
  <2>1. m \in Nat /\ n \in Nat
    BY SeqFacts
  <2>2. /\ Len(t) = m + n
        /\ \A j \in 1..m : t[j] = q[j]
        /\ \A j \in 1..n : t[m + j] = s[j]
    BY ConcatFacts
  <2>3. QED BY <2>1, <2>2
<1> HIDE DEF t, m, n
<1>2. ASSUME NEW b, NEW i, NEW r, PendingIn(t, b, i, r)
      PROVE  \/ PendingIn(s, b, i, r)
             \/ \E j \in 1..m : q[j][1] = "addArg" /\ q[j][4] = b /\ q[j][3] = r /\ i = m + n - j
  <2>1. PICK j \in 1..Len(t) : t[j][1] = "addArg" /\ t[j][4] = b /\ t[j][3] = r /\ i = Len(t) - j
    BY <1>2 DEF PendingIn
  <2>2. CASE j <= m
    <3>1. j \in 1..m /\ t[j] = q[j] /\ i = m + n - j
      BY <1>1, <2>1, <2>2
    <3>2. QED BY <2>1, <3>1
  <2>3. CASE ~(j <= m)
    <3>1. j - m \in 1..n /\ m + (j - m) = j /\ i = n - (j - m)
      BY <1>1, <2>1, <2>3
    <3>2. t[j] = s[j - m]
      BY <1>1, <3>1
    <3>3. QED BY <2>1, <3>1, <3>2 DEF PendingIn, n
  <2>4. QED BY <2>2, <2>3
<1>3. ASSUME NEW b, SealsIn(s, b) PROVE SealsIn(t, b)
  <2>1. PICK j \in 1..n : s[j][1] = "sealed" /\ s[j][2] = b
    BY <1>3 DEF SealsIn, n
  <2>2. m + j \in 1..Len(t) /\ t[m + j] = s[j]
    BY <1>1
  <2>3. QED BY <2>1, <2>2 DEF SealsIn
<1>4. ASSUME NEW b, NEW j \in 1..m, q[j][1] = "sealed", q[j][2] = b PROVE SealsIn(t, b)
  <2>1. j \in 1..Len(t) /\ t[j] = q[j]
    BY <1>1
  <2>2. QED BY <1>4, <2>1 DEF SealsIn
<1>5. QED BY <1>2, <1>3, <1>4 DEF t, m, n

LEMMA NothingPending ==
  ASSUME NEW s, NoReads(s)
  PROVE  /\ \A b, i, r : ~PendingIn(s, b, i, r)
         /\ \A b : ~SealsIn(s, b)
  BY DEF NoReads, ReadCalls, PendingIn, SealsIn

\* What a step may do: one register that is new, and a block that is being
\* sealed remains so as long as it has something incomplete.
SealingStays ==
  \A b, i, r : Sealing(b) /\ WaitHolds(b, i, r)' => Sealing(b)'

LEMMA UniqueGrows ==
  ASSUME UniqueInv, TypesInv, SealingStays, NEW m, NEW d, NEW n,
         \A k, b, i, r : Holds(k, b, i, r)' =>
           Holds(k, b, i, r) \/ (k = m /\ b = d /\ i = n /\ r = NewValue)
  PROVE  UniqueInv'
<1> SUFFICES ASSUME NEW k, NEW b, NEW i, NEW l, NEW c, NEW j, NEW r, Holds(k, b, i, r)', Holds(l, c, j, r)'
             PROVE  \/ k = l /\ b = c /\ i = j
                    \/ Completes(k, b, l, c)'
                    \/ Completes(l, c, k, b)'
  BY DEF UniqueInv
<1>1. CASE r = NewValue
  <2>1. ~Holds(k, b, i, r) /\ ~Holds(l, c, j, r)
    BY <1>1, HeldIsRegister, NextRegister DEF TypesInv
  <2>2. k = m /\ b = d /\ i = n /\ l = m /\ c = d /\ j = n
    BY <2>1
  <2>3. QED BY <2>2
<1>2. CASE r # NewValue
  <2>1. Holds(k, b, i, r) /\ Holds(l, c, j, r)
    BY <1>2
  <2>2. CASE k = l /\ b = c /\ i = j
    BY <2>2
  <2>3. CASE Completes(k, b, l, c)
    <3>1. WaitHolds(b, i, r)' /\ Sealing(b)
      BY <2>3 DEF Completes, Holds
    <3>2. Sealing(b)'
      BY <3>1 DEF SealingStays
    <3>3. QED BY <2>3, <3>2 DEF Completes
  <2>4. CASE Completes(l, c, k, b)
    <3>1. WaitHolds(c, j, r)' /\ Sealing(c)
      BY <2>4 DEF Completes, Holds
    <3>2. Sealing(c)'
      BY <3>1 DEF SealingStays
    <3>3. QED BY <2>4, <3>2 DEF Completes
  <2>5. QED BY <2>1, <2>2, <2>3, <2>4, Zenon DEF UniqueInv
<1>3. QED BY <1>1, <1>2

DataHolds(k, b, i, r) == k # "pending" /\ Holds(k, b, i, r)

\* Outside the calls, a step has at most one register that is new.
OneNew ==
  \E m, d, n : \A k, b, i, r :
    DataHolds(k, b, i, r)' => DataHolds(k, b, i, r) \/ (k = m /\ b = d /\ i = n /\ r = NewValue)

SameData == \A k, b, i, r : DataHolds(k, b, i, r)' => DataHolds(k, b, i, r)

LEMMA DataCases ==
  ASSUME NEW k, NEW b, NEW i, NEW r
  PROVE  /\ DataHolds(k, b, i, r) <=> \/ k = "inst" /\ InstHolds(b, i, r)
                                      \/ k = "param" /\ ParamHolds(b, i, r)
                                      \/ k = "waiting" /\ WaitHolds(b, i, r)
                                      \/ k = "function" /\ FunctionHolds(b, i, r)
         /\ DataHolds(k, b, i, r)' <=> \/ k = "inst" /\ InstHolds(b, i, r)'
                                       \/ k = "param" /\ ParamHolds(b, i, r)'
                                       \/ k = "waiting" /\ WaitHolds(b, i, r)'
                                       \/ k = "function" /\ FunctionHolds(b, i, r)'
         /\ Holds(k, b, i, r) <=> DataHolds(k, b, i, r) \/ (k = "pending" /\ PendingHolds(b, i, r))
         /\ Holds(k, b, i, r)' <=> DataHolds(k, b, i, r)' \/ (k = "pending" /\ PendingHolds(b, i, r)')
  BY DEF DataHolds, Holds

\* What is left alone holds what it held.
LEMMA UnchangedHolds ==
  /\ insts' = insts => \A b, i, r : InstHolds(b, i, r)' => InstHolds(b, i, r)
  /\ params' = params => \A b, i, r : ParamHolds(b, i, r)' => ParamHolds(b, i, r)
  /\ incomplete' = incomplete => \A b, i, r : WaitHolds(b, i, r)' => WaitHolds(b, i, r)
  /\ procParams' = procParams => \A b, i, r : FunctionHolds(b, i, r)' => FunctionHolds(b, i, r)
<1>1. insts' = insts => \A b, i, r : InstHolds(b, i, r)' => InstHolds(b, i, r)
  BY DEF InstHolds
<1>2. params' = params => \A b, i, r : ParamHolds(b, i, r)' => ParamHolds(b, i, r)
  BY DEF ParamHolds
<1>3. incomplete' = incomplete => \A b, i, r : WaitHolds(b, i, r)' => WaitHolds(b, i, r)
  BY DEF WaitHolds
<1>4. procParams' = procParams => \A b, i, r : FunctionHolds(b, i, r)' => FunctionHolds(b, i, r)
  BY DEF FunctionHolds
<1>5. QED BY <1>1, <1>2, <1>3, <1>4

\* What holds one register more.
LEMMA InstAppended ==
  ASSUME TypesInv, NEW inst, insts' = Pushed(inst), NewInst(inst)
  PROVE  \A b, i, r : InstHolds(b, i, r)' =>
           InstHolds(b, i, r) \/ (b = current_block /\ i = Len(insts[current_block]) + 1 /\ r = NewValue)
<1>1. insts' = [insts EXCEPT ![current_block] = Append(@, inst)]
  BY DEF Pushed
<1>2. DOMAIN insts = Block /\ \A b \in Block : IsSeq(insts[b])
  BY DEF TypesInv, CodeTyped
<1>3. inst.op \in {"call", "ld"} => inst.v = NewValue
  BY DEF NewInst
<1> HIDE DEF current_block, NewValue
<1>4. \A b \in Block : \A i \in 1..Len(insts'[b]) :
              \/ i \in 1..Len(insts[b]) /\ insts'[b][i] = insts[b][i]
              \/ b = current_block /\ i = Len(insts[current_block]) + 1 /\ insts'[b][i] = inst
  BY <1>1, <1>2, AppendAt
<1>5. QED BY <1>3, <1>4 DEF InstHolds

LEMMA ParamAppended ==
  ASSUME ListsInv, NEW d, NEW v, params' = [params EXCEPT ![d] = Append(@, v)]
  PROVE  \A b, i, r : ParamHolds(b, i, r)' =>
           ParamHolds(b, i, r) \/ (b = d /\ i = Len(params[d]) + 1 /\ r = v)
<1>1. \A b \in Block : \A i \in 1..Len(params'[b]) :
              \/ i \in 1..Len(params[b]) /\ params'[b][i] = params[b][i]
              \/ b = d /\ i = Len(params[d]) + 1 /\ params'[b][i] = v
  BY AppendAt DEF ListsInv
<1>2. QED BY <1>1 DEF ParamHolds

LEMMA WaitAppended ==
  ASSUME ListsInv, NEW d, NEW x, NEW v, incomplete' = [incomplete EXCEPT ![d] = Append(@, <<x, v>>)]
  PROVE  \A b, i, r : WaitHolds(b, i, r)' =>
           WaitHolds(b, i, r) \/ (b = d /\ i = Len(incomplete[d]) + 1 /\ r = v)
<1> DEFINE e == <<x, v>>
<1>1. e[2] = v /\ incomplete' = [incomplete EXCEPT ![d] = Append(@, e)]
  OBVIOUS
<1> HIDE DEF e
<1>2. \A b \in Block : \A i \in 1..Len(incomplete'[b]) :
              \/ i \in 1..Len(incomplete[b]) /\ incomplete'[b][i] = incomplete[b][i]
              \/ b = d /\ i = Len(incomplete[d]) + 1 /\ incomplete'[b][i] = e
  BY <1>1, AppendAt DEF ListsInv
<1>3. QED BY <1>1, <1>2 DEF WaitHolds

LEMMA FunctionAppended ==
  ASSUME TypesInv, NEW d, NEW v, procParams' = [procParams EXCEPT ![d] = Append(@, v)]
  PROVE  \A b, i, r : FunctionHolds(b, i, r)' =>
           FunctionHolds(b, i, r) \/ (b = d /\ i = Len(procParams[d]) + 1 /\ r = v)
<1>1. DOMAIN procParams = Proc /\ \A p \in Proc : IsSeq(procParams[p])
  BY DEF TypesInv, ParamsTyped
<1>2. \A b \in Proc : \A i \in 1..Len(procParams'[b]) :
              \/ i \in 1..Len(procParams[b]) /\ procParams'[b][i] = procParams[b][i]
              \/ b = d /\ i = Len(procParams[d]) + 1 /\ procParams'[b][i] = v
  BY <1>1, AppendAt
<1>3. QED BY <1>2 DEF FunctionHolds

\* Steps of the code and of the names.
LEMMA SilentOneNew ==
  ASSUME EmitterInv, TypesInv, Grows, SimpleAction \/ VisitAction
  PROVE  OneNew
<1>1. CASE QuietAction
  <2>1. UNCHANGED <<insts, params, procParams, incomplete>>
    BY <1>1, QuietTypes
  <2>2. SameData
    BY <2>1, UnchangedHolds, DataCases DEF SameData
  <2>3. QED BY <2>2 DEF SameData, OneNew
<1>2. CASE AssignLocal \/ DeclareLocal
  <2>1. UNCHANGED <<insts, params, procParams, incomplete>>
    BY <1>2, WriteTypes
  <2>2. SameData
    BY <2>1, UnchangedHolds, DataCases DEF SameData
  <2>3. QED BY <2>2 DEF SameData, OneNew
<1>3. CASE CodeAction
  <2>1. PICK inst : insts' = Pushed(inst) /\ NewInst(inst)
    BY <1>3, CodeFacts
  <2>2. UNCHANGED <<params, procParams, incomplete>>
    BY <1>3, CodeFacts
  <2> HIDE DEF NewValue, current_block
  <2>3. \A k, b, i, r :
          DataHolds(k, b, i, r)' => \/ DataHolds(k, b, i, r)
                                    \/ k = "inst" /\ b = current_block /\ i = Len(insts[current_block]) + 1 /\ r = NewValue
    BY <2>1, <2>2, InstAppended, UnchangedHolds, DataCases
  <2>4. QED BY <2>3 DEF OneNew
<1>4. CASE AddArg
  <2>1. UNCHANGED <<insts, procParams, incomplete>> /\ params' = [params EXCEPT ![Slot(What)] = Append(@, NewValue)]
    BY <1>4, ArgTypes
  <2> DEFINE d == Slot(What)
  <2> HIDE DEF NewValue, d
  <2>2. \A b, i, r : ParamHolds(b, i, r)' =>
           ParamHolds(b, i, r) \/ (b = d /\ i = Len(params[d]) + 1 /\ r = NewValue)
    BY <2>1, ParamAppended DEF d, EmitterInv
  <2>3. \A k, b, i, r :
          DataHolds(k, b, i, r)' => \/ DataHolds(k, b, i, r)
                                    \/ k = "param" /\ b = d /\ i = Len(params[d]) + 1 /\ r = NewValue
    BY <2>1, <2>2, UnchangedHolds, DataCases
  <2>4. QED BY <2>3 DEF OneNew
<1>5. CASE FunctionParam
  <2>1. UNCHANGED <<insts, params, incomplete>>
    BY <1>5, FunctionParamTypes
  <2>2. CASE procParams' = procParams
    <3>1. SameData
      BY <2>1, <2>2, UnchangedHolds, DataCases DEF SameData
    <3>2. QED BY <3>1 DEF SameData, OneNew
  <2>3. CASE procParams' = [procParams EXCEPT ![What] = Append(@, NewValue)]
    <3> HIDE DEF NewValue, What
    <3> DEFINE n == Len(procParams[What]) + 1
    <3>1. \A b, i, r : FunctionHolds(b, i, r)' =>
             FunctionHolds(b, i, r) \/ (b = What /\ i = n /\ r = NewValue)
      BY <2>3, FunctionAppended
    <3> HIDE DEF n
    <3>2. \A k, b, i, r :
            DataHolds(k, b, i, r)' => \/ DataHolds(k, b, i, r)
                                      \/ k = "function" /\ b = What /\ i = n /\ r = NewValue
      BY <2>1, <3>1, UnchangedHolds, DataCases
    <3>3. QED BY <3>2 DEF OneNew
  <2>4. QED BY <1>5, <2>2, <2>3, FunctionParamTypes
<1>6. QED BY <1>1, <1>2, <1>3, <1>4, <1>5 DEF SimpleAction, QuietAction, CodeAction

\* While no operand is looked for no parameter is waiting for its call.
LEMMA SilentUnique ==
  ASSUME UniqueInv, TypesInv, OneNew, Silent
  PROVE  UniqueInv'
<1>1. /\ \A b, i, r : ~PendingHolds(b, i, r)'
      /\ \A b : ~Sealing(b)
  BY NothingPending DEF Silent, PendingHolds, Sealing
<1>2. SealingStays
  BY <1>1 DEF SealingStays
<1>3. PICK m, d, n : \A k, b, i, r :
        DataHolds(k, b, i, r)' => DataHolds(k, b, i, r) \/ (k = m /\ b = d /\ i = n /\ r = NewValue)
  BY DEF OneNew
<1>4. \A k, b, i, r : Holds(k, b, i, r)' => Holds(k, b, i, r) \/ (k = m /\ b = d /\ i = n /\ r = NewValue)
  BY <1>1, <1>3, DataCases
<1>5. QED BY <1>2, <1>4, UniqueGrows

\* The calls go on, and none is added that makes a parameter.
LEMMA FrontUnique ==
  ASSUME UniqueInv, TypesInv, OneNew, IsSeq(Frame.todo), Len(Frame.todo) # 0,
         NEW q, IsSeq(q), \A j \in 1..Len(q) : q[j][1] # "addArg",
         Frame'.todo = q \o Tail(Frame.todo) \/ Frame'.todo = Tail(Frame.todo),
         \A b : Frame.todo[1][1] = "sealed" /\ Frame.todo[1][2] = b => \A i, r : ~WaitHolds(b, i, r)'
  PROVE  UniqueInv'
<1> DEFINE t == Tail(Frame.todo)
<1>1. /\ IsSeq(t)
      /\ \A b, i, r : PendingIn(t, b, i, r) => PendingIn(Frame.todo, b, i, r)
      /\ \A b : SealsIn(Frame.todo, b) => SealsIn(t, b) \/ (Frame.todo[1][1] = "sealed" /\ Frame.todo[1][2] = b)
  BY PendingTail, TailFacts
<1> HIDE DEF t
<1>2. /\ \A b, i, r : PendingIn(q \o t, b, i, r) => PendingIn(t, b, i, r)
      /\ \A b : SealsIn(t, b) => SealsIn(q \o t, b)
  BY <1>1, PendingFront
<1>3. /\ \A b, i, r : PendingHolds(b, i, r)' => PendingHolds(b, i, r)
      /\ \A b : Sealing(b) => Sealing(b)' \/ (Frame.todo[1][1] = "sealed" /\ Frame.todo[1][2] = b)
  BY <1>1, <1>2 DEF t, PendingHolds, Sealing
<1>4. SealingStays
  BY <1>3 DEF SealingStays
<1>5. PICK m, d, n : \A k, b, i, r :
        DataHolds(k, b, i, r)' => DataHolds(k, b, i, r) \/ (k = m /\ b = d /\ i = n /\ r = NewValue)
  BY DEF OneNew
<1>6. \A k, b, i, r : Holds(k, b, i, r)' => Holds(k, b, i, r) \/ (k = m /\ b = d /\ i = n /\ r = NewValue)
  BY <1>3, <1>5, DataCases
<1>7. QED BY <1>4, <1>6, UniqueGrows, SMTT(30)

\* A block's incomplete parameters are about to be completed.
LEMMA SealUnique ==
  ASSUME EmitterInv, TypesInv, UniqueInv, NEW d \in Block, SealBlock(d),
         Frame.todo # <<>>, NoReads(Frame.todo), NoReads(Tail(Frame.todo))
  PROVE  UniqueInv'
<1> DEFINE n == Len(incomplete[d])
           q == Completing(d)
           t == Tail(Frame.todo)
           e == n + 1 + Len(t)
<1>1. Frame'.todo = q \o t /\ UNCHANGED <<insts, params, procParams, incomplete>>
  <2>1. ProceedWith(q) /\ UNCHANGED <<insts, params, procParams, incomplete>>
    BY DEF SealBlock, Completing, Finding, ssaVars
  <2> HIDE DEF q
  <2>2. QED BY <2>1, ProceedWithFacts DEF EmitterInv
<1>2. /\ IsSeq(q) /\ n \in Nat /\ Len(q) = n + 1
      /\ \A i \in 1..n : q[i] = <<"addArg", incomplete[d][i][1], incomplete[d][i][2], d>>
      /\ q[n + 1] = <<"sealed", d>>
  BY CompletingFacts DEF EmitterInv
<1>3. IsSeq(t) /\ Len(t) \in Nat
  <2>1. IsSeq(Frame.todo) /\ Len(Frame.todo) # 0
    BY FrameFacts, CallFacts, EmptyFacts DEF EmitterInv, TopState, UnitOK, Legal
  <2>2. QED BY <2>1, TailFacts, SeqFacts
<1> HIDE DEF n, q, t
<1>4. /\ \A b : ~Sealing(b)
      /\ \A b, i, r : ~PendingIn(t, b, i, r)
  BY NothingPending DEF Sealing, t
<1>5. Sealing(d)'
  <2>1. n + 1 \in 1..Len(q) /\ q[n + 1][1] = "sealed" /\ q[n + 1][2] = d
    BY <1>2
  <2>2. SealsIn(q \o t, d)
    BY <1>2, <1>3, <2>1, PendingFront
  <2>3. QED BY <1>1, <2>2 DEF Sealing
<1>6. ASSUME NEW b, NEW i, NEW r, PendingHolds(b, i, r)'
      PROVE  b = d /\ \E j \in 1..n : i = e - j /\ Holds("waiting", d, j, r)
  <2>1. PendingIn(q \o t, b, i, r)
    BY <1>1, <1>6 DEF PendingHolds
  <2>2. \/ PendingIn(t, b, i, r)
        \/ \E j \in 1..Len(q) : /\ q[j][1] = "addArg" /\ q[j][4] = b /\ q[j][3] = r
                                /\ i = Len(q) + Len(t) - j
    <3>1. IsSeq(q)
      BY <1>2
    <3>2. QED BY <1>3, <2>1, <3>1, PendingFront
  <2>3. PICK j \in 1..Len(q) : /\ q[j][1] = "addArg" /\ q[j][4] = b /\ q[j][3] = r
                               /\ i = Len(q) + Len(t) - j
    BY <1>4, <2>2
  <2>4. j \in 1..n
    <3>1. j # n + 1
      BY <1>2, <2>3
    <3>2. QED BY <1>2, <3>1
  <2>5. b = d /\ r = incomplete[d][j][2]
    BY <1>2, <2>3, <2>4
  <2>6. Holds("waiting", d, j, r)
    BY <2>4, <2>5 DEF Holds, WaitHolds, n
  <2>7. i = e - j
    BY <1>2, <2>3
  <2>8. QED BY <2>4, <2>5, <2>6, <2>7
<1>7. ASSUME NEW k, NEW b, NEW i, NEW r, Holds(k, b, i, r)'
      PROVE  Holds(k, b, i, r) \/ (k = "pending" /\ b = d /\ \E j \in 1..n : i = e - j /\ Holds("waiting", d, j, r))
  BY <1>1, <1>6, <1>7, UnchangedHolds, DataCases
<1>8. ASSUME NEW k, NEW b, NEW i, NEW l, NEW c, NEW j, NEW r, Holds(k, b, i, r), Holds(l, c, j, r)
      PROVE  k = l /\ b = c /\ i = j
  BY <1>4, <1>8, Zenon DEF UniqueInv, Completes
<1> HIDE DEF e
<1>9. ASSUME NEW k, NEW b, NEW i, NEW l, NEW c, NEW j, NEW r, Holds(k, b, i, r)', Holds(l, c, j, r)'
      PROVE  \/ k = l /\ b = c /\ i = j
             \/ Completes(k, b, l, c)'
             \/ Completes(l, c, k, b)'
  <2>1. CASE Holds(k, b, i, r) /\ Holds(l, c, j, r)
    BY <1>8, <2>1
  <2>2. CASE Holds(k, b, i, r) /\ ~Holds(l, c, j, r)
    <3>1. PICK m \in 1..n : l = "pending" /\ c = d /\ Holds("waiting", d, m, r)
      BY <1>7, <1>9, <2>2
    <3>2. k = "waiting" /\ b = d
      BY <1>8, <2>2, <3>1
    <3>3. QED BY <1>5, <3>1, <3>2 DEF Completes
  <2>3. CASE ~Holds(k, b, i, r) /\ Holds(l, c, j, r)
    <3>1. PICK m \in 1..n : k = "pending" /\ b = d /\ Holds("waiting", d, m, r)
      BY <1>7, <1>9, <2>3
    <3>2. l = "waiting" /\ c = d
      BY <1>8, <2>3, <3>1
    <3>3. QED BY <1>5, <3>1, <3>2 DEF Completes
  <2>4. CASE ~Holds(k, b, i, r) /\ ~Holds(l, c, j, r)
    <3>1. PICK m \in 1..n : k = "pending" /\ b = d /\ i = e - m /\ Holds("waiting", d, m, r)
      BY <1>7, <1>9, <2>4
    <3>2. PICK o \in 1..n : l = "pending" /\ c = d /\ j = e - o /\ Holds("waiting", d, o, r)
      BY <1>7, <1>9, <2>4
    <3>3. m = o
      BY <1>8, <3>1, <3>2
    <3>4. QED BY <3>1, <3>2, <3>3
  <2>5. QED BY <2>1, <2>2, <2>3, <2>4
<1>10. QED BY <1>9 DEF UniqueInv

\* An incomplete parameter becomes one of the block.
LEMMA AddBlockArgUnique ==
  ASSUME EmitterInv, TypesInv, UniqueInv, AddBlockArg
  PROVE  UniqueInv'
<1>0. PICK d, v : d = Frame.todo[1][4] /\ v = Frame.todo[1][3]
  OBVIOUS
<1> DEFINE x == Frame.todo[1][2]
           p == Len(params[d]) + 1
           z == Len(Frame.todo) - 1
           t == Tail(Frame.todo)
<1>1. /\ Frame.todo[1][1] = "addArg" /\ params' = [params EXCEPT ![d] = Append(@, v)]
      /\ UNCHANGED <<insts, procParams, incomplete>>
  BY <1>0 DEF AddBlockArg, Finding, Due, ssaVars
<1>2. PICK q : IsSeq(q) /\ Frame'.todo = q \o t /\ \A j \in 1..Len(q) : q[j][1] = "read"
  <2>1. PICK order \in SetToSeqs(PrevBlocks(d)) : ProceedWith([i \in DOMAIN order |-> <<"read", x, order[i][1]>>])
    BY <1>0 DEF AddBlockArg
  <2>2. ProceedWith(Asked(x, order))
    BY <2>1 DEF Asked
  <2> HIDE DEF x
  <2>3. IsSeq(Asked(x, order)) /\ \A j \in 1..Len(Asked(x, order)) : Asked(x, order)[j][1] = "read"
    BY AskedFacts
  <2>4. Frame'.todo = Asked(x, order) \o t
    BY <2>2, ProceedWithFacts DEF EmitterInv
  <2>5. QED BY <2>3, <2>4
<1>3. IsSeq(Frame.todo) /\ Len(Frame.todo) \in Nat /\ Len(Frame.todo) # 0 /\ IsSeq(t)
  <2>1. ReadAction
    BY DEF ReadAction
  <2>2. QED BY <2>1, ReadingFacts, SeqFacts
<1>4. Holds("pending", d, z, v)
  <2>1. 1 \in 1..Len(Frame.todo)
    BY <1>3
  <2>2. QED BY <1>0, <1>1, <2>1 DEF Holds, PendingHolds, PendingIn
<1> HIDE DEF t
<1>5. /\ \A b, i, r : PendingHolds(b, i, r)' => PendingHolds(b, i, r) /\ i # z
      /\ \A b : Sealing(b) => Sealing(b)'
  <2>1. /\ \A b, i, r : PendingIn(t, b, i, r) => PendingIn(Frame.todo, b, i, r) /\ i # z
        /\ \A b : SealsIn(Frame.todo, b) => SealsIn(t, b)
    BY <1>1, <1>3, PendingTail DEF t
  <2> HIDE DEF z
  <2>2. /\ \A b, i, r : PendingIn(q \o t, b, i, r) => PendingIn(t, b, i, r)
        /\ \A b : SealsIn(t, b) => SealsIn(q \o t, b)
    BY <1>2, <1>3, PendingFront
  <2>3. QED BY <1>2, <2>1, <2>2 DEF PendingHolds, Sealing
<1> HIDE DEF z
<1>6. \A b, i, r : ParamHolds(b, i, r)' => ParamHolds(b, i, r) \/ (b = d /\ i = p /\ r = v)
  BY <1>1, ParamAppended DEF EmitterInv
<1> HIDE DEF p
<1>7. ASSUME NEW k, NEW b, NEW i, NEW r, Holds(k, b, i, r)'
      PROVE  \/ Holds(k, b, i, r) /\ ~(k = "pending" /\ i = z)
             \/ k = "param" /\ b = d /\ i = p /\ r = v
  BY <1>1, <1>5, <1>6, <1>7, UnchangedHolds, DataCases
<1>8. ASSUME NEW l, NEW c, NEW j, Holds(l, c, j, v), ~(l = "pending" /\ j = z)
      PROVE  Completes(l, c, "param", d)'
  <2>1. \/ l = "pending" /\ c = d /\ j = z
        \/ Completes("pending", d, l, c)
        \/ Completes(l, c, "pending", d)
    BY <1>4, <1>8, Zenon DEF UniqueInv
  <2>2. l = "waiting" /\ c = d /\ Sealing(c)
    BY <1>8, <2>1 DEF Completes
  <2>3. Sealing(c)'
    BY <1>5, <2>2
  <2>4. QED BY <2>2, <2>3 DEF Completes
<1>9. ASSUME NEW k, NEW b, NEW i, NEW l, NEW c, NEW j, NEW r, Holds(k, b, i, r)', Holds(l, c, j, r)'
      PROVE  \/ k = l /\ b = c /\ i = j
             \/ Completes(k, b, l, c)'
             \/ Completes(l, c, k, b)'
  <2> DEFINE Old(kk, bb, ii) == Holds(kk, bb, ii, r) /\ ~(kk = "pending" /\ ii = z)
             Moved(kk, bb, ii) == kk = "param" /\ bb = d /\ ii = p /\ r = v
  <2>1. (Old(k, b, i) \/ Moved(k, b, i)) /\ (Old(l, c, j) \/ Moved(l, c, j))
    BY <1>7, <1>9
  <2>2. CASE Old(k, b, i) /\ Old(l, c, j)
    <3>1. \/ k = l /\ b = c /\ i = j
          \/ Completes(k, b, l, c)
          \/ Completes(l, c, k, b)
      BY <2>2, Zenon DEF UniqueInv
    <3>2. QED BY <1>5, <3>1 DEF Completes
  <2>3. CASE Moved(k, b, i) /\ Moved(l, c, j)
    BY <2>3
  <2>4. CASE Moved(k, b, i) /\ Old(l, c, j)
    <3>1. Completes(l, c, "param", d)'
      BY <1>8, <2>4
    <3>2. k = "param" /\ b = d
      BY <2>4
    <3>3. QED BY <3>1, <3>2 DEF Completes
  <2>5. CASE Old(k, b, i) /\ Moved(l, c, j)
    <3>1. Completes(k, b, "param", d)'
      BY <1>8, <2>5
    <3>2. l = "param" /\ c = d
      BY <2>5
    <3>3. QED BY <3>1, <3>2 DEF Completes
  <2>6. QED BY <2>1, <2>2, <2>3, <2>4, <2>5
<1>10. QED BY <1>9 DEF UniqueInv

\* An operand is looked for.
LEMMA ReadUnique ==
  ASSUME EmitterInv, TypesInv, UniqueInv, ReadAction
  PROVE  UniqueInv'
<1>1. FramesInv /\ ListsInv
  BY DEF EmitterInv
<1>2. IsSeq(Frame.todo) /\ Len(Frame.todo) # 0
  BY ReadingFacts
<1>3. ASSUME OneNew, NEW q, IsSeq(q), \A j \in 1..Len(q) : q[j][1] # "addArg",
             Frame'.todo = q \o Tail(Frame.todo) \/ Frame'.todo = Tail(Frame.todo), Frame.todo[1][1] # "sealed"
      PROVE  UniqueInv'
  BY <1>2, <1>3, FrontUnique
<1>4. IsSeq(<<>>) /\ \A j \in 1..Len(<<>>) : <<>>[j][1] # "addArg"
  <2>1. \A j \in 1..0 : FALSE
    OBVIOUS
  <2>2. QED BY <2>1, EmptyFacts
<1>5. Proceed => Frame'.todo = Tail(Frame.todo)
  BY <1>1, ProceedFacts
<1>6. UNCHANGED <<insts, params, procParams, incomplete>> => OneNew
  <2>1. UNCHANGED <<insts, params, procParams, incomplete>> => SameData
    BY UnchangedHolds, DataCases DEF SameData
  <2>2. QED BY <2>1 DEF SameData, OneNew
<1>7. CASE ReadHit \/ WriteFound \/ WritePlaceholder \/ AnswerFound
  <2>1. Proceed /\ Frame.todo[1][1] # "sealed" /\ UNCHANGED <<insts, params, procParams, incomplete>>
    BY <1>7 DEF ReadHit, WriteFound, WritePlaceholder, AnswerFound, Reading, Due, Finding, SameCode, SameNames,
                codeVars2, ssaVars
  <2>2. QED BY <1>3, <1>4, <1>5, <1>6, <2>1
<1>8. CASE ReadUnsealed
  <2>1. /\ Proceed /\ Frame.todo[1][1] # "sealed" /\ UNCHANGED <<insts, params, procParams>>
        /\ incomplete' = [incomplete EXCEPT ![ReadBlock] = Append(@, <<ReadName, NewValue>>)]
    BY <1>8 DEF ReadUnsealed, Reading, Due, Finding
  <2> DEFINE n == Len(incomplete[ReadBlock]) + 1
  <2> HIDE DEF ReadBlock, ReadName, NewValue
  <2>2. \A b, i, r : WaitHolds(b, i, r)' => WaitHolds(b, i, r) \/ (b = ReadBlock /\ i = n /\ r = NewValue)
    BY <1>1, <2>1, WaitAppended
  <2> HIDE DEF n
  <2>3. \A k, b, i, r : DataHolds(k, b, i, r)' =>
          DataHolds(k, b, i, r) \/ (k = "waiting" /\ b = ReadBlock /\ i = n /\ r = NewValue)
    BY <2>1, <2>2, UnchangedHolds, DataCases
  <2>4. OneNew
    BY <2>3 DEF OneNew
  <2>5. QED BY <1>3, <1>4, <1>5, <2>1, <2>4
<1>9. CASE ReadSinglePred
  <2>1. PICK c : ProceedWith(<<<<"read", ReadName, c[1]>>, <<"write_found", ReadName>>>>)
    BY <1>9 DEF ReadSinglePred
  <2>2. Frame.todo[1][1] # "sealed" /\ UNCHANGED <<insts, params, procParams, incomplete>>
    BY <1>9 DEF ReadSinglePred, Reading, Due, Finding, ssaVars
  <2> DEFINE x == <<"read", ReadName, c[1]>>
             y == <<"write_found", ReadName>>
             q == <<x, y>>
  <2>3. x[1] # "addArg" /\ y[1] # "addArg"
    OBVIOUS
  <2> HIDE DEF x, y
  <2>4. IsSeq(q) /\ Len(q) = 2 /\ q[1] = x /\ q[2] = y /\ \A j \in 1..2 : j = 1 \/ j = 2
    BY DEF IsSeq
  <2>5. ProceedWith(q)
    BY <2>1 DEF x, y
  <2> HIDE DEF q
  <2>6. \A j \in 1..Len(q) : q[j][1] # "addArg"
    BY <2>3, <2>4
  <2>7. Frame'.todo = q \o Tail(Frame.todo)
    BY <1>1, <2>5, ProceedWithFacts
  <2>8. QED BY <1>3, <1>6, <2>2, <2>4, <2>6, <2>7
<1>10. CASE ReadJoin
  <2>1. /\ ProceedWith(<<<<"addArg", ReadName, NewValue, ReadBlock>>, <<"write", ReadName, NewValue>>>>)
        /\ Frame.todo[1][1] # "sealed" /\ UNCHANGED <<insts, params, procParams, incomplete>>
    BY <1>10 DEF ReadJoin, Reading, Due, Finding
  <2>2. PICK d, v : d = ReadBlock /\ v = NewValue
    OBVIOUS
  <2> DEFINE x == <<"addArg", ReadName, v, d>>
             y == <<"write", ReadName, v>>
             q == <<x, y>>
             t == Tail(Frame.todo)
             n == 2 + Len(t) - 1
  <2>3. x[4] = d /\ x[3] = v /\ y[1] = "write"
    OBVIOUS
  <2>4. ProceedWith(q)
    <3> HIDE DEF ReadName, NewValue, ReadBlock
    <3>1. QED BY <2>1, <2>2
  <2> HIDE DEF x, y
  <2>5. IsSeq(q) /\ Len(q) = 2 /\ q[1] = x /\ q[2] = y /\ \A j \in 1..2 : j = 1 \/ j = 2
    BY DEF IsSeq
  <2> HIDE DEF q
  <2>6. Frame'.todo = q \o t
    BY <1>1, <2>4, ProceedWithFacts
  <2>7. /\ IsSeq(t)
        /\ \A b, i, r : PendingIn(t, b, i, r) => PendingIn(Frame.todo, b, i, r)
        /\ \A b : SealsIn(Frame.todo, b) => SealsIn(t, b)
    BY <1>2, <2>1, PendingTail, TailFacts
  <2> HIDE DEF t
  <2>8. /\ \A b, i, r : PendingIn(q \o t, b, i, r) => PendingIn(t, b, i, r) \/ (b = d /\ i = n /\ r = v)
        /\ \A b : SealsIn(t, b) => SealsIn(q \o t, b)
    <3>1. /\ \A b, i, r : PendingIn(q \o t, b, i, r) =>
               \/ PendingIn(t, b, i, r)
               \/ \E j \in 1..Len(q) : q[j][1] = "addArg" /\ q[j][4] = b /\ q[j][3] = r /\ i = Len(q) + Len(t) - j
          /\ \A b : SealsIn(t, b) => SealsIn(q \o t, b)
      <4>1. IsSeq(q)
        BY <2>5
      <4>2. QED BY <2>7, <4>1, PendingFront
    <3>2. ASSUME NEW b, NEW i, NEW r, NEW j \in 1..Len(q), q[j][1] = "addArg", q[j][4] = b, q[j][3] = r,
                 i = Len(q) + Len(t) - j
          PROVE  b = d /\ i = n /\ r = v
      <4>1. j = 1
        BY <2>3, <2>5, <3>2
      <4>2. QED BY <2>3, <2>5, <3>2, <4>1
    <3>3. QED BY <3>1, <3>2
  <2> HIDE DEF n
  <2>9. SealingStays
    BY <2>6, <2>7, <2>8 DEF SealingStays, Sealing
  <2>10. \A b, i, r : PendingHolds(b, i, r)' => PendingHolds(b, i, r) \/ (b = d /\ i = n /\ r = v)
    BY <2>6, <2>7, <2>8 DEF PendingHolds
  <2>11. \A k, b, i, r : Holds(k, b, i, r)' => Holds(k, b, i, r) \/ (k = "pending" /\ b = d /\ i = n /\ r = v)
    BY <2>1, <2>10, UnchangedHolds, DataCases
  <2>12. \A k, b, i, r : Holds(k, b, i, r)' =>
           Holds(k, b, i, r) \/ (k = "pending" /\ b = d /\ i = n /\ r = NewValue)
    BY <2>2, <2>11
  <2>13. QED BY <2>9, <2>12, UniqueGrows
<1>11. CASE ReadNowhere
  <2>1. UNCHANGED <<frames, insts, params, procParams, incomplete>>
    BY <1>11 DEF ReadNowhere, Finding
  <2>2. \A k, b, i, r : Holds(k, b, i, r)' => Holds(k, b, i, r)
    BY <2>1, UnchangedHolds, DataCases DEF PendingHolds, Frame
  <2>3. SealingStays
    BY <2>1 DEF SealingStays, Sealing, Frame
  <2>4. QED BY <2>2, <2>3, UniqueGrows
<1>12. CASE Sealed
  <2>1. PICK d : d = What
    OBVIOUS
  <2>2. /\ incomplete' = [incomplete EXCEPT ![d] = <<>>] /\ Frame.todo[1][2] = d
        /\ Proceed /\ UNCHANGED <<insts, params, procParams>>
    BY <1>12, <2>1 DEF Sealed, Finding, What
  <2>3. \A i, r : ~WaitHolds(d, i, r)'
    <3>1. DOMAIN incomplete = Block
      BY <1>1 DEF ListsInv
    <3>2. d \in Block => Len(incomplete'[d]) = 0
      BY <2>2, <3>1, EmptyFacts
    <3>3. QED BY <3>2 DEF WaitHolds
  <2>4. \A b, i, r : WaitHolds(b, i, r)' => WaitHolds(b, i, r)
    <3>1. \A b : b \in Block /\ b # d => incomplete'[b] = incomplete[b]
      BY <1>1, <2>2 DEF ListsInv
    <3>2. QED BY <2>3, <3>1 DEF WaitHolds
  <2>5. SameData
    BY <2>2, <2>4, UnchangedHolds, DataCases DEF SameData
  <2>6. OneNew
    BY <2>5 DEF SameData, OneNew
  <2>7. \A b : Frame.todo[1][1] = "sealed" /\ Frame.todo[1][2] = b => \A i, r : ~WaitHolds(b, i, r)'
    BY <2>2, <2>3
  <2>8. Frame'.todo = Tail(Frame.todo)
    BY <1>5, <2>2
  <2>9. QED BY <1>2, <1>4, <2>6, <2>7, <2>8, FrontUnique
<1>13. QED BY <1>7, <1>8, <1>9, <1>10, <1>11, <1>12, AddBlockArgUnique DEF ReadAction

\* A search begins.
LEMMA StartUnique ==
  ASSUME EmitterInv, TypesInv, UniqueInv, StartAction
  PROVE  UniqueInv'
<1>1. /\ Frame.todo # <<>> /\ NoReads(Frame.todo) /\ NoReads(Tail(Frame.todo)) /\ phase = "body"
      /\ UNCHANGED <<insts, params, procParams, incomplete>>
  BY StartFacts
<1>2. CASE ReadLocal
  <2> DEFINE x == <<"read", Frame.node.name, current_block>>
             y == <<"answer_found">>
             q == <<x, y>>
  <2>1. ProceedWith(q)
    BY <1>2 DEF ReadLocal
  <2>2. x[1] # "addArg" /\ y[1] # "addArg"
    OBVIOUS
  <2> HIDE DEF x, y
  <2>3. IsSeq(q) /\ Len(q) = 2 /\ q[1] = x /\ q[2] = y /\ \A j \in 1..2 : j = 1 \/ j = 2
    BY DEF IsSeq
  <2> HIDE DEF q
  <2>4. \A j \in 1..Len(q) : q[j][1] # "addArg"
    BY <2>2, <2>3
  <2>5. Frame'.todo = q \o Tail(Frame.todo)
    BY <2>1, ProceedWithFacts DEF EmitterInv
  <2>6. SameData
    BY <1>1, UnchangedHolds, DataCases DEF SameData
  <2>7. OneNew
    BY <2>6 DEF SameData, OneNew
  <2>8. IsSeq(Frame.todo) /\ Len(Frame.todo) # 0 /\ Frame.todo[1][1] # "sealed"
    <3>1. Frame.todo[1][1] = "readVar"
      BY <1>2 DEF ReadLocal, Due
    <3>2. QED BY <1>1, <3>1, NoReadsBefore, EmptyFacts DEF EmitterInv, ReadCalls
  <2>9. QED BY <2>3, <2>4, <2>5, <2>7, <2>8, FrontUnique
<1>3. CASE Seal
  <2>1. Slot(What) \in graph[proc] /\ SealBlock(Slot(What))
    BY <1>3, SlotFacts DEF Seal, Due, SlotCalls
  <2>2. PICK d : d = Slot(What)
    OBVIOUS
  <2>3. d \in Block /\ SealBlock(d)
    BY <1>1, <2>1, <2>2, BodyFacts
  <2>4. QED BY <1>1, <2>3, SealUnique
<1>4. CASE SealCurrent
  <2>1. PICK d : d = current_block
    OBVIOUS
  <2>2. d \in Block /\ SealBlock(d)
    BY <1>1, <1>4, <2>1, BodyFacts DEF SealCurrent
  <2>3. QED BY <1>1, <2>2, SealUnique
<1>5. QED BY <1>2, <1>3, <1>4 DEF StartAction

LEMMA UniqueStep == EmitterInv /\ TypesInv /\ UniqueInv /\ [EmitterNext]_allVars => UniqueInv'
<1> SUFFICES ASSUME EmitterInv, TypesInv, UniqueInv, [EmitterNext]_allVars PROVE UniqueInv'
  OBVIOUS
<1>1. CASE UNCHANGED allVars
  <2>1. UNCHANGED <<frames, insts, params, procParams, incomplete>>
    BY <1>1 DEF allVars, emitterVars, codeVars2, ssaVars
  <2>2. \A k, b, i, r : Holds(k, b, i, r)' => Holds(k, b, i, r)
    BY <2>1, UnchangedHolds, DataCases DEF PendingHolds, Frame
  <2>3. SealingStays
    BY <2>1 DEF SealingStays, Sealing, Frame
  <2>4. QED BY <2>2, <2>3, UniqueGrows
<1>2. CASE EmitterNext
  <2>1. FramesInv' /\ Grows
    BY <1>2, EmitterStep, GrowsAlways DEF EmitterInv
  <2>2. CASE SimpleAction \/ VisitAction
    <3>1. Silent
      BY <2>1, <2>2, SimpleIsSilent, VisitIsSilent DEF EmitterInv
    <3>2. QED BY <2>1, <2>2, <3>1, SilentOneNew, SilentUnique
  <2>3. QED BY <1>2, <2>2, ReadUnique, StartUnique, Grouped
<1>3. QED BY <1>1, <1>2

LEMMA UniqueStart == EmitterInit => UniqueInv
<1> SUFFICES ASSUME EmitterInit, NEW k, NEW b, NEW i, NEW r, Holds(k, b, i, r) PROVE FALSE
  BY DEF UniqueInv
<1>1. regs = 0 /\ TypesInv
  BY TypesStart DEF EmitterInit
<1>2. r \in Regs(0)
  BY <1>1, HeldIsRegister
<1>3. \A n \in 1..0 : FALSE
  OBVIOUS
<1>4. QED BY <1>2, <1>3 DEF Regs

---------------------------------------------------------------------------
(* The places of a program have different registers.                       *)

\* What a place holds.
LEMMA PlaceHolds ==
  ASSUME EmitterInv, TypesInv, NEW p, p \in Places
  PROVE  /\ p = <<p[1], p[2], p[3]>>
         /\ Holds(p[1], p[2], p[3], RegisterAt(p))
         /\ p[1] = "waiting" => \A i : ~ParamHolds(p[2], i, RegisterAt(p))
         /\ p[1] # "pending"
<1>1. Live \subseteq Block /\ procs \subseteq Proc
  BY LiveInBlock DEF EmitterInv, ProtocolInv, ProtocolTypeOK, TypeOK
<1>2. \A b \in Block : /\ DOMAIN insts[b] = 1..Len(insts[b]) /\ DOMAIN params[b] = 1..Len(params[b])
                       /\ DOMAIN incomplete[b] = 1..Len(incomplete[b])
  BY SeqFacts DEF EmitterInv, ListsInv, TypesInv, CodeTyped
<1>3. \A f \in Proc : DOMAIN procParams[f] = 1..Len(procParams[f])
  BY SeqFacts DEF TypesInv, ParamsTyped
<1>4. \/ \E b \in Live : \E i \in DOMAIN insts[b] : insts[b][i].op \in {"call", "ld"} /\ p = <<"inst", b, i>>
      \/ \E b \in Live : \E i \in DOMAIN params[b] : p = <<"param", b, i>>
      \/ \E b \in Live : \E i \in DOMAIN incomplete[b] :
           incomplete[b][i][2] \notin {params[b][k] : k \in DOMAIN params[b]} /\ p = <<"waiting", b, i>>
      \/ \E f \in procs : \E i \in DOMAIN procParams[f] : p = <<"function", f, i>>
  <2>1. (\E b \in Live : p \in PlacesIn(b)) \/ (\E f \in procs : p \in PlacesOf(f))
    BY DEF Places
  <2>2. ASSUME NEW b \in Live, p \in PlacesIn(b)
        PROVE  \/ \E i \in DOMAIN insts[b] : insts[b][i].op \in {"call", "ld"} /\ p = <<"inst", b, i>>
               \/ \E i \in DOMAIN params[b] : p = <<"param", b, i>>
               \/ \E i \in DOMAIN incomplete[b] :
                    incomplete[b][i][2] \notin {params[b][k] : k \in DOMAIN params[b]} /\ p = <<"waiting", b, i>>
    BY <2>2 DEF PlacesIn
  <2>3. ASSUME NEW f \in procs, p \in PlacesOf(f)
        PROVE  \E i \in DOMAIN procParams[f] : p = <<"function", f, i>>
    BY <2>3 DEF PlacesOf
  <2>4. QED BY <2>1, <2>2, <2>3
<1>5. ASSUME NEW b \in Live, NEW i \in DOMAIN insts[b], insts[b][i].op \in {"call", "ld"}, p = <<"inst", b, i>>
      PROVE  p[1] = "inst" /\ p[2] = b /\ p[3] = i /\ InstHolds(b, i, RegisterAt(p))
  <2>1. p[1] = "inst" /\ p[2] = b /\ p[3] = i
    BY <1>5
  <2>2. RegisterAt(p) = insts[b][i].v
    BY <2>1 DEF RegisterAt
  <2>3. QED BY <1>1, <1>2, <1>5, <2>1, <2>2 DEF InstHolds
<1>6. ASSUME NEW b \in Live, NEW i \in DOMAIN params[b], p = <<"param", b, i>>
      PROVE  p[1] = "param" /\ p[2] = b /\ p[3] = i /\ ParamHolds(b, i, RegisterAt(p))
  <2>1. p[1] = "param" /\ p[2] = b /\ p[3] = i
    BY <1>6
  <2>2. RegisterAt(p) = params[b][i]
    BY <2>1 DEF RegisterAt
  <2>3. QED BY <1>1, <1>2, <1>6, <2>1, <2>2 DEF ParamHolds
<1>7. ASSUME NEW b \in Live, NEW i \in DOMAIN incomplete[b], p = <<"waiting", b, i>>,
             incomplete[b][i][2] \notin {params[b][k] : k \in DOMAIN params[b]}
      PROVE  /\ p[1] = "waiting" /\ p[2] = b /\ p[3] = i /\ WaitHolds(b, i, RegisterAt(p))
             /\ \A k : ~ParamHolds(b, k, RegisterAt(p))
  <2>1. p[1] = "waiting" /\ p[2] = b /\ p[3] = i
    BY <1>7
  <2>2. RegisterAt(p) = incomplete[b][i][2]
    BY <2>1 DEF RegisterAt
  <2>3. \A k : ~ParamHolds(b, k, RegisterAt(p))
    BY <1>1, <1>2, <1>7, <2>2 DEF ParamHolds
  <2>4. QED BY <1>1, <1>2, <1>7, <2>1, <2>2, <2>3 DEF WaitHolds
<1>8. ASSUME NEW f \in procs, NEW i \in DOMAIN procParams[f], p = <<"function", f, i>>
      PROVE  p[1] = "function" /\ p[2] = f /\ p[3] = i /\ FunctionHolds(f, i, RegisterAt(p))
  <2>1. p[1] = "function" /\ p[2] = f /\ p[3] = i
    BY <1>8
  <2>2. RegisterAt(p) = procParams[f][i]
    BY <2>1 DEF RegisterAt
  <2>3. QED BY <1>1, <1>3, <1>8, <2>1, <2>2 DEF FunctionHolds
<1>9. p = <<p[1], p[2], p[3]>>
  BY <1>4
<1> HIDE DEF RegisterAt, Places
<1>10. Holds(p[1], p[2], p[3], RegisterAt(p)) /\ p[1] # "pending"
  BY <1>4, <1>5, <1>6, <1>7, <1>8 DEF Holds
<1>11. p[1] = "waiting" => \A i : ~ParamHolds(p[2], i, RegisterAt(p))
  BY <1>4, <1>5, <1>6, <1>7, <1>8
<1>12. QED BY <1>9, <1>10, <1>11

\* Different places have different registers.
LEMMA PlacesApart ==
  ASSUME EmitterInv, TypesInv, UniqueInv, NEW p \in Places, NEW q \in Places, RegisterAt(p) = RegisterAt(q)
  PROVE  p = q
<1> DEFINE r == RegisterAt(p)
<1>1. /\ p = <<p[1], p[2], p[3]>> /\ Holds(p[1], p[2], p[3], r)
      /\ p[1] = "waiting" => \A i : ~ParamHolds(p[2], i, r)
      /\ p[1] # "pending"
  BY PlaceHolds
<1>2. /\ q = <<q[1], q[2], q[3]>> /\ Holds(q[1], q[2], q[3], r)
      /\ q[1] = "waiting" => \A i : ~ParamHolds(q[2], i, r)
      /\ q[1] # "pending"
  BY PlaceHolds
<1> HIDE DEF r
<1>3. \/ p[1] = q[1] /\ p[2] = q[2] /\ p[3] = q[3]
      \/ Completes(p[1], p[2], q[1], q[2])
      \/ Completes(q[1], q[2], p[1], p[2])
  BY <1>1, <1>2, Zenon DEF UniqueInv
<1>4. ~Completes(p[1], p[2], q[1], q[2])
  <2> SUFFICES ASSUME p[1] = "waiting", q[1] = "param", p[2] = q[2] PROVE FALSE
    BY <1>2 DEF Completes
  <2>1. ParamHolds(q[2], q[3], r)
    BY <1>2 DEF Holds
  <2>2. QED BY <1>1, <2>1
<1>5. ~Completes(q[1], q[2], p[1], p[2])
  <2> SUFFICES ASSUME q[1] = "waiting", p[1] = "param", p[2] = q[2] PROVE FALSE
    BY <1>1 DEF Completes
  <2>1. ParamHolds(p[2], p[3], r)
    BY <1>1 DEF Holds
  <2>2. QED BY <1>2, <2>1
<1>6. p[1] = q[1] /\ p[2] = q[2] /\ p[3] = q[3]
  BY <1>3, <1>4, <1>5
<1>7. QED BY <1>1, <1>2, <1>6, Zenon

LEMMA RegistersAreFinite ==
  ASSUME NEW n \in Nat
  PROVE  IsFiniteSet(Regs(n))
<1> DEFINE f == [i \in 1..n |-> Reg(i)]
<1>1. IsFiniteSet(1..n)
  BY FS_Interval
<1>2. f \in [1..n -> Regs(n)] /\ \A r \in Regs(n) : \E i \in 1..n : f[i] = r
  BY DEF Regs
<1> HIDE DEF f
<1>3. f \in Surjection(1..n, Regs(n))
  BY <1>2 DEF Surjection
<1>4. QED BY <1>1, <1>3, FS_Surjection

LEMMA UniqueIsSingle == EmitterInv /\ TypesInv /\ UniqueInv => SingleAssignment
<1> SUFFICES ASSUME EmitterInv, TypesInv, UniqueInv PROVE SingleAssignment
  OBVIOUS
<1> DEFINE image == {RegisterAt(p) : p \in Places}
           f == [p \in Places |-> RegisterAt(p)]
<1>1. \A p \in Places : RegisterAt(p) \in Regs(regs)
  BY PlaceHolds, HeldIsRegister
<1>2. \A p, q \in Places : RegisterAt(p) = RegisterAt(q) => p = q
  BY PlacesApart
<1> HIDE DEF Places, RegisterAt
<1>3. f \in [Places -> image] /\ (\A r \in image : \E p \in Places : f[p] = r)
      /\ \A p, q \in DOMAIN f : f[p] = f[q] => p = q
  BY <1>2
<1>4. IsFiniteSet(image)
  <2>1. IsFiniteSet(Regs(regs)) /\ image \subseteq Regs(regs)
    BY <1>1, RegistersAreFinite DEF TypesInv
  <2>2. QED BY <2>1, FS_Subset
<1> HIDE DEF image, f
<1>5. f \in Injection(Places, image) /\ f \in Surjection(Places, image)
  BY <1>3 DEF Injection, IsInjective, Surjection
<1>6. Cardinality(Places) = Cardinality(image)
  BY <1>4, <1>5, FS_Injection
<1>7. QED BY <1>6 DEF SingleAssignment, image

\* In every run of the emitter on any programs no register is given a value in
\* two places, however the searches for operands and the sealing of blocks
\* take turns.
THEOREM EmitterSingleAssignment == EmitterSpec => []SingleAssignment
<1>1. EmitterInit => EmitterInv /\ TypesInv /\ UniqueInv
  BY EmitterStart, TypesStart, UniqueStart
<1>2. EmitterInv /\ TypesInv /\ UniqueInv /\ [EmitterNext]_allVars => EmitterInv' /\ TypesInv' /\ UniqueInv'
  BY EmitterStep, TypesStep, UniqueStep
<1>3. QED BY <1>1, <1>2, UniqueIsSingle, PTL DEF EmitterSpec
---------------------------------------------------------------------------
(* Edges and gateways.  Blocks that are made but not entered, and blocks   *)
(* saved to be gone on with, are pending: they have neither.  No block is  *)
(* pending in two places, so own says of each which one it is.             *)

\* The gateway of a block.
Gate(b) ==
  LET last == insts[b][Len(insts[b])]
  IN  IF insts[b] # <<>> /\ IsGateway(last) THEN last.op ELSE "none"

\* A block's code is as a context says.
Has(b, cur) ==
  \/ cur \in {"clean", "left", "done"} /\ Gate(b) = "none" /\ succ[b] = NoBlock /\ alt[b] = NoBlock
  \/ cur = "next" /\ Gate(b) = "none" /\ succ[b] # NoBlock /\ alt[b] = NoBlock
  \/ cur = "both" /\ Gate(b) = "none" /\ succ[b] # NoBlock /\ alt[b] # NoBlock
  \/ cur = "branched" /\ Gate(b) = "br" /\ succ[b] # NoBlock /\ alt[b] # NoBlock
  \/ cur \in {"left", "done"} /\ Gate(b) = "jp" /\ succ[b] # NoBlock /\ alt[b] = NoBlock
  \/ cur \in {"left", "done"} /\ Gate(b) = "rt" /\ succ[b] = NoBlock /\ alt[b] = NoBlock

Fits(b) == Has(b, "left") \/ Has(b, "branched")

Place(role, at, slot) == [role |-> role, at |-> at, slot |-> slot]
FreshAt(i, x) == Place("fresh", i, x)
SavedAt(k) == Place("save", k, "")
Current == Place("current", 0, "")

Pending(b, own, place) == b \in Live /\ Has(b, "clean") /\ own[b] = place

\* What frame i has to do is legal in context c.
TodoOK(i, node, todo, c) ==
  IF i = 1 THEN \E e : Legal("unit edges", program, todo, c, e)
           ELSE \E e : Ends(node, e.cur) /\ Legal("edges", node, todo, c, e)

\* The frame below expects what a visit of this node leaves.
Follows(node, cur) == cur = "left" \/ (cur = "clean" /\ node.kind \in Expressions)

EdgeFrames(ctx) ==
  /\ \A i \in 1..Len(frames) : TodoOK(i, frames[i].node, frames[i].todo, ctx[i])
  /\ \A i \in 2..Len(frames) : Follows(frames[i].node, ctx[i - 1].cur)

FreshIn(slots, F, i, own) == \A x \in F : x \in DOMAIN slots /\ Pending(slots[x], own, FreshAt(i, x))

CurrentHas(cur, own) == current_block \in Live => Has(current_block, cur) /\ own[current_block] = Current
SavesPend(own) == \A k \in 1..Len(saves) : Pending(saves[k], own, SavedAt(k))
OthersFit == \A b \in Live : b # current_block => Fits(b)

EdgeBlocks(ctx, own) ==
  /\ \A i \in 1..Len(frames) : FreshIn(frames[i].slots, ctx[i].fresh, i, own)
  /\ SavesPend(own)
  /\ CurrentHas(ctx[Len(frames)].cur, own)
  /\ OthersFit

EdgesInv == \E ctx, own : EdgeFrames(ctx) /\ EdgeBlocks(ctx, own)

---------------------------------------------------------------------------
(* What is kept of blocks and frames that a step leaves alone.             *)

LEMMA PlacesDiffer ==
  \A i, x, k : /\ FreshAt(i, x) # SavedAt(k) /\ FreshAt(i, x) # Current /\ SavedAt(k) # Current
               /\ \A j, y : FreshAt(i, x) = FreshAt(j, y) => i = j /\ x = y
               /\ \A l : SavedAt(k) = SavedAt(l) => k = l
<1> SUFFICES ASSUME NEW i, NEW x, NEW k, NEW j, NEW y, NEW l
             PROVE  /\ FreshAt(i, x) # SavedAt(k) /\ FreshAt(i, x) # Current /\ SavedAt(k) # Current
                    /\ FreshAt(i, x) = FreshAt(j, y) => i = j /\ x = y
                    /\ SavedAt(k) = SavedAt(l) => k = l
  OBVIOUS
<1>1. FreshAt(i, x).role = "fresh" /\ SavedAt(k).role = "save" /\ Current.role = "current"
  BY DEF FreshAt, SavedAt, Current, Place
<1>2. /\ FreshAt(i, x).at = i /\ FreshAt(i, x).slot = x /\ FreshAt(j, y).at = j /\ FreshAt(j, y).slot = y
      /\ SavedAt(k).at = k /\ SavedAt(l).at = l
  BY DEF FreshAt, SavedAt, Place
<1>3. QED BY <1>1, <1>2

Same(b) == insts'[b] = insts[b] /\ succ'[b] = succ[b] /\ alt'[b] = alt[b]

LEMMA SameHas ==
  ASSUME NEW b, Same(b), NEW cur
  PROVE  (Has(b, cur) => Has(b, cur)') /\ (Fits(b) => Fits(b)')
<1>1. Gate(b)' = Gate(b)
  BY DEF Same, Gate
<1>2. QED BY <1>1 DEF Has, Fits, Same

\* What is clean can be left, and what is left or branched can be left for good.
LEMMA HasWeaker ==
  ASSUME NEW b
  PROVE  /\ Has(b, "clean") => Has(b, "left") /\ Has(b, "done")
         /\ Has(b, "left") <=> Has(b, "done")
         /\ \A cur \in {"clean", "left", "done", "branched"} : Has(b, cur) => Fits(b)
  BY DEF Has, Fits

\* The contexts when the innermost one changes.
With(ctx, n, d) == [i \in 1..n |-> IF i = n THEN d ELSE ctx[i]]

LEMMA WithFacts ==
  ASSUME NEW ctx, NEW n \in Nat, n # 0, NEW d
  PROVE  /\ With(ctx, n, d)[n] = d
         /\ \A i \in 1..n : i # n => With(ctx, n, d)[i] = ctx[i]
  BY DEF With

\* The innermost frame goes on.
LEMMA FramesGoOn ==
  ASSUME FramesInv, NEW ctx, EdgeFrames(ctx), NEW f, NEW d, NEW n, n = Len(frames),
         frames' = Continued(f), f.node = Frame.node, program' = program,
         TodoOK(n, f.node, f.todo, d)
  PROVE  EdgeFrames(With(ctx, n, d))' /\ Len(frames') = n
<1>1. /\ Len(frames') = n /\ n \in Nat /\ n # 0 /\ frames'[n] = f
      /\ \A i \in 1..n : i # n => frames'[i] = frames[i]
  BY ContinuedFacts
<1> DEFINE dtx == With(ctx, n, d)
<1>2. dtx[n] = d /\ \A i \in 1..n : i # n => dtx[i] = ctx[i]
  <2>1. n \in Nat /\ n # 0
    BY <1>1
  <2>2. QED BY <2>1 DEF With
<1> HIDE DEF dtx
<1>3. ASSUME NEW i \in 1..n PROVE TodoOK(i, frames[i].node, frames[i].todo, dtx[i])'
  <2>1. CASE i = n
    BY <1>1, <1>2, <2>1 DEF TodoOK
  <2>2. CASE i # n
    <3>1. TodoOK(i, frames[i].node, frames[i].todo, ctx[i])
      BY DEF EdgeFrames
    <3>2. QED BY <1>1, <1>2, <2>2, <3>1 DEF TodoOK
  <2>3. QED BY <2>1, <2>2
<1>4. ASSUME NEW i \in 2..n PROVE Follows(frames'[i].node, dtx[i - 1].cur)
  <2>1. i \in 1..n /\ i - 1 \in 1..n /\ i - 1 # n
    BY <1>1
  <2>2. frames'[i].node = frames[i].node
    BY <1>1, <2>1 DEF Frame
  <2>3. QED BY <1>2, <2>1, <2>2 DEF EdgeFrames
<1>5. EdgeFrames(dtx)'
  BY <1>1, <1>3, <1>4 DEF EdgeFrames
<1>6. QED BY <1>1, <1>5 DEF dtx

\* Blocks that are pending in a frame stay so, wherever the step leaves them
\* to that frame.
LEMMA FreshStays ==
  ASSUME NEW slots, NEW F, NEW i, NEW own, NEW mine, FreshIn(slots, F, i, own), Live \subseteq Live',
         \A b \in Live : \A x \in F : own[b] = FreshAt(i, x) => mine[b] = own[b] /\ Same(b)
  PROVE  FreshIn(slots, F, i, mine)'
<1> SUFFICES ASSUME NEW x \in F
             PROVE  x \in DOMAIN slots /\ Pending(slots[x], mine, FreshAt(i, x))'
  BY DEF FreshIn
<1>1. x \in DOMAIN slots /\ Pending(slots[x], own, FreshAt(i, x))
  BY DEF FreshIn
<1> DEFINE b == slots[x]
<1>2. b \in Live /\ Has(b, "clean") /\ own[b] = FreshAt(i, x)
  BY <1>1 DEF Pending
<1> HIDE DEF b
<1>3. b \in Live' /\ Has(b, "clean")' /\ mine[b] = FreshAt(i, x)
  BY <1>2, SameHas
<1>4. Pending(b, mine, FreshAt(i, x))'
  BY <1>3 DEF Pending
<1>5. QED BY <1>1, <1>4 DEF b

---------------------------------------------------------------------------
(* Steps that stay in their block.                                         *)

\* What is known of the context of the innermost frame.
TopEdge(c) ==
  /\ TodoOK(Len(frames), Frame.node, Frame.todo, c)
  /\ current_block \in Live => Has(current_block, c.cur)

\* What it is after the step.
NextEdge(todo, c, d) ==
  /\ TodoOK(Len(frames), Frame.node, todo, d)
  /\ d.fresh \subseteq c.fresh
  /\ current_block \in Live => Has(current_block, d.cur)'

LEMMA TopEdgeFacts ==
  ASSUME FramesInv, NEW ctx, NEW own, EdgeFrames(ctx), EdgeBlocks(ctx, own)
  PROVE  Len(frames) \in 1..Len(frames) /\ TopEdge(ctx[Len(frames)])
<1>1. Len(frames) \in 1..Len(frames)
  <2>1. Len(frames) \in Nat /\ Len(frames) # 0
    BY FrameFacts
  <2>2. QED BY <2>1
<1>2. QED BY <1>1 DEF EdgeFrames, EdgeBlocks, TopEdge, Frame, CurrentHas

LEMMA EdgesGoOn ==
  ASSUME EmitterInv, EdgesInv, NEW f, frames' = Continued(f), f.node = Frame.node, f.slots = Frame.slots,
         UNCHANGED <<program, graph, stack, saves>>, \A b \in Live : b # current_block => Same(b),
         \A c : TopEdge(c) => \E d : NextEdge(f.todo, c, d)
  PROVE  EdgesInv'
<1>1. PICK ctx, own : EdgeFrames(ctx) /\ EdgeBlocks(ctx, own)
  BY DEF EdgesInv
<1>2. FramesInv
  BY DEF EmitterInv
<1>3. PICK n : n = Len(frames)
  OBVIOUS
<1>4. n \in 1..n /\ n \in Nat /\ TopEdge(ctx[n])
  BY <1>1, <1>2, <1>3, TopEdgeFacts, FrameFacts
<1>5. PICK d : NextEdge(f.todo, ctx[n], d)
  BY <1>4
<1> DEFINE dtx == With(ctx, n, d)
<1>6. EdgeFrames(dtx)' /\ Len(frames') = n
  BY <1>1, <1>2, <1>3, <1>5, FramesGoOn DEF NextEdge
<1>7. frames'[n] = f /\ \A i \in 1..n : i # n => frames'[i] = frames[i]
  BY <1>2, <1>3, ContinuedFacts
<1>8. dtx[n] = d /\ \A i \in 1..n : i # n => dtx[i] = ctx[i]
  BY <1>4, WithFacts
<1> HIDE DEF dtx
<1>9. PICK cb : cb = current_block
  OBVIOUS
<1>10. current_block' = cb /\ Live' = Live
  BY <1>9 DEF current_block, Live
<1>11. \A b \in Live : own[b] # Current => Same(b)
  BY <1>1, <1>9 DEF EdgeBlocks, CurrentHas
<1>12. ASSUME NEW i \in 1..n PROVE FreshIn(frames[i].slots, dtx[i].fresh, i, own)'
  <2>1. PICK slots : slots = frames[i].slots
    OBVIOUS
  <2>2. frames'[i].slots = slots
    BY <1>3, <1>7, <2>1 DEF Frame
  <2>3. FreshIn(slots, ctx[i].fresh, i, own)
    BY <1>1, <1>3, <2>1 DEF EdgeBlocks
  <2>4. FreshIn(slots, ctx[i].fresh, i, own)'
    BY <1>10, <1>11, <2>3, FreshStays, PlacesDiffer
  <2>5. dtx[i].fresh \subseteq ctx[i].fresh
    BY <1>5, <1>8 DEF NextEdge
  <2>6. QED BY <2>2, <2>4, <2>5 DEF FreshIn
<1>13. SavesPend(own)'
  <2> SUFFICES ASSUME NEW k \in 1..Len(saves) PROVE Pending(saves[k], own, SavedAt(k))'
    BY DEF SavesPend
  <2>1. PICK b : b = saves[k]
    OBVIOUS
  <2>2. Pending(b, own, SavedAt(k))
    BY <1>1, <2>1 DEF EdgeBlocks, SavesPend
  <2>3. Same(b)
    BY <1>11, <2>2, PlacesDiffer DEF Pending
  <2>4. Has(b, "clean")'
    BY <2>2, <2>3, SameHas DEF Pending
  <2>5. QED BY <1>10, <2>1, <2>2, <2>4 DEF Pending
<1>14. CurrentHas(dtx[n].cur, own)'
  BY <1>1, <1>5, <1>8, <1>9, <1>10 DEF NextEdge, EdgeBlocks, CurrentHas
<1>15. OthersFit'
  <2> SUFFICES ASSUME NEW b \in Live, b # cb PROVE Fits(b)'
    BY <1>10 DEF OthersFit
  <2>1. Fits(b) /\ Same(b)
    BY <1>1, <1>9 DEF EdgeBlocks, OthersFit
  <2>2. QED BY <2>1, SameHas
<1>16. EdgeBlocks(dtx, own)'
  BY <1>6, <1>12, <1>13, <1>14, <1>15 DEF EdgeBlocks
<1>17. QED BY <1>6, <1>16 DEF EdgesInv

---------------------------------------------------------------------------
(* The call that is due, and what is left to do after it.                  *)

LEMMA EdgeDue ==
  ASSUME FramesInv, Frame.todo # <<>>, NEW c, TopEdge(c)
  PROVE  \E d : /\ TodoOK(Len(frames), Frame.node, Tail(Frame.todo), d)
                /\ Len(frames) = 1 => EdgeUnitCall(Frame.todo[1], c, d)
                /\ Len(frames) # 1 => EdgeCall(Frame.node, Frame.todo[1], c, d)
<1>1. CASE Len(frames) = 1
  <2>1. PICK e : Legal("unit edges", program, Frame.todo, c, e)
    BY <1>1 DEF TopEdge, TodoOK
  <2>2. Len(Frame.todo) # 0
    BY <2>1, EmptyFacts DEF Legal
  <2>3. PICK d : Typed("unit edges", program, Frame.todo[1], c, d) /\ Legal("unit edges", program, Tail(Frame.todo), d, e)
    BY <2>1, <2>2, LegalTail
  <2>4. QED BY <1>1, <2>3 DEF TodoOK, Typed
<1>2. CASE Len(frames) # 1
  <2>1. PICK e : Ends(Frame.node, e.cur) /\ Legal("edges", Frame.node, Frame.todo, c, e)
    BY <1>2 DEF TopEdge, TodoOK
  <2>2. Len(Frame.todo) # 0
    BY <2>1, EmptyFacts DEF Legal
  <2>3. PICK d : Typed("edges", Frame.node, Frame.todo[1], c, d) /\ Legal("edges", Frame.node, Tail(Frame.todo), d, e)
    BY <2>1, <2>2, LegalTail
  <2>4. QED BY <1>2, <2>1, <2>3 DEF TodoOK, Typed
<1>3. QED BY <1>1, <1>2

\* With calls that look for an operand in front.
LEMMA EdgeDueReads ==
  ASSUME NEW n, n # 1, NEW node, NEW todo, NEW c, c.cur # "done", NEW r, AllReads(r), TodoOK(n, node, todo, c)
  PROVE  TodoOK(n, node, r \o todo, c)
  BY EdgeReads DEF TodoOK

\* The gateway of a block that gets an instruction.
LEMMA PushedGate ==
  ASSUME EmitterInv, TypesInv, NEW inst, insts' = Pushed(inst), current_block \in Live, NEW cb, cb = current_block
  PROVE  /\ Gate(cb)' = IF IsGateway(inst) THEN inst.op ELSE "none"
         /\ \A b \in Live : b # cb => insts'[b] = insts[b]
<1>1. cb \in Block
  BY LiveInBlock
<1>2. insts' = [insts EXCEPT ![cb] = Append(@, inst)]
  BY DEF Pushed
<1>3. DOMAIN insts = Block /\ IsSeq(insts[cb])
  BY <1>1 DEF TypesInv, CodeTyped
<1>4. PICK s : s = insts[cb]
  OBVIOUS
<1>5. insts'[cb] = Append(s, inst) /\ \A b \in Live : b # cb => insts'[b] = insts[b]
  BY <1>1, <1>2, <1>3, <1>4, LiveInBlock
<1>6. /\ IsSeq(Append(s, inst)) /\ Len(Append(s, inst)) = Len(s) + 1 /\ Append(s, inst)[Len(s) + 1] = inst
      /\ Len(s) \in Nat
  BY <1>3, <1>4, AppendFacts, SeqFacts
<1>7. Append(s, inst) # <<>>
  <2>1. Len(s) + 1 # 0
    BY <1>6
  <2>2. QED BY <1>6, <2>1, EmptyFacts
<1>8. Gate(cb)' = IF IsGateway(inst) THEN inst.op ELSE "none"
  BY <1>5, <1>6, <1>7 DEF Gate
<1>9. QED BY <1>5, <1>8

---------------------------------------------------------------------------
(* Steps by the call they make.                                            *)

CallEdge(c, d) ==
  /\ Len(frames) = 1 => EdgeUnitCall(Frame.todo[1], c, d)
  /\ Len(frames) # 1 => EdgeCall(Frame.node, Frame.todo[1], c, d)

\* Nothing but the current block changes.
OnlyHereChanges == UNCHANGED <<program, graph, stack, saves>> /\ \A b \in Live : b # current_block => Same(b)

LEMMA EdgesProceed ==
  ASSUME EmitterInv, EdgesInv, Frame.todo # <<>>, OnlyHereChanges,
         NEW kept, frames' = Continued(Made(Tail(Frame.todo), Frame.slots, kept)),
         \A c, d : CallEdge(c, d) /\ (current_block \in Live => Has(current_block, c.cur)) =>
            d.fresh \subseteq c.fresh /\ (current_block \in Live => Has(current_block, d.cur)')
  PROVE  EdgesInv'
<1> DEFINE f == Made(Tail(Frame.todo), Frame.slots, kept)
<1>1. f.node = Frame.node /\ f.todo = Tail(Frame.todo) /\ f.slots = Frame.slots
  BY FrameFields DEF Made
<1>2. frames' = Continued(f)
  OBVIOUS
<1> HIDE DEF f
<1>3. ASSUME NEW c, TopEdge(c) PROVE \E d : NextEdge(f.todo, c, d)
  <2>1. PICK d : TodoOK(Len(frames), Frame.node, Tail(Frame.todo), d) /\ CallEdge(c, d)
    BY <1>3, EdgeDue DEF EmitterInv, CallEdge
  <2>2. d.fresh \subseteq c.fresh /\ (current_block \in Live => Has(current_block, d.cur)')
    BY <1>3, <2>1 DEF TopEdge
  <2>3. QED BY <1>1, <2>1, <2>2 DEF NextEdge
<1>4. QED BY <1>1, <1>2, <1>3, EdgesGoOn DEF OnlyHereChanges

\* Calls that leave code and edges alone.
QuietCalls == EdgeFree \cup {"entry_function", "param", "pop_env", "assign", "readVar"}

SameCodeAndEdges == UNCHANGED <<program, graph, stack, saves, insts, succ, alt>>

LEMMA SameStays ==
  ASSUME SameCodeAndEdges
  PROVE  OnlyHereChanges /\ \A b : Same(b)
  BY DEF SameCodeAndEdges, OnlyHereChanges, Same

LEMMA QuietEdges ==
  ASSUME EmitterInv, EdgesInv, \E call \in QuietCalls : Due(call), SameCodeAndEdges,
         NEW kept, frames' = Continued(Made(Tail(Frame.todo), Frame.slots, kept))
  PROVE  EdgesInv'
<1>1. Frame.todo # <<>> /\ Frame.todo[1][1] \in QuietCalls
  BY DEF Due
<1>2. ASSUME NEW c, NEW d, CallEdge(c, d), current_block \in Live => Has(current_block, c.cur)
      PROVE  d.fresh \subseteq c.fresh /\ (current_block \in Live => Has(current_block, d.cur)')
  <2>1. d = c \/ (c.cur \in {"clean", "left"} /\ d = Edge(c.fresh, "done"))
    <3>1. CASE Len(frames) = 1
      <4>1. EdgeUnitCall(Frame.todo[1], c, d)
        BY <1>2, <3>1 DEF CallEdge
      <4>2. QED BY <1>1, <4>1 DEF EdgeUnitCall, QuietCalls, EdgeFree, ReadCalls
    <3>2. CASE Len(frames) # 1
      <4>1. EdgeCall(Frame.node, Frame.todo[1], c, d)
        BY <1>2, <3>2 DEF CallEdge
      <4>2. QED BY <1>1, <4>1 DEF EdgeCall, QuietCalls, EdgeFree, ReadCalls
    <3>3. QED BY <3>1, <3>2
  <2>2. d.fresh = c.fresh /\ (d.cur = c.cur \/ (c.cur \in {"clean", "left"} /\ d.cur = "done"))
    BY <2>1, EdgeFields
  <2>3. PICK cb : cb = current_block
    OBVIOUS
  <2>4. cb = current_block'
    BY <2>3 DEF SameCodeAndEdges, current_block
  <2>5. current_block \in Live => Has(cb, d.cur)
    BY <1>2, <2>2, <2>3, HasWeaker
  <2>6. current_block \in Live => Has(cb, d.cur)'
    BY <2>5, SameHas, SameStays
  <2>7. QED BY <2>2, <2>4, <2>6 DEF Has, Gate
<1>3. QED BY <1>1, <1>2, EdgesProceed, SameStays

\* Calls that are replaced by a search for operands.
LEMMA SearchEdges ==
  ASSUME EmitterInv, EdgesInv, \E call \in ReadCalls \cup {"seal", "seal_current", "readVar"} : Due(call),
         SameCodeAndEdges, NEW r, AllReads(r), ProceedWith(r)
  PROVE  EdgesInv'
<1>1. Frame.todo # <<>> /\ Frame.todo[1][1] \in ReadCalls \cup {"seal", "seal_current", "readVar"}
  BY DEF Due
<1>2. Len(frames) # 1
  <2>1. Frame.todo[1][1] \notin UnitCalls
    BY <1>1 DEF UnitCalls, ReadCalls
  <2>2. QED BY <1>1, <2>1, DueInVisit DEF EmitterInv
<1> DEFINE f == Made(r \o Tail(Frame.todo), Frame.slots, Frame.kept)
<1>3. f.node = Frame.node /\ f.todo = r \o Tail(Frame.todo) /\ f.slots = Frame.slots
  BY FrameFields DEF Made
<1>4. frames' = Continued(f)
  BY RestForms, FrameOfInv, Zenon DEF EmitterInv, ProceedWith
<1> HIDE DEF f
<1>5. ASSUME NEW c, TopEdge(c) PROVE \E d : NextEdge(f.todo, c, d)
  <2>1. PICK d : TodoOK(Len(frames), Frame.node, Tail(Frame.todo), d) /\ EdgeCall(Frame.node, Frame.todo[1], c, d)
    BY <1>1, <1>2, <1>5, EdgeDue DEF EmitterInv
  <2>2. d = c /\ c.cur # "done"
    BY <1>1, <2>1 DEF EdgeCall, EdgeFree, ReadCalls
  <2>3. TodoOK(Len(frames), Frame.node, f.todo, c)
    BY <1>2, <1>3, <2>1, <2>2, EdgeDueReads
  <2>4. current_block \in Live => Has(current_block, c.cur)'
    <3>1. PICK cb : cb = current_block
      OBVIOUS
    <3>2. cb = current_block'
      BY <3>1 DEF SameCodeAndEdges, current_block
    <3>3. current_block \in Live => Has(cb, c.cur)'
      BY <1>5, <3>1, SameHas, SameStays DEF TopEdge
    <3>4. QED BY <3>2, <3>3 DEF Has, Gate
  <2>5. QED BY <2>3, <2>4 DEF NextEdge
<1>6. QED BY <1>3, <1>4, <1>5, EdgesGoOn, SameStays DEF OnlyHereChanges

\* Steps that go on with the next call and leave code and edges alone.
AsideAction ==
  \/ Keep \/ PushCFD \/ PopCFD \/ PushEnv \/ PopEnv \/ ReadHit \/ ReadUnsealed \/ WriteFound
  \/ WritePlaceholder \/ Sealed \/ Literal \/ AnswerFound \/ AssignLocal \/ DeclareLocal
  \/ AddArg \/ AnswerArg \/ FunctionParam \/ EntryFunction

\* Steps that search.
SearchAction == ReadSinglePred \/ ReadJoin \/ AddBlockArg \/ Seal \/ SealCurrent \/ ReadLocal

\* Such a step takes the call away and keeps what the visit made.
LEMMA AsideFrame ==
  ASSUME EmitterInv, AsideAction
  PROVE  \E kept : frames' = Continued(Made(Tail(Frame.todo), Frame.slots, kept))
<1>0. IsFrame(Frame)
  BY FrameOfInv DEF EmitterInv
<1>1. CASE Keep
  <2>1. frames' = Continued([Rest EXCEPT !.kept = value])
    BY <1>1 DEF Keep
  <2>2. [Rest EXCEPT !.kept = value] = Made(Tail(Frame.todo), Frame.slots, value)
    BY <1>0, RestForms, Zenon
  <2>3. QED BY <2>1, <2>2
<1>2. CASE ~Keep
  <2>1. Proceed
    BY <1>2 DEF AsideAction, PushCFD, PopCFD, PushEnv, PopEnv, ReadHit, ReadUnsealed, WriteFound,
       WritePlaceholder, Sealed, Literal, AnswerFound, AssignLocal, DeclareLocal, AddArg, AnswerArg,
       FunctionParam, EntryFunction, Written, Parameter
  <2>2. Rest = Made(Tail(Frame.todo), Frame.slots, Frame.kept)
    BY <1>0, RestForms, Zenon
  <2>3. QED BY <2>1, <2>2 DEF Proceed
<1>3. QED BY <1>1, <1>2

LEMMA AsideEdges ==
  ASSUME EmitterInv, EdgesInv, AsideAction
  PROVE  EdgesInv'
<1>1. \E call \in QuietCalls : Due(call)
  BY DEF AsideAction, Keep, PushCFD, PopCFD, PushEnv, PopEnv, ReadHit, ReadUnsealed, WriteFound,
         WritePlaceholder, Sealed, Literal, AnswerFound, AssignLocal, DeclareLocal, AddArg, AnswerArg,
         FunctionParam, EntryFunction, Reading, QuietCalls, EdgeFree, ReadCalls
<1>2. SameCodeAndEdges
  <2>1. CASE EntryFunction
    BY <2>1 DEF EntryFunction, entry_function, graphVars, edgeVars, SameCode, codeVars2, SameCodeAndEdges
  <2>2. CASE ~EntryFunction
    <3>1. UNCHANGED protocolVars /\ UNCHANGED <<program, insts>>
      BY <2>2 DEF AsideAction, Keep, PushCFD, PopCFD, PushEnv, PopEnv, ReadHit, ReadUnsealed, WriteFound,
         WritePlaceholder, Sealed, Literal, AnswerFound, AssignLocal, DeclareLocal, AddArg, AnswerArg,
         FunctionParam, Aside, Finding, Written, Parameter, SameCode, codeVars2
    <3>2. QED BY <3>1 DEF protocolVars, vars, SameCodeAndEdges, edgeVars
  <2>3. QED BY <2>1, <2>2
<1>3. \E kept : frames' = Continued(Made(Tail(Frame.todo), Frame.slots, kept))
  BY AsideFrame
<1>4. QED BY <1>1, <1>2, <1>3, QuietEdges

\* The calls of a search are reads.
LEMMA SearchCalls ==
  ASSUME EmitterInv, SearchAction
  PROVE  \E r : AllReads(r) /\ ProceedWith(r)
<1>1. CASE ReadSinglePred
  <2>1. PICK c : ProceedWith(<<<<"read", ReadName, c[1]>>, <<"write_found", ReadName>>>>)
    BY <1>1 DEF ReadSinglePred
  <2>2. AllReads(<<<<"read", ReadName, c[1]>>, <<"write_found", ReadName>>>>)
    BY ReadsTwo DEF ReadCalls
  <2>3. QED BY <2>1, <2>2
<1>2. CASE ReadJoin
  <2>1. AllReads(<<<<"addArg", ReadName, NewValue, ReadBlock>>, <<"write", ReadName, NewValue>>>>)
    BY ReadsTwo DEF ReadCalls
  <2>2. QED BY <1>2, <2>1 DEF ReadJoin
<1>3. CASE AddBlockArg
  <2>1. PICK order \in SetToSeqs(PrevBlocks(Frame.todo[1][4])) : ProceedWith(Asked(Frame.todo[1][2], order))
    BY <1>3 DEF AddBlockArg, Asked
  <2>2. AllReads(Asked(Frame.todo[1][2], order))
    BY AskedFacts DEF AllReads, ReadCalls
  <2>3. QED BY <2>1, <2>2
<1>4. CASE Seal \/ SealCurrent
  <2>1. PICK b \in graph[proc] : SealBlock(b) /\ phase = "body"
    <3>1. CASE Seal
      BY <1>4, <3>1, SlotFacts DEF Seal, Due, SlotCalls
    <3>2. CASE SealCurrent
      BY <1>4, <3>2, StartFacts, BodyFacts DEF SealCurrent, StartAction
    <3>3. QED BY <1>4, <3>1, <3>2
  <2>2. b \in Block
    BY <2>1, BodyFacts
  <2>3. QED BY <2>1, <2>2, SealReads DEF SealBlock, EmitterInv
<1>5. CASE ReadLocal
  <2>1. AllReads(<<<<"read", Frame.node.name, current_block>>, <<"answer_found">>>>)
    BY ReadsTwo DEF ReadCalls
  <2>2. QED BY <1>5, <2>1 DEF ReadLocal
<1>6. QED BY <1>1, <1>2, <1>3, <1>4, <1>5 DEF SearchAction

LEMMA SearchActionEdges ==
  ASSUME EmitterInv, EdgesInv, SearchAction
  PROVE  EdgesInv'
<1>1. \E call \in ReadCalls \cup {"seal", "seal_current", "readVar"} : Due(call)
  BY DEF SearchAction, ReadSinglePred, ReadJoin, AddBlockArg, Seal, SealCurrent, ReadLocal, Reading, ReadCalls
<1>2. SameCodeAndEdges
  <2>1. UNCHANGED protocolVars /\ UNCHANGED <<program, insts>>
    BY DEF SearchAction, ReadSinglePred, ReadJoin, AddBlockArg, Seal, SealCurrent, SealBlock, ReadLocal,
           Finding, Aside
  <2>2. QED BY <2>1 DEF protocolVars, vars, SameCodeAndEdges, edgeVars
<1>3. \E r : AllReads(r) /\ ProceedWith(r)
  BY SearchCalls
<1>4. QED BY <1>1, <1>2, <1>3, SearchEdges

---------------------------------------------------------------------------
(* Steps that make an instruction or draw an edge.                         *)

\* The current block after an instruction that is no jump or branch.
LEMMA CodeEdges ==
  ASSUME EmitterInv, TypesInv, EdgesInv, NEW inst, insts' = Pushed(inst), Proceed,
         UNCHANGED <<protocolVars, program>>, current_block \in Live, Frame.todo # <<>>,
         \A c, d : CallEdge(c, d) => c.cur = "clean" /\ d.fresh = c.fresh,
         \A c, d : CallEdge(c, d) =>
           \/ ~IsGateway(inst) /\ d.cur = "clean"
           \/ IsGateway(inst) /\ inst.op = "rt" /\ d.cur = "left"
  PROVE  EdgesInv'
<1>1. PICK cb : cb = current_block
  OBVIOUS
<1>2. /\ Gate(cb)' = IF IsGateway(inst) THEN inst.op ELSE "none"
      /\ \A b \in Live : b # cb => insts'[b] = insts[b]
  BY <1>1, PushedGate
<1>3. UNCHANGED <<graph, stack, saves, succ, alt, program>> /\ current_block' = cb
  BY <1>1 DEF protocolVars, vars, edgeVars, current_block
<1>4. OnlyHereChanges
  BY <1>1, <1>2, <1>3 DEF OnlyHereChanges, Same
<1>5. ASSUME NEW c, NEW d, CallEdge(c, d), current_block \in Live => Has(current_block, c.cur)
      PROVE  d.fresh \subseteq c.fresh /\ (current_block \in Live => Has(current_block, d.cur)')
  <2>1. Has(cb, "clean") /\ d.fresh = c.fresh
    BY <1>1, <1>5
  <2>2. succ'[cb] = NoBlock /\ alt'[cb] = NoBlock
    BY <1>3, <2>1 DEF Has
  <2>3. Has(cb, d.cur)'
    BY <1>2, <1>5, <2>2 DEF Has
  <2>4. QED BY <1>3, <2>1, <2>3 DEF Has, Gate
<1>6. IsFrame(Frame)
  BY FrameOfInv DEF EmitterInv
<1>7. frames' = Continued(Made(Tail(Frame.todo), Frame.slots, Frame.kept))
  BY <1>6, RestForms, Zenon DEF Proceed
<1>8. QED BY <1>4, <1>5, <1>7, EdgesProceed

\* What a call of the visit says of edges.
LEMMA VisitCallEdge ==
  ASSUME EmitterInv, Frame.todo # <<>>, Frame.todo[1][1] \notin UnitCalls, NEW c, NEW d, CallEdge(c, d)
  PROVE  EdgeCall(Frame.node, Frame.todo[1], c, d)
<1>1. Len(frames) # 1
  BY DueInVisit DEF EmitterInv
<1>2. QED BY <1>1 DEF CallEdge

LEMMA StatementEdges ==
  ASSUME EmitterInv, TypesInv, EdgesInv, CallFunction \/ LoadGlobal \/ StoreGlobal \/ ReturnInst
  PROVE  EdgesInv'
<1>1. \E inst : /\ insts' = Pushed(inst)
                /\ IsGateway(inst) <=> ReturnInst
                /\ ReturnInst => inst.op = "rt"
  <2>1. CASE ReturnInst
    BY <2>1 DEF ReturnInst, Create, Rt, IsGateway
  <2>2. CASE ~ReturnInst /\ CallFunction
    BY <2>2 DEF CallFunction, Create, CallInst, IsGateway
  <2>3. CASE ~ReturnInst /\ LoadGlobal
    BY <2>3 DEF LoadGlobal, Create, Load, IsGateway
  <2>4. CASE ~ReturnInst /\ StoreGlobal
    BY <2>4 DEF StoreGlobal, Create, Store, IsGateway
  <2>5. QED BY <2>1, <2>2, <2>3, <2>4
<1>2. PICK inst : /\ insts' = Pushed(inst)
                  /\ IsGateway(inst) <=> ReturnInst
                  /\ ReturnInst => inst.op = "rt"
  BY <1>1
<1>3. Proceed /\ UNCHANGED <<protocolVars, program>>
  BY DEF CallFunction, LoadGlobal, StoreGlobal, ReturnInst, Create, Aside
<1>4. PICK call \in {"call", "readVar", "assign", "rt"} : Due(call) /\ (call = "rt" <=> ReturnInst)
  BY DEF CallFunction, LoadGlobal, StoreGlobal, ReturnInst, Due
<1>5. Frame.todo # <<>> /\ Frame.todo[1][1] = call
  BY <1>4 DEF Due
<1>6. current_block \in Live
  BY <1>5, DueInVisit, BodyFacts DEF UnitCalls, EmitterInv
<1>7. ASSUME NEW c, NEW d, CallEdge(c, d)
      PROVE  c.cur = "clean" /\ d.fresh = c.fresh /\ d.cur = IF call = "rt" THEN "left" ELSE "clean"
  <2>1. EdgeCall(Frame.node, Frame.todo[1], c, d)
    BY <1>5, <1>7, VisitCallEdge DEF UnitCalls
  <2>2. /\ call # "rt" => c.cur = "clean" /\ d = c
        /\ call = "rt" => c.cur = "clean" /\ d = Edge(c.fresh, "left")
    BY <1>5, <2>1 DEF EdgeCall, EdgeFree, ReadCalls
  <2>3. QED BY <2>2, EdgeFields
<1>8. ASSUME NEW c, NEW d, CallEdge(c, d)
      PROVE  \/ ~IsGateway(inst) /\ d.cur = "clean"
             \/ IsGateway(inst) /\ inst.op = "rt" /\ d.cur = "left"
  BY <1>2, <1>4, <1>7, <1>8
<1>9. QED BY <1>2, <1>3, <1>5, <1>6, <1>7, <1>8, CodeEdges

\* Linking is of the current block.
LEMMA LinkedHere ==
  ASSUME EmitterInv, phase = "body", NEW t \in graph[proc], setNext(t) \/ setElse(t)
  PROVE  /\ t # NoBlock /\ UNCHANGED <<graph, stack>> /\ current_block \in Live
         /\ setNext(t) => succ'[current_block] = t /\ alt' = alt
         /\ setElse(t) => alt'[current_block] = t /\ succ' = succ
         /\ \A b : b # current_block => succ'[b] = succ[b] /\ alt'[b] = alt[b]
<1>1. current_block \in Live /\ UNCHANGED <<graph, stack>>
  BY DEF setNext, setElse, graphVars
<1>2. current_block \in Block
  BY <1>1, LiveInBlock
<1>3. t # NoBlock
  <2>1. t \in Block
    BY BodyFacts
  <2>2. QED BY <2>1, ControlGraphAssumption
<1>4. DOMAIN succ = Block /\ DOMAIN alt = Block
  BY DEF EmitterInv, ProtocolInv, ProtocolTypeOK, TypeOK
<1>5. ASSUME setNext(t)
      PROVE  /\ succ'[current_block] = t /\ alt' = alt
             /\ \A b : b # current_block => succ'[b] = succ[b] /\ alt'[b] = alt[b]
  <2>1. succ' = [succ EXCEPT ![current_block] = t] /\ alt' = alt
    BY <1>5 DEF setNext, LinkNext
  <2>2. QED BY <1>2, <1>4, <2>1
<1>6. ASSUME setElse(t)
      PROVE  /\ alt'[current_block] = t /\ succ' = succ
             /\ \A b : b # current_block => succ'[b] = succ[b] /\ alt'[b] = alt[b]
  <2>1. alt' = [alt EXCEPT ![current_block] = t] /\ succ' = succ
    BY <1>6 DEF setElse, LinkElse
  <2>2. QED BY <1>2, <1>4, <2>1
<1>7. QED BY <1>1, <1>3, <1>5, <1>6

\* A jump ends a block that is clean, or one that is left already.
LEMMA JumpEdges ==
  ASSUME EmitterInv, TypesInv, EdgesInv, JumpTo \/ JumpWith \/ JumpOut
  PROVE  EdgesInv'
<1>1. PICK call \in {"jp", "jp_value", "jp_loop"} : Due(call) /\ (call = "jp_loop" <=> JumpOut)
  BY DEF JumpTo, JumpWith, JumpOut, Due
<1>2. Frame.todo # <<>> /\ Frame.todo[1][1] = call
  BY <1>1 DEF Due
<1>3. phase = "body" /\ current_block \in Live
  BY <1>2, DueInVisit, BodyFacts DEF UnitCalls, EmitterInv
<1>4. PICK t : t \in graph[proc] /\ Jump(t)
  <2>1. CASE JumpOut
    BY <1>1, <2>1, JumpOutFacts DEF JumpOut
  <2>2. CASE JumpTo \/ JumpWith
    <3>1. call \in SlotCalls
      BY <1>2, <2>2 DEF JumpTo, JumpWith, Due, SlotCalls
    <3>2. QED BY <1>2, <2>2, <3>1, SlotFacts DEF JumpTo, JumpWith
  <2>3. QED BY <2>1, <2>2
<1>5. /\ setNext(t) /\ insts' = Pushed(Jp) /\ Proceed /\ UNCHANGED <<program, saves>>
  BY <1>4 DEF Jump
<1>6. PICK cb : cb = current_block
  OBVIOUS
<1>7. /\ t # NoBlock /\ UNCHANGED <<graph, stack>> /\ succ'[cb] = t /\ alt' = alt
      /\ \A b : b # cb => succ'[b] = succ[b] /\ alt'[b] = alt[b]
  BY <1>3, <1>4, <1>5, <1>6, LinkedHere
<1>8. Gate(cb)' = "jp" /\ \A b \in Live : b # cb => insts'[b] = insts[b]
  <2>1. IsGateway(Jp) /\ Jp.op = "jp"
    BY DEF IsGateway, Jp
  <2>2. QED BY <1>3, <1>5, <1>6, <2>1, PushedGate
<1>9. OnlyHereChanges /\ current_block' = cb
  BY <1>5, <1>6, <1>7, <1>8 DEF OnlyHereChanges, Same, current_block
<1>10. ASSUME NEW c, NEW d, CallEdge(c, d), current_block \in Live => Has(current_block, c.cur)
       PROVE  d.fresh \subseteq c.fresh /\ (current_block \in Live => Has(current_block, d.cur)')
  <2>1. EdgeCall(Frame.node, Frame.todo[1], c, d)
    BY <1>2, <1>10, VisitCallEdge DEF UnitCalls
  <2>2. c.cur \in {"clean", "left"} /\ d = Edge(c.fresh, "left")
    BY <1>2, <2>1 DEF EdgeCall, EdgeFree, ReadCalls
  <2>3. c.cur \in {"clean", "left"} /\ d.fresh = c.fresh /\ d.cur = "left"
    BY <2>2, EdgeFields
  <2>4. alt[cb] = NoBlock
    BY <1>3, <1>6, <1>10, <2>3 DEF Has
  <2>5. Has(cb, d.cur)'
    BY <1>7, <1>8, <2>3, <2>4 DEF Has
  <2>6. QED BY <1>9, <2>3, <2>5 DEF Has, Gate
<1>11. frames' = Continued(Made(Tail(Frame.todo), Frame.slots, Frame.kept))
  BY <1>5, RestForms, FrameOfInv, Zenon DEF Proceed, EmitterInv
<1>12. QED BY <1>2, <1>9, <1>10, <1>11, EdgesProceed

\* A branch ends the block whose targets were drawn.
LEMMA BranchInstEdges ==
  ASSUME EmitterInv, TypesInv, EdgesInv, BranchInst
  PROVE  EdgesInv'
<1>1. Frame.todo # <<>> /\ Frame.todo[1][1] = "br"
  BY DEF BranchInst, Due
<1>2. current_block \in Live
  BY <1>1, DueInVisit, BodyFacts DEF UnitCalls, EmitterInv
<1>3. PICK targs, fargs : insts' = Pushed(Br(Frame.kept, targs, fargs))
  BY DEF BranchInst
<1>4. UNCHANGED <<protocolVars, program>> /\ Proceed
  BY DEF BranchInst, Aside
<1>5. PICK cb : cb = current_block
  OBVIOUS
<1>6. Gate(cb)' = "br" /\ \A b \in Live : b # cb => insts'[b] = insts[b]
  <2>1. IsGateway(Br(Frame.kept, targs, fargs)) /\ Br(Frame.kept, targs, fargs).op = "br"
    BY DEF IsGateway, Br
  <2>2. QED BY <1>2, <1>3, <1>5, <2>1, PushedGate
<1>7. UNCHANGED <<graph, stack, saves, succ, alt, program>> /\ current_block' = cb
  BY <1>4, <1>5 DEF protocolVars, vars, edgeVars, current_block
<1>8. OnlyHereChanges
  BY <1>5, <1>6, <1>7 DEF OnlyHereChanges, Same
<1>9. ASSUME NEW c, NEW d, CallEdge(c, d), current_block \in Live => Has(current_block, c.cur)
      PROVE  d.fresh \subseteq c.fresh /\ (current_block \in Live => Has(current_block, d.cur)')
  <2>1. EdgeCall(Frame.node, Frame.todo[1], c, d)
    BY <1>1, <1>9, VisitCallEdge DEF UnitCalls
  <2>2. c.cur = "both" /\ d = Edge(c.fresh, "branched")
    BY <1>1, <2>1 DEF EdgeCall, EdgeFree, ReadCalls
  <2>3. d.fresh = c.fresh /\ d.cur = "branched"
    BY <2>2, EdgeFields
  <2>4. succ[cb] # NoBlock /\ alt[cb] # NoBlock
    BY <1>2, <1>5, <1>9, <2>2 DEF Has
  <2>5. Has(cb, d.cur)'
    BY <1>6, <1>7, <2>3, <2>4 DEF Has
  <2>6. QED BY <1>7, <2>3, <2>5 DEF Has, Gate
<1>10. frames' = Continued(Made(Tail(Frame.todo), Frame.slots, Frame.kept))
  BY <1>4, RestForms, FrameOfInv, Zenon DEF Proceed, EmitterInv
<1>11. QED BY <1>1, <1>8, <1>9, <1>10, EdgesProceed

\* The targets of a branch are drawn one by one.
LEMMA LinkEdges ==
  ASSUME EmitterInv, EdgesInv, SetNext \/ SetElse
  PROVE  EdgesInv'
<1>1. /\ Frame.todo # <<>> /\ Frame.todo[1][1] \in {"setNext", "setElse"}
      /\ Frame.todo[1][1] = "setNext" => setNext(Slot(What))
      /\ Frame.todo[1][1] = "setElse" => setElse(Slot(What))
  BY DEF SetNext, SetElse, Due
<1>2. PICK t \in graph[proc] : t = Slot(What)
  BY <1>1, SlotFacts DEF SlotCalls
<1>3. phase = "body" /\ current_block \in Live
  BY <1>1, DueInVisit, BodyFacts DEF UnitCalls, EmitterInv
<1>4. Proceed /\ UNCHANGED <<program, saves, insts>>
  BY DEF SetNext, SetElse, Building, SameCode, codeVars2
<1>5. PICK cb : cb = current_block
  OBVIOUS
<1>6. /\ t # NoBlock /\ UNCHANGED <<graph, stack>>
      /\ setNext(t) => succ'[cb] = t /\ alt' = alt
      /\ setElse(t) => alt'[cb] = t /\ succ' = succ
      /\ \A b : b # cb => succ'[b] = succ[b] /\ alt'[b] = alt[b]
  BY <1>1, <1>2, <1>3, <1>5, LinkedHere
<1>7. OnlyHereChanges /\ current_block' = cb /\ Gate(cb)' = Gate(cb)
  BY <1>4, <1>5, <1>6 DEF OnlyHereChanges, Same, current_block, Gate
<1>8. ASSUME NEW c, NEW d, CallEdge(c, d), current_block \in Live => Has(current_block, c.cur)
      PROVE  d.fresh \subseteq c.fresh /\ (current_block \in Live => Has(current_block, d.cur)')
  <2>1. EdgeCall(Frame.node, Frame.todo[1], c, d)
    BY <1>1, <1>8, VisitCallEdge DEF UnitCalls
  <2>2. CASE Frame.todo[1][1] = "setNext"
    <3>1. c.cur = "clean" /\ d = Edge(c.fresh, "next")
      BY <2>1, <2>2 DEF EdgeCall, EdgeFree, ReadCalls
    <3>2. d.fresh = c.fresh /\ d.cur = "next"
      BY <3>1, EdgeFields
    <3>3. Gate(cb) = "none" /\ alt[cb] = NoBlock
      BY <1>3, <1>5, <1>8, <3>1 DEF Has
    <3>4. succ'[cb] = t /\ alt' = alt
      BY <1>1, <1>2, <1>6, <2>2
    <3>5. Has(cb, d.cur)'
      BY <1>6, <1>7, <3>2, <3>3, <3>4 DEF Has
    <3>6. QED BY <1>7, <3>2, <3>5 DEF Has, Gate
  <2>3. CASE Frame.todo[1][1] = "setElse"
    <3>1. c.cur = "next" /\ d = Edge(c.fresh, "both")
      BY <2>1, <2>3 DEF EdgeCall, EdgeFree, ReadCalls
    <3>2. d.fresh = c.fresh /\ d.cur = "both"
      BY <3>1, EdgeFields
    <3>3. Gate(cb) = "none" /\ succ[cb] # NoBlock
      BY <1>3, <1>5, <1>8, <3>1 DEF Has
    <3>4. alt'[cb] = t /\ succ' = succ
      BY <1>1, <1>2, <1>6, <2>3
    <3>5. Has(cb, d.cur)'
      BY <1>6, <1>7, <3>2, <3>3, <3>4 DEF Has
    <3>6. QED BY <1>7, <3>2, <3>5 DEF Has, Gate
  <2>4. QED BY <1>1, <2>2, <2>3
<1>9. frames' = Continued(Made(Tail(Frame.todo), Frame.slots, Frame.kept))
  BY <1>4, RestForms, FrameOfInv, Zenon DEF Proceed, EmitterInv
<1>10. QED BY <1>1, <1>7, <1>8, <1>9, EdgesProceed

---------------------------------------------------------------------------
(* Steps that change what is left to do.                                   *)

LEMMA StopIfTermEdges ==
  ASSUME EmitterInv, EdgesInv, StopIfTerm
  PROVE  EdgesInv'
<1> DEFINE last == Frame.todo[Len(Frame.todo)]
           todo == IF isTerm THEN <<last>> ELSE Tail(Frame.todo)
           f == Made(todo, Frame.slots, Frame.kept)
<1>1. Frame.todo # <<>> /\ Frame.todo[1][1] = "stop_if_term"
  BY DEF StopIfTerm, Due
<1>2. UNCHANGED protocolVars /\ UNCHANGED <<program, insts>>
  BY DEF StopIfTerm, Aside, SameCode, codeVars2
<1>3. frames' = Continued(f)
  <2>1. frames' = Continued([Frame EXCEPT !.todo = todo])
    BY DEF StopIfTerm
  <2> HIDE DEF todo
  <2>2. QED BY <2>1, RestForms, FrameOfInv, Zenon DEF EmitterInv
<1>4. f.node = Frame.node /\ f.todo = todo /\ f.slots = Frame.slots
  BY FrameFields DEF Made
<1> HIDE DEF f
<1>5. SameCodeAndEdges
  BY <1>2 DEF SameCodeAndEdges, protocolVars, vars, edgeVars
<1>6. PICK n : n = Len(frames) /\ n # 1
  BY <1>1, DueInVisit DEF UnitCalls, EmitterInv
<1>7. current_block \in Live
  BY <1>1, DueInVisit, BodyFacts DEF UnitCalls, EmitterInv
<1>8. ASSUME NEW c, TopEdge(c) PROVE \E d : NextEdge(todo, c, d)
  <2>1. PICK e : Ends(Frame.node, e.cur) /\ Legal("edges", Frame.node, Frame.todo, c, e)
    BY <1>6, <1>8 DEF TopEdge, TodoOK
  <2>2. Len(Frame.todo) # 0
    BY <1>1, <2>1, EmptyFacts DEF Legal
  <2>3. PICK d : Typed("edges", Frame.node, Frame.todo[1], c, d) /\ Legal("edges", Frame.node, Tail(Frame.todo), d, e)
    BY <2>1, <2>2, LegalTail
  <2>4. Frame.node.kind = "Block" /\ c.cur \in {"clean", "left"} /\ d = Edge(c.fresh, "clean")
    <3>1. EdgeCall(Frame.node, Frame.todo[1], c, d)
      BY <1>1, <2>3 DEF Typed
    <3>2. QED BY <1>1, <3>1 DEF EdgeCall, EdgeFree, ReadCalls
  <2>5. PICK cb : cb = current_block
    OBVIOUS
  <2>6. cb = current_block' /\ Has(cb, c.cur)
    BY <1>5, <1>7, <1>8, <2>5 DEF SameCodeAndEdges, current_block, TopEdge
  <2>7. CASE isTerm
    <3> DEFINE g == Edge(c.fresh, c.cur)
    <3>1. g.fresh = c.fresh /\ g.cur = c.cur
      BY EdgeFields
    <3>2. e.cur = "done"
      BY <2>1, <2>4 DEF Ends, Expressions
    <3>3. Legal("edges", Frame.node, <<last>>, g, Edge(c.fresh, "done"))
      BY <2>1, <2>2, <2>4, <3>2, LastEdges
    <3>4. Ends(Frame.node, Edge(c.fresh, "done").cur)
      BY <2>4, EdgeFields DEF Ends, Expressions
    <3> HIDE DEF g, last
    <3>5. TodoOK(n, Frame.node, todo, g)
      BY <1>6, <2>7, <3>3, <3>4 DEF TodoOK
    <3>6. Has(cb, g.cur)'
      BY <1>5, <2>6, <3>1, SameHas, SameStays
    <3>7. current_block \in Live => Has(current_block, g.cur)'
      BY <2>6, <3>6 DEF Has, Gate
    <3>8. QED BY <1>6, <3>1, <3>5, <3>7 DEF NextEdge
  <2>8. CASE ~isTerm
    <3>1. d.fresh = c.fresh /\ d.cur = "clean"
      BY <2>4, EdgeFields
    <3>2. TodoOK(n, Frame.node, todo, d)
      BY <1>6, <2>1, <2>3, <2>8 DEF TodoOK
    <3>3. Gate(cb) = "none"
      BY <2>5, <2>8 DEF isTerm, Gate
    <3>4. Has(cb, "clean")
      BY <2>4, <2>6, <3>3 DEF Has
    <3>5. Has(cb, d.cur)'
      BY <1>5, <3>1, <3>4, SameHas, SameStays
    <3>6. current_block \in Live => Has(current_block, d.cur)'
      BY <2>6, <3>5 DEF Has, Gate
    <3>7. QED BY <1>6, <3>1, <3>2, <3>6 DEF NextEdge
  <2>9. QED BY <2>7, <2>8
<1> HIDE DEF todo
<1>9. QED BY <1>3, <1>4, <1>5, <1>8, EdgesGoOn, SameStays DEF OnlyHereChanges

\* What is to do after a decision.
LEMMA DecidedFrame ==
  ASSUME EmitterInv, Decide
  PROVE  \E todo, kept : /\ frames' = Continued(Made(todo, Frame.slots, kept))
                         /\ todo = Lowered(Frame.node) \/ \E v : todo = Folded(Frame.node, v)
<1>0. IsFrame(Frame)
  BY FrameOfInv DEF EmitterInv
<1>1. CASE isIm(value)
  <2>1. frames' = Continued([Frame EXCEPT !.todo = Folded(Frame.node, value.im)])
    BY <1>1 DEF Decide
  <2>2. [Frame EXCEPT !.todo = Folded(Frame.node, value.im)]
          = Made(Folded(Frame.node, value.im), Frame.slots, Frame.kept)
    BY <1>0, RestForms, Zenon
  <2>3. QED BY <2>1, <2>2
<1>2. CASE ~isIm(value)
  <2>1. frames' = Continued([Frame EXCEPT !.todo = Lowered(Frame.node), !.kept = value])
    BY <1>2 DEF Decide
  <2>2. [Frame EXCEPT !.todo = Lowered(Frame.node), !.kept = value]
          = Made(Lowered(Frame.node), Frame.slots, value)
    BY <1>0, RestForms, Zenon
  <2>3. QED BY <2>1, <2>2
<1>3. QED BY <1>1, <1>2

LEMMA DecideEdges ==
  ASSUME EmitterInv, EdgesInv, Decide
  PROVE  EdgesInv'
<1>1. Frame.todo # <<>> /\ Frame.todo[1][1] = "decide"
  BY DEF Decide, Due
<1>2. UNCHANGED protocolVars /\ UNCHANGED <<program, insts>>
  BY DEF Decide, Aside, SameCode, codeVars2
<1>3. SameCodeAndEdges
  BY <1>2 DEF SameCodeAndEdges, protocolVars, vars, edgeVars
<1>4. PICK todo, kept : /\ frames' = Continued(Made(todo, Frame.slots, kept))
                        /\ todo = Lowered(Frame.node) \/ \E v : todo = Folded(Frame.node, v)
  BY DecidedFrame
<1> DEFINE f == Made(todo, Frame.slots, kept)
<1>5. f.node = Frame.node /\ f.todo = todo /\ f.slots = Frame.slots
  BY FrameFields DEF Made
<1>6. frames' = Continued(f)
  BY <1>4
<1> HIDE DEF f
<1>7. PICK n : n = Len(frames) /\ n # 1
  BY <1>1, DueInVisit DEF UnitCalls, EmitterInv
<1>8. IsNode(Frame.node)
  <2>1. PICK c, s, l : TopState(c, s, l)
    BY <1>1, DueInVisit, FrameFacts DEF EmitterInv, UnitCalls
  <2>2. QED BY <2>1 DEF TopState, FrameOK, IsNode
<1>9. ASSUME NEW c, TopEdge(c) PROVE \E d : NextEdge(todo, c, d)
  <2>1. PICK d : EdgeCall(Frame.node, Frame.todo[1], c, d)
    BY <1>1, <1>7, <1>9, EdgeDue DEF EmitterInv
  <2>2. Frame.node.kind \in {"And", "Or", "If"} /\ c = Fresh
    BY <1>1, <2>1 DEF EdgeCall, EdgeFree, ReadCalls, Fresh
  <2>3. PICK e : Ends(Frame.node, e.cur) /\ Legal("edges", Frame.node, todo, c, e)
    BY <1>4, <1>8, <2>2, DecisionEdges
  <2>4. TodoOK(Len(frames), Frame.node, todo, c)
    BY <1>7, <2>3 DEF TodoOK
  <2>5. current_block \in Live => Has(current_block, c.cur)'
    <3>1. PICK cb : cb = current_block
      OBVIOUS
    <3>2. cb = current_block'
      BY <1>3, <3>1 DEF SameCodeAndEdges, current_block
    <3>3. current_block \in Live => Has(cb, c.cur)'
      BY <1>3, <1>9, <3>1, SameHas, SameStays DEF TopEdge
    <3>4. QED BY <3>2, <3>3 DEF Has, Gate
  <2>6. QED BY <2>4, <2>5 DEF NextEdge
<1>10. QED BY <1>3, <1>5, <1>6, <1>9, EdgesGoOn, SameStays DEF OnlyHereChanges

\* Nothing the blocks' edges depend on changes.
LEMMA EdgesStay ==
  ASSUME EdgesInv, frames' = frames, SameCodeAndEdges
  PROVE  EdgesInv'
<1>1. PICK ctx, own : EdgeFrames(ctx) /\ EdgeBlocks(ctx, own)
  BY DEF EdgesInv
<1>2. EdgeFrames(ctx)'
  BY <1>1 DEF EdgeFrames, TodoOK, SameCodeAndEdges
<1>3. EdgeBlocks(ctx, own)'
  BY <1>1 DEF EdgeBlocks, FreshIn, SavesPend, CurrentHas, OthersFit, Pending, Fits, Has, Gate, Live, current_block,
              SameCodeAndEdges
<1>4. QED BY <1>2, <1>3 DEF EdgesInv

LEMMA StillEdges ==
  ASSUME EdgesInv, ReadNowhere \/ UNCHANGED allVars
  PROVE  EdgesInv'
<1>1. UNCHANGED protocolVars /\ UNCHANGED <<program, frames, insts>>
  BY DEF ReadNowhere, Finding, Aside, allVars, emitterVars, codeVars2
<1>2. SameCodeAndEdges
  BY <1>1 DEF SameCodeAndEdges, protocolVars, vars, edgeVars
<1>3. QED BY <1>1, <1>2, EdgesStay

---------------------------------------------------------------------------
(* Visits that begin and end.                                              *)

LEMMA BlocksStay ==
  ASSUME SameCodeAndEdges, NEW own
  PROVE  /\ \A slots, F, i : FreshIn(slots, F, i, own) => FreshIn(slots, F, i, own)'
         /\ SavesPend(own) => SavesPend(own)'
         /\ OthersFit => OthersFit'
         /\ \A cur : CurrentHas(cur, own) => CurrentHas(cur, own)'
  BY DEF FreshIn, SavesPend, CurrentHas, OthersFit, Pending, Fits, Has, Gate, Live, current_block, SameCodeAndEdges

\* A visit of node kid begins in a clean block.
LEMMA BeginEdges ==
  ASSUME EmitterInv, EdgesInv, Frame.todo # <<>>, SameCodeAndEdges, NEW kid, IsNode(kid),
         frames' = Append(Continued(Rest), NewFrame(kid)),
         \A c, d : CallEdge(c, d) => c.cur = "clean" /\ d.fresh \subseteq c.fresh /\ Follows(kid, d.cur)
  PROVE  EdgesInv'
<1>1. PICK ctx, own : EdgeFrames(ctx) /\ EdgeBlocks(ctx, own)
  BY DEF EdgesInv
<1>2. FramesInv
  BY DEF EmitterInv
<1>3. PICK n : n = Len(frames)
  OBVIOUS
<1>4. n \in 1..n /\ n \in Nat /\ n # 0 /\ TopEdge(ctx[n])
  BY <1>1, <1>2, <1>3, TopEdgeFacts, FrameFacts
<1>5. PICK d : TodoOK(n, Frame.node, Tail(Frame.todo), d) /\ CallEdge(ctx[n], d)
  BY <1>2, <1>3, <1>4, EdgeDue DEF CallEdge
<1>6. ctx[n].cur = "clean" /\ d.fresh \subseteq ctx[n].fresh /\ Follows(kid, d.cur)
  BY <1>5
<1> DEFINE etx == With(ctx, n, d)
           dtx == With(etx, n + 1, Fresh)
<1>7. n + 1 \in Nat /\ n + 1 # 0 /\ n + 1 # 1 /\ n \in 1..(n + 1) /\ n # n + 1 /\ n + 1 \in 1..(n + 1)
  BY <1>4
<1>8. etx[n] = d /\ \A i \in 1..n : i # n => etx[i] = ctx[i]
  BY <1>4, WithFacts
<1> HIDE DEF etx
<1>9. dtx[n + 1] = Fresh /\ dtx[n] = d /\ \A i \in 1..n : dtx[i] = etx[i]
  <2>1. dtx[n + 1] = Fresh /\ \A i \in 1..(n + 1) : i # n + 1 => dtx[i] = etx[i]
    BY <1>7, WithFacts
  <2>2. \A i \in 1..n : i \in 1..(n + 1) /\ i # n + 1
    BY <1>4
  <2> HIDE DEF dtx
  <2>3. QED BY <1>7, <1>8, <2>1, <2>2
<1> HIDE DEF dtx
<1>10. Rest.node = Frame.node /\ Rest.todo = Tail(Frame.todo) /\ Rest.slots = Frame.slots
  <2>1. Rest = Made(Tail(Frame.todo), Frame.slots, Frame.kept)
    BY <1>2, RestForms, FrameOfInv, Zenon
  <2> HIDE DEF Rest, Frame
  <2>2. QED BY <2>1, FrameFields DEF Made
<1>11. NewFrame(kid).node = kid /\ NewFrame(kid).todo = Script(kid)
  BY DEF NewFrame
<1>12. /\ Len(frames') = n + 1 /\ frames'[n + 1] = NewFrame(kid) /\ frames'[n] = Rest
       /\ \A i \in 1..n : i # n => frames'[i] = frames[i]
  <2> DEFINE fr == Continued(Rest)
  <2>1. IsSeq(fr) /\ Len(fr) = n /\ fr[n] = Rest /\ \A i \in 1..n : i # n => fr[i] = frames[i]
    BY <1>2, <1>3, ContinuedFacts
  <2> HIDE DEF fr
  <2>2. /\ Len(frames') = n + 1 /\ frames'[n + 1] = NewFrame(kid)
        /\ \A i \in 1..n : frames'[i] = fr[i]
    BY <2>1, AppendFacts DEF fr
  <2>3. QED BY <1>4, <2>1, <2>2
<1> HIDE DEF Rest
<1>13. program' = program
  BY DEF SameCodeAndEdges
<1>14. \A i \in 1..(n + 1) : i = n + 1 \/ i = n \/ (i \in 1..n /\ i # n)
  BY <1>4
<1>15. ASSUME NEW i \in 1..(n + 1) PROVE TodoOK(i, frames[i].node, frames[i].todo, dtx[i])'
  <2>1. CASE i = n + 1
    <3>1. PICK e : Ends(kid, e.cur) /\ Legal("edges", kid, Script(kid), Fresh, e)
      BY ScriptEdges
    <3>2. QED BY <1>7, <1>9, <1>11, <1>12, <2>1, <3>1 DEF TodoOK
  <2>2. CASE i = n
    BY <1>5, <1>9, <1>10, <1>12, <1>13, <2>2 DEF TodoOK
  <2>3. CASE i \in 1..n /\ i # n
    <3>1. TodoOK(i, frames[i].node, frames[i].todo, ctx[i])
      BY <1>1, <1>3, <2>3 DEF EdgeFrames
    <3>2. QED BY <1>8, <1>9, <1>12, <1>13, <2>3, <3>1 DEF TodoOK
  <2>4. QED BY <1>14, <2>1, <2>2, <2>3
<1>16. ASSUME NEW i \in 2..(n + 1) PROVE Follows(frames'[i].node, dtx[i - 1].cur)
  <2>1. CASE i = n + 1
    <3>1. i - 1 = n
      BY <1>4, <2>1
    <3>2. QED BY <1>6, <1>9, <1>11, <1>12, <2>1, <3>1
  <2>2. CASE i # n + 1
    <3>1. i \in 2..n /\ i \in 1..n /\ i - 1 \in 1..n /\ i - 1 # n
      BY <1>4, <2>2
    <3>2. frames'[i].node = frames[i].node
      BY <1>3, <1>10, <1>12, <3>1 DEF Frame
    <3>3. Follows(frames[i].node, ctx[i - 1].cur)
      BY <1>1, <1>3, <3>1 DEF EdgeFrames
    <3>4. QED BY <1>8, <1>9, <3>1, <3>2, <3>3
  <2>3. QED BY <2>1, <2>2
<1>17. EdgeFrames(dtx)'
  BY <1>12, <1>15, <1>16 DEF EdgeFrames
<1>18. ASSUME NEW i \in 1..(n + 1) PROVE FreshIn(frames[i].slots, dtx[i].fresh, i, own)'
  <2>1. CASE i = n + 1
    BY <1>9, <1>12, <2>1, EdgeFields DEF FreshIn, Fresh
  <2>2. CASE i \in 1..n
    <3>1. PICK slots : slots = frames[i].slots
      OBVIOUS
    <3>2. frames'[i].slots = slots
      BY <1>3, <1>10, <1>12, <2>2, <3>1 DEF Frame
    <3>3. FreshIn(slots, ctx[i].fresh, i, own)
      BY <1>1, <1>3, <2>2, <3>1 DEF EdgeBlocks
    <3>4. FreshIn(slots, ctx[i].fresh, i, own)'
      BY <3>3, BlocksStay
    <3>5. dtx[i].fresh \subseteq ctx[i].fresh
      BY <1>6, <1>8, <1>9, <2>2
    <3>6. QED BY <3>2, <3>4, <3>5 DEF FreshIn
  <2>3. QED BY <1>14, <1>4, <2>1, <2>2
<1>19. SavesPend(own)' /\ OthersFit'
  BY <1>1, BlocksStay DEF EdgeBlocks
<1>20. CurrentHas(dtx[n + 1].cur, own)'
  <2>1. CurrentHas("clean", own)
    BY <1>1, <1>3, <1>6 DEF EdgeBlocks
  <2>2. CurrentHas("clean", own)'
    BY <2>1, BlocksStay
  <2>3. dtx[n + 1].cur = "clean"
    BY <1>9, EdgeFields DEF Fresh
  <2>4. QED BY <2>2, <2>3
<1>21. EdgeBlocks(dtx, own)'
  BY <1>12, <1>18, <1>19, <1>20 DEF EdgeBlocks
<1>22. QED BY <1>17, <1>21 DEF EdgesInv

LEMMA VisitEdges ==
  ASSUME EmitterInv, EdgesInv, Visit
  PROVE  EdgesInv'
<1>1. Frame.todo # <<>> /\ Frame.todo[1][1] = "visit"
  BY DEF Visit, Due
<1>2. PICK kid : kid = Frame.node.kids[Frame.todo[1][2]]
  OBVIOUS
<1>3. frames' = Append(Continued(Rest), NewFrame(kid))
  BY <1>2 DEF Visit, What
<1>4. SameCodeAndEdges
  <2>1. UNCHANGED protocolVars /\ UNCHANGED <<program, insts>>
    BY DEF Visit, Aside, SameCode, codeVars2
  <2>2. QED BY <2>1 DEF SameCodeAndEdges, protocolVars, vars, edgeVars
<1>5. IsNode(kid)
  <2>1. Len(frames) > 1
    BY <1>1, DueInVisit DEF EmitterInv, UnitCalls
  <2>2. PICK c, s, l : TopState(c, s, l)
    BY <2>1, FrameFacts DEF EmitterInv
  <2>3. PICK d : Typed("visit", Frame.node, Frame.todo[1], c, d)
    BY <1>1, <2>2, CallFacts
  <2>4. NodeCall(Frame.node, Frame.todo[1], c, d)
    BY <1>1, <2>3 DEF Typed, ReadCalls
  <2>5. Frame.todo[1][2] \in DOMAIN Frame.node.kids
    BY <1>1, <2>4, Zenon DEF NodeCall
  <2>6. PICK loop : <<Frame.node, loop>> \in Nodes
    BY <2>2 DEF TopState, FrameOK
  <2>7. QED BY <1>2, <2>5, <2>6, ProgramsAssumption DEF WellFormed, IsNode
<1>6. ASSUME NEW c, NEW d, CallEdge(c, d)
      PROVE  c.cur = "clean" /\ d.fresh \subseteq c.fresh /\ Follows(kid, d.cur)
  <2>1. EdgeCall(Frame.node, Frame.todo[1], c, d)
    BY <1>1, <1>6, VisitCallEdge DEF UnitCalls
  <2>2. c.cur = "clean" /\ d = Edge(c.fresh, AfterVisit(kid))
    BY <1>1, <1>2, <2>1 DEF EdgeCall, EdgeFree, ReadCalls
  <2>3. d.fresh = c.fresh /\ d.cur = AfterVisit(kid)
    BY <2>2, EdgeFields
  <2>4. QED BY <2>2, <2>3 DEF AfterVisit, Follows
<1>7. QED BY <1>1, <1>3, <1>4, <1>5, <1>6, BeginEdges

LEMMA VisitBodyEdges ==
  ASSUME EmitterInv, EdgesInv, VisitBody
  PROVE  EdgesInv'
<1>1. Frame.todo # <<>> /\ Frame.todo[1][1] = "body" /\ What = Frame.todo[1][2]
  BY DEF VisitBody, Due, What
<1>2. PICK kid : kid = IF What = "main" THEN program.main ELSE program.funcs[What].body
  OBVIOUS
<1>3. frames' = Append(Continued(Rest), NewFrame(kid))
  BY <1>2 DEF VisitBody
<1>4. SameCodeAndEdges
  <2>1. UNCHANGED protocolVars /\ UNCHANGED <<program, insts>>
    BY DEF VisitBody, Aside, SameCode, codeVars2
  <2>2. QED BY <2>1 DEF SameCodeAndEdges, protocolVars, vars, edgeVars
<1>5. Len(frames) = 1
  BY <1>1, DueInUnit DEF EmitterInv, UnitCalls
<1>6. IsNode(kid)
  <2>1. PICK d : UnitCall(program, Frame.todo[1], phase, d)
    BY <1>1, <1>5, UnitFacts DEF EmitterInv
  <2>2. IsFunction(program, What)
    BY <1>1, <2>1 DEF UnitCall
  <2>3. QED BY <1>2, <2>2, ProgramsAssumption DEF IsFunction, BodiesAmong, EmitterInv, IsNode
<1>7. ASSUME NEW c, NEW d, CallEdge(c, d)
      PROVE  c.cur = "clean" /\ d.fresh \subseteq c.fresh /\ Follows(kid, d.cur)
  <2>1. EdgeUnitCall(Frame.todo[1], c, d)
    BY <1>5, <1>7 DEF CallEdge
  <2>2. c.cur = "clean" /\ d = Edge({}, "left")
    BY <1>1, <2>1 DEF EdgeUnitCall
  <2>3. QED BY <2>2, EdgeFields DEF Follows
<1>8. QED BY <1>1, <1>3, <1>4, <1>6, <1>7, BeginEdges

\* The frame below finds the block as it expects it.
LEMMA ReturnEdges ==
  ASSUME EmitterInv, EdgesInv, Return
  PROVE  EdgesInv'
<1>1. PICK ctx, own : EdgeFrames(ctx) /\ EdgeBlocks(ctx, own)
  BY DEF EdgesInv
<1>2. PICK n : n = Len(frames)
  OBVIOUS
<1>3. n \in Nat /\ n > 1 /\ Frame.todo = <<>> /\ frames' = SubSeq(frames, 1, n - 1) /\ IsSeq(frames)
  BY <1>2, FrameFacts DEF Return, EmitterInv
<1>4. /\ n # 1 /\ n # 0 /\ n \in 1..n /\ n \in 2..n /\ n - 1 \in 1..n /\ n - 1 \in Nat
      /\ \A i \in 1..(n - 1) : i \in 1..n /\ i # n
      /\ \A i \in 2..(n - 1) : i \in 2..n /\ i \in 1..(n - 1)
  BY <1>3
<1>5. Len(frames') = n - 1 /\ \A i \in 1..(n - 1) : frames'[i] = frames[i]
  BY <1>2, <1>3, <1>4, FrontFacts
<1>6. SameCodeAndEdges
  <2>1. UNCHANGED protocolVars /\ UNCHANGED <<program, insts>>
    BY DEF Return, Aside, SameCode, codeVars2
  <2>2. QED BY <2>1 DEF SameCodeAndEdges, protocolVars, vars, edgeVars
<1>7. EdgeFrames(ctx)'
  <2>1. ASSUME NEW i \in 1..(n - 1) PROVE TodoOK(i, frames[i].node, frames[i].todo, ctx[i])'
    <3>1. TodoOK(i, frames[i].node, frames[i].todo, ctx[i])
      BY <1>1, <1>2, <1>4 DEF EdgeFrames
    <3>2. QED BY <1>5, <1>6, <3>1 DEF TodoOK, SameCodeAndEdges
  <2>2. \A i \in 2..(n - 1) : Follows(frames'[i].node, ctx[i - 1].cur)
    BY <1>1, <1>2, <1>4, <1>5 DEF EdgeFrames
  <2>3. QED BY <1>5, <2>1, <2>2 DEF EdgeFrames
<1>8. Ends(Frame.node, ctx[n].cur) /\ Follows(Frame.node, ctx[n - 1].cur)
  <2>1. PICK e : Ends(Frame.node, e.cur) /\ Legal("edges", Frame.node, <<>>, ctx[n], e)
    BY <1>1, <1>2, <1>3, <1>4 DEF EdgeFrames, TodoOK, Frame
  <2>2. e = ctx[n]
    BY <2>1, EmptyFacts DEF Legal
  <2>3. Follows(Frame.node, ctx[n - 1].cur)
    BY <1>1, <1>2, <1>4 DEF EdgeFrames, Frame
  <2>4. QED BY <2>1, <2>2, <2>3
<1>9. CurrentHas(ctx[n - 1].cur, own)'
  <2>1. CurrentHas(ctx[n].cur, own)
    BY <1>1, <1>2 DEF EdgeBlocks
  <2>2. \A b : Has(b, ctx[n].cur) => Has(b, ctx[n - 1].cur)
    <3>1. CASE Frame.node.kind \in Expressions
      BY <1>8, <3>1, HasWeaker DEF Ends, Follows
    <3>2. CASE Frame.node.kind \notin Expressions
      <4>1. ctx[n - 1].cur = "left" /\ ctx[n].cur \in {"done", "clean", "left"}
        BY <1>8, <3>2 DEF Ends, Follows
      <4>2. QED BY <4>1, HasWeaker
    <3>3. QED BY <3>1, <3>2
  <2>3. CurrentHas(ctx[n - 1].cur, own)
    BY <2>1, <2>2 DEF CurrentHas
  <2>4. QED BY <1>6, <2>3, BlocksStay
<1>10. ASSUME NEW i \in 1..(n - 1) PROVE FreshIn(frames[i].slots, ctx[i].fresh, i, own)'
  <2>1. PICK slots : slots = frames[i].slots
    OBVIOUS
  <2>2. FreshIn(slots, ctx[i].fresh, i, own)
    BY <1>1, <1>2, <1>4, <2>1 DEF EdgeBlocks
  <2>3. FreshIn(slots, ctx[i].fresh, i, own)'
    BY <1>6, <2>2, BlocksStay
  <2>4. QED BY <1>5, <2>1, <2>3 DEF FreshIn
<1>11. SavesPend(own)' /\ OthersFit'
  BY <1>1, <1>6, BlocksStay DEF EdgeBlocks
<1>12. EdgeBlocks(ctx, own)'
  BY <1>5, <1>9, <1>10, <1>11 DEF EdgeBlocks
<1>13. QED BY <1>7, <1>12 DEF EdgesInv

---------------------------------------------------------------------------
(* Steps that make blocks, or go to another block.                         *)

\* What is known of the blocks of the innermost frame.
TopBlocks(c, own) ==
  /\ FreshIn(Frame.slots, c.fresh, Len(frames), own)
  /\ SavesPend(own)
  /\ CurrentHas(c.cur, own)
  /\ OthersFit

\* The step makes mine of own, and leaves to the other frames what is theirs.
Rearranged(own, mine, slots, d) ==
  /\ \A b \in Live : \A i, x : i # Len(frames) /\ own[b] = FreshAt(i, x) => mine[b] = own[b]
  /\ FreshIn(slots, d.fresh, Len(frames), mine)'
  /\ SavesPend(mine)'
  /\ CurrentHas(d.cur, mine)'
  /\ OthersFit'

LEMMA BlocksStep ==
  ASSUME EmitterInv, EdgesInv, Frame.todo # <<>>, UNCHANGED <<program, insts, succ, alt>>, Live \subseteq Live',
         NEW f, frames' = Continued(f), f.node = Frame.node, f.todo = Tail(Frame.todo),
         \A c, own, d : TopBlocks(c, own) /\ CallEdge(c, d) => \E mine : Rearranged(own, mine, f.slots, d)
  PROVE  EdgesInv'
<1>1. PICK ctx, own : EdgeFrames(ctx) /\ EdgeBlocks(ctx, own)
  BY DEF EdgesInv
<1>2. FramesInv
  BY DEF EmitterInv
<1>3. PICK n : n = Len(frames)
  OBVIOUS
<1>4. n \in 1..n /\ n \in Nat /\ n # 0 /\ TopEdge(ctx[n])
  BY <1>1, <1>2, <1>3, TopEdgeFacts, FrameFacts
<1>5. TopBlocks(ctx[n], own)
  BY <1>1, <1>3, <1>4 DEF EdgeBlocks, TopBlocks, Frame
<1>6. PICK d : TodoOK(n, Frame.node, Tail(Frame.todo), d) /\ CallEdge(ctx[n], d)
  BY <1>2, <1>3, <1>4, EdgeDue DEF CallEdge
<1>7. PICK mine : Rearranged(own, mine, f.slots, d)
  BY <1>5, <1>6
<1> DEFINE dtx == With(ctx, n, d)
<1>8. EdgeFrames(dtx)' /\ Len(frames') = n
  BY <1>1, <1>2, <1>3, <1>6, FramesGoOn
<1>9. frames'[n] = f /\ \A i \in 1..n : i # n => frames'[i] = frames[i]
  BY <1>2, <1>3, ContinuedFacts
<1>10. dtx[n] = d /\ \A i \in 1..n : i # n => dtx[i] = ctx[i]
  BY <1>4, WithFacts
<1> HIDE DEF dtx
<1>11. \A b \in Live : Same(b)
  BY DEF Same
<1>12. ASSUME NEW i \in 1..n PROVE FreshIn(frames[i].slots, dtx[i].fresh, i, mine)'
  <2>1. CASE i = n
    <3>1. PICK slots, F : slots = f.slots /\ F = d.fresh
      OBVIOUS
    <3>2. FreshIn(slots, F, Len(frames), mine)'
      BY <1>7, <3>1 DEF Rearranged
    <3>3. QED BY <1>8, <1>9, <1>10, <2>1, <3>1, <3>2
  <2>2. CASE i # n
    <3>1. PICK slots, F : slots = frames[i].slots /\ F = ctx[i].fresh
      OBVIOUS
    <3>2. frames'[i].slots = slots /\ dtx[i].fresh = F
      BY <1>9, <1>10, <2>2, <3>1
    <3>3. FreshIn(slots, F, i, own)
      BY <1>1, <1>3, <3>1 DEF EdgeBlocks
    <3>4. \A b \in Live : \A x \in F : own[b] = FreshAt(i, x) => mine[b] = own[b] /\ Same(b)
      BY <1>3, <1>7, <1>11, <2>2 DEF Rearranged
    <3>5. FreshIn(slots, F, i, mine)'
      BY <3>3, <3>4, FreshStays
    <3>6. QED BY <3>2, <3>5 DEF FreshIn
  <2>3. QED BY <2>1, <2>2
<1>13. SavesPend(mine)' /\ OthersFit'
  BY <1>7 DEF Rearranged
<1>14. CurrentHas(dtx[n].cur, mine)'
  BY <1>7, <1>10 DEF Rearranged
<1>15. EdgeBlocks(dtx, mine)'
  BY <1>8, <1>12, <1>13, <1>14 DEF EdgeBlocks
<1>16. QED BY <1>8, <1>15 DEF EdgesInv

\* A block that is pending stays so, if the step leaves it its place.
LEMMA PendingStays ==
  ASSUME UNCHANGED <<insts, succ, alt>>, Live \subseteq Live', NEW b, NEW own, NEW place, Pending(b, own, place),
         NEW mine, mine[b] = own[b]
  PROVE  Pending(b, mine, place)'
<1>1. Same(b)
  BY DEF Same
<1>2. Has(b, "clean")'
  BY <1>1, SameHas DEF Pending
<1>3. QED BY <1>2 DEF Pending

\* A block at an unused address is clean.
LEMMA UnusedClean ==
  ASSUME EmitterInv, TypesInv, NEW b \in Unused
  PROVE  b \in Block /\ b \notin Live /\ Has(b, "clean")
<1>1. b \in Block /\ b \notin Live
  BY DEF Unused
<1>2. succ[b] = NoBlock /\ alt[b] = NoBlock
  BY DEF EmitterInv, ProtocolInv, FreshUnlinked
<1>3. insts[b] = <<>>
  BY <1>1 DEF TypesInv, CodeTyped
<1>4. QED BY <1>1, <1>2, <1>3 DEF Has, Gate

\* The graph with one more block.
LEMMA AddedLive ==
  ASSUME EmitterInv, proc \in Proc, NEW a, Add(a)
  PROVE  a \in Unused /\ Live' = Live \cup {a}
<1>1. DOMAIN graph = Proc
  BY DEF EmitterInv, ProtocolInv, ProtocolTypeOK, TypeOK
<1>2. graph' = [graph EXCEPT ![proc] = @ \cup {a}] /\ a \in Unused
  BY DEF Add
<1>3. QED BY <1>1, <1>2 DEF Live

LEMMA NewBlockEdges ==
  ASSUME EmitterInv, TypesInv, EdgesInv, NewBasicBlock
  PROVE  EdgesInv'
<1>1. Frame.todo # <<>> /\ Frame.todo[1][1] = "newBasicBlock"
  BY DEF NewBasicBlock, Due
<1>2. PICK n, w, a, cb : n = Len(frames) /\ w = What /\ a = Address /\ cb = current_block
  OBVIOUS
<1>3. phase = "body" /\ proc \in Proc /\ cb \in Live
  BY <1>1, <1>2, DueInVisit, BodyFacts DEF UnitCalls, EmitterInv
<1>4. Add(a) /\ UNCHANGED <<program, saves, insts, succ, alt, stack>>
  BY <1>2 DEF NewBasicBlock, newBasicBlock, SameCode, codeVars2, edgeVars
<1>5. a \in Unused /\ Live' = Live \cup {a} /\ a \notin Live /\ Has(a, "clean") /\ a \in Block
  BY <1>3, <1>4, AddedLive, UnusedClean
<1>6. current_block' = cb
  BY <1>2, <1>4 DEF current_block
<1>0. PICK f : f = Made(Tail(Frame.todo), Put(Frame.slots, w, a), Frame.kept)
  OBVIOUS
<1>7. f.node = Frame.node /\ f.todo = Tail(Frame.todo) /\ f.slots = Put(Frame.slots, w, a)
  BY <1>0, FrameFields DEF Made
<1>8. frames' = Continued(f)
  <2>1. frames' = Continued([Rest EXCEPT !.slots = Put(@, w, a)])
    BY <1>2 DEF NewBasicBlock
  <2>2. QED BY <1>0, <2>1, RestForms, FrameOfInv, Zenon DEF EmitterInv
<1>9. Len(frames') = n
  BY <1>2, <1>8, ContinuedFacts DEF EmitterInv
<1>10. ASSUME NEW c, NEW own, NEW d, TopBlocks(c, own), CallEdge(c, d)
       PROVE  \E mine : Rearranged(own, mine, f.slots, d)
  <2> DEFINE mine == [b \in Block |-> IF b = a THEN FreshAt(n, w) ELSE own[b]]
  <2>0. PICK slots : slots = Put(Frame.slots, w, a)
    OBVIOUS
  <2>1. mine[a] = FreshAt(n, w) /\ \A b \in Live : mine[b] = own[b]
    BY <1>5, LiveInBlock
  <2> HIDE DEF mine
  <2>2. c.cur = "clean" /\ d.cur = "clean" /\ d.fresh = c.fresh \cup {w}
    <3>1. EdgeCall(Frame.node, Frame.todo[1], c, d)
      BY <1>1, <1>10, VisitCallEdge DEF UnitCalls
    <3>2. c.cur = "clean" /\ d = Edge(c.fresh \cup {w}, "clean")
      BY <1>1, <1>2, <3>1 DEF EdgeCall, EdgeFree, ReadCalls, What
    <3>3. QED BY <3>2, EdgeFields
  <2>3. Has(a, "clean")'
    <3>1. Same(a)
      BY <1>4 DEF Same
    <3>2. QED BY <1>5, <3>1, SameHas
  <2>4. /\ DOMAIN slots = {w} \cup DOMAIN Frame.slots /\ slots[w] = a
        /\ \A x \in DOMAIN Frame.slots : x # w => slots[x] = Frame.slots[x]
    BY <2>0 DEF Put
  <2>5. FreshIn(slots, d.fresh, n, mine)'
    <3> SUFFICES ASSUME NEW x \in d.fresh
                 PROVE  x \in DOMAIN slots /\ Pending(slots[x], mine, FreshAt(n, x))'
      BY DEF FreshIn
    <3>1. CASE x = w
      BY <1>5, <2>1, <2>3, <2>4, <3>1 DEF Pending
    <3>2. CASE x # w
      <4>1. PICK b : b = Frame.slots[x]
        OBVIOUS
      <4>2. x \in DOMAIN Frame.slots /\ Pending(b, own, FreshAt(n, x))
        BY <1>2, <1>10, <2>2, <3>2, <4>1 DEF TopBlocks, FreshIn
      <4>3. mine[b] = own[b]
        BY <2>1, <4>2 DEF Pending
      <4>4. Pending(b, mine, FreshAt(n, x))'
        BY <1>4, <1>5, <4>2, <4>3, PendingStays
      <4>5. QED BY <2>4, <3>2, <4>1, <4>2, <4>4
    <3>3. QED BY <3>1, <3>2
  <2>6. SavesPend(mine)'
    <3> SUFFICES ASSUME NEW k \in 1..Len(saves) PROVE Pending(saves[k], mine, SavedAt(k))'
      BY <1>4 DEF SavesPend
    <3>1. PICK b : b = saves[k]
      OBVIOUS
    <3>2. Pending(b, own, SavedAt(k))
      BY <1>10, <3>1 DEF TopBlocks, SavesPend
    <3>3. mine[b] = own[b]
      BY <2>1, <3>2 DEF Pending
    <3>4. Pending(b, mine, SavedAt(k))'
      BY <1>4, <1>5, <3>2, <3>3, PendingStays
    <3>5. QED BY <1>4, <3>1, <3>4
  <2>7. CurrentHas(d.cur, mine)'
    <3>1. Has(cb, "clean") /\ own[cb] = Current /\ mine[cb] = own[cb]
      BY <1>2, <1>3, <1>10, <2>1, <2>2 DEF TopBlocks, CurrentHas
    <3>2. Same(cb)
      BY <1>4 DEF Same
    <3>3. Has(cb, "clean")'
      BY <3>1, <3>2, SameHas
    <3>4. QED BY <1>6, <2>2, <3>1, <3>3 DEF CurrentHas, Has, Gate
  <2>8. OthersFit'
    <3> SUFFICES ASSUME NEW b \in Live', b # cb PROVE Fits(b)'
      BY <1>6 DEF OthersFit
    <3>1. Fits(b)
      BY <1>2, <1>5, <1>10, HasWeaker DEF TopBlocks, OthersFit
    <3>2. Same(b)
      BY <1>4 DEF Same
    <3>3. QED BY <3>1, <3>2, SameHas
  <2>9. f.slots = slots
    BY <1>7, <2>0
  <2>10. Rearranged(own, mine, f.slots, d)
    BY <1>2, <1>9, <2>1, <2>5, <2>6, <2>7, <2>8, <2>9 DEF Rearranged
  <2>11. QED BY <2>10
<1>11. Live \subseteq Live'
  BY <1>5
<1>12. QED BY <1>1, <1>4, <1>7, <1>8, <1>10, <1>11, BlocksStep

\* The step goes on in block t, with the blocks in list saved.
Moved(own, mine, t, F, list) ==
  /\ Has(t, "clean") /\ mine[t] = Current
  /\ \A b \in Live : \A i, x : i # Len(frames) /\ own[b] = FreshAt(i, x) => mine[b] = own[b]
  /\ FreshIn(Frame.slots, F, Len(frames), mine)
  /\ \A k \in 1..Len(list) : Pending(list[k], mine, SavedAt(k))
  /\ Fits(current_block)

LEMMA MoveEdges ==
  ASSUME EmitterInv, EdgesInv, Frame.todo # <<>>, Proceed, UNCHANGED <<program, graph, insts, succ, alt>>,
         NEW t \in Live, current_block' = t,
         \A c, own, d : TopBlocks(c, own) /\ CallEdge(c, d) =>
           d.cur = "clean" /\ \E mine : Moved(own, mine, t, d.fresh, saves')
  PROVE  EdgesInv'
<1>1. PICK f : f = Made(Tail(Frame.todo), Frame.slots, Frame.kept)
  OBVIOUS
<1>2. f.node = Frame.node /\ f.todo = Tail(Frame.todo) /\ f.slots = Frame.slots
  BY <1>1, FrameFields DEF Made
<1>3. frames' = Continued(f)
  BY <1>1, RestForms, FrameOfInv, Zenon DEF Proceed, EmitterInv
<1>4. PICK n, cb : n = Len(frames) /\ cb = current_block
  OBVIOUS
<1>5. Len(frames') = n
  BY <1>3, <1>4, ContinuedFacts DEF EmitterInv
<1>6. Live' = Live /\ \A b : Same(b)
  BY DEF Live, Same
<1>7. ASSUME NEW c, NEW own, NEW d, TopBlocks(c, own), CallEdge(c, d)
      PROVE  \E mine : Rearranged(own, mine, f.slots, d)
  <2>1. PICK mine : Moved(own, mine, t, d.fresh, saves') /\ d.cur = "clean"
    BY <1>7
  <2>2. PICK slots : slots = Frame.slots
    OBVIOUS
  <2>3. FreshIn(slots, d.fresh, n, mine)'
    <3>1. FreshIn(slots, d.fresh, n, mine)
      BY <1>4, <2>1, <2>2 DEF Moved
    <3>2. \A b \in Live : \A x \in d.fresh : mine[b] = FreshAt(n, x) => mine[b] = mine[b] /\ Same(b)
      BY <1>6
    <3>3. QED BY <1>6, <3>1, <3>2, FreshStays
  <2>4. SavesPend(mine)'
    <3> SUFFICES ASSUME NEW k \in 1..Len(saves') PROVE Pending(saves[k], mine, SavedAt(k))'
      BY DEF SavesPend
    <3>1. PICK b : b = saves'[k]
      OBVIOUS
    <3>2. Pending(b, mine, SavedAt(k))
      BY <2>1, <3>1 DEF Moved
    <3>3. Pending(b, mine, SavedAt(k))'
      BY <1>6, <3>2, PendingStays
    <3>4. QED BY <3>1, <3>3
  <2>5. CurrentHas(d.cur, mine)'
    <3>1. Has(t, "clean") /\ mine[t] = Current
      BY <2>1 DEF Moved
    <3>2. Has(t, "clean")'
      BY <1>6, <3>1, SameHas
    <3>3. QED BY <2>1, <3>1, <3>2 DEF CurrentHas, Has, Gate
  <2>6. OthersFit'
    <3> SUFFICES ASSUME NEW b \in Live, b # t PROVE Fits(b)'
      BY <1>6 DEF OthersFit
    <3>1. Fits(cb)
      BY <1>4, <2>1 DEF Moved
    <3>2. b # cb => Fits(b)
      BY <1>4, <1>7 DEF TopBlocks, OthersFit
    <3>3. QED BY <1>6, <3>1, <3>2, SameHas
  <2>7. \A b \in Live : \A i, x : i # n /\ own[b] = FreshAt(i, x) => mine[b] = own[b]
    BY <1>4, <2>1 DEF Moved
  <2>8. f.slots = slots
    BY <1>2, <2>2
  <2>9. Rearranged(own, mine, f.slots, d)
    BY <1>4, <1>5, <2>3, <2>4, <2>5, <2>6, <2>7, <2>8 DEF Rearranged
  <2>10. QED BY <2>9
<1>8. Live \subseteq Live'
  BY <1>6
<1>9. QED BY <1>2, <1>3, <1>7, <1>8, BlocksStep

\* Blocks that are pending, with another note of what is pending where.
LEMMA FreshKept ==
  ASSUME NEW slots, NEW F, NEW G, NEW i, NEW own, NEW mine, FreshIn(slots, F, i, own), G \subseteq F,
         \A b \in Live : \A x \in G : own[b] = FreshAt(i, x) => mine[b] = own[b]
  PROVE  FreshIn(slots, G, i, mine)
<1> SUFFICES ASSUME NEW x \in G
             PROVE  x \in DOMAIN slots /\ Pending(slots[x], mine, FreshAt(i, x))
  BY DEF FreshIn
<1>1. PICK b : b = slots[x]
  OBVIOUS
<1>2. x \in DOMAIN slots /\ Pending(b, own, FreshAt(i, x))
  BY <1>1 DEF FreshIn
<1>3. mine[b] = own[b]
  BY <1>2 DEF Pending
<1>4. QED BY <1>1, <1>2, <1>3 DEF Pending

\* What saving does to the current block, cb, and the block entered, t.
LEMMA SavedBlock ==
  ASSUME EmitterInv, SaveAndEntry, NEW w, w = What, NEW t, t = Slot(w), NEW cb, cb = current_block,
         NEW m, m = Len(saves)
  PROVE  /\ cb \in Live /\ cb \in Block /\ t \in Live /\ t \in Block /\ current_block' = t /\ Proceed
         /\ UNCHANGED <<program, graph, head, insts, succ, alt>>
         /\ m \in Nat /\ Len(saves') = m + 1 /\ saves'[m + 1] = cb
         /\ \A k \in 1..m : saves'[k] = saves[k]
<1>1. Frame.todo # <<>> /\ Frame.todo[1][1] = "save_and_entry" /\ What = Frame.todo[1][2]
  BY DEF SaveAndEntry, Due, What
<1>3. phase = "body" /\ proc \in Proc /\ cb \in Live /\ cb \in Block /\ t \in graph[proc] /\ t \in Live /\ t \in Block
  BY <1>1, SlotFacts, BodyFacts
<1>4. /\ save_and_entry(t) /\ saves' = Append(saves, cb) /\ Proceed
      /\ UNCHANGED <<program, graph, head, insts, succ, alt>>
  BY DEF SaveAndEntry, Building, save_and_entry, SameCode, codeVars2, edgeVars, graphVars
<1>5. current_block' = t
  <2>1. saves \in Seq(BlockOrNull) /\ stack = Append(saves, cb)
    BY <1>3 DEF EmitterInv, ProtocolInv, ProtocolTypeOK, Discipline, BlockOrNull
  <2>2. Saved(stack) = Append(stack, cb) /\ stack \in Seq(BlockOrNull)
    BY <1>3, <2>1, SavedAppend DEF EmitterInv, ProtocolInv, ProtocolTypeOK, TypeOK
  <2>3. stack' = Append(stack, t)
    BY <1>3, <1>4, <2>2, ReplacedAppend DEF save_and_entry, BlockOrNull
  <2>4. Top(Append(stack, t)) = t
    BY <1>3, <2>2, TopAppend DEF BlockOrNull
  <2>5. QED BY <2>3, <2>4 DEF current_block
<1>6. m \in Nat /\ IsSeq(saves)
  <2>1. saves \in Seq(Block)
    BY DEF EmitterInv, ProtocolInv, ProtocolTypeOK
  <2>2. QED BY <2>1, TypedIsSeq
<1>7. /\ Len(saves') = m + 1 /\ saves'[m + 1] = cb
      /\ \A k \in 1..m : saves'[k] = saves[k]
  BY <1>4, <1>6, AppendFacts
<1>8. QED BY <1>1, <1>3, <1>4, <1>5, <1>6, <1>7

\* The current block is saved, and a new one entered.
LEMMA SaveEdges ==
  ASSUME EmitterInv, EdgesInv, SaveAndEntry
  PROVE  EdgesInv'
<1>1. Frame.todo # <<>> /\ Frame.todo[1][1] = "save_and_entry" /\ What = Frame.todo[1][2]
  BY DEF SaveAndEntry, Due, What
<1>2. PICK n, w, t, cb, m : n = Len(frames) /\ w = What /\ t = Slot(w) /\ cb = current_block /\ m = Len(saves)
  OBVIOUS
<1>3. /\ cb \in Live /\ cb \in Block /\ t \in Live /\ t \in Block /\ current_block' = t /\ Proceed
      /\ UNCHANGED <<program, graph, head, insts, succ, alt>>
      /\ m \in Nat /\ Len(saves') = m + 1 /\ saves'[m + 1] = cb
      /\ \A k \in 1..m : saves'[k] = saves[k]
  BY <1>2, SavedBlock
<1>8. ASSUME NEW c, NEW own, NEW d, TopBlocks(c, own), CallEdge(c, d)
      PROVE  d.cur = "clean" /\ \E mine : Moved(own, mine, t, d.fresh, saves')
  <2>1. c.cur = "clean" /\ w \in c.fresh /\ d.cur = "clean" /\ d.fresh = c.fresh \ {w}
    <3>1. EdgeCall(Frame.node, Frame.todo[1], c, d)
      BY <1>1, <1>8, VisitCallEdge DEF UnitCalls
    <3>2. c.cur = "clean" /\ w \in c.fresh /\ d = Edge(c.fresh \ {w}, "clean")
      BY <1>1, <1>2, <3>1 DEF EdgeCall, EdgeFree, ReadCalls
    <3>3. QED BY <3>2, EdgeFields
  <2>2. Has(cb, "clean") /\ own[cb] = Current
    BY <1>2, <1>3, <1>8, <2>1 DEF TopBlocks, CurrentHas
  <2>3. Has(t, "clean") /\ own[t] = FreshAt(n, w)
    BY <1>2, <1>8, <2>1 DEF TopBlocks, FreshIn, Pending, Slot
  <2> DEFINE mine == [b \in Block |-> IF b = t THEN Current ELSE IF b = cb THEN SavedAt(m + 1) ELSE own[b]]
  <2>4. /\ mine[t] = Current /\ t # cb /\ mine[cb] = SavedAt(m + 1)
        /\ \A b \in Live : b # t /\ b # cb => mine[b] = own[b]
    BY <1>3, <2>2, <2>3, LiveInBlock, PlacesDiffer
  <2> HIDE DEF mine
  <2>5. \A b \in Live : \A i, x : i # n /\ own[b] = FreshAt(i, x) => mine[b] = own[b]
    BY <2>2, <2>3, <2>4, PlacesDiffer
  <2>6. FreshIn(Frame.slots, d.fresh, n, mine)
    <3>1. \A b \in Live : \A x \in d.fresh : own[b] = FreshAt(n, x) => mine[b] = own[b]
      BY <2>1, <2>2, <2>3, <2>4, PlacesDiffer
    <3>2. FreshIn(Frame.slots, c.fresh, n, own) /\ d.fresh \subseteq c.fresh
      BY <1>2, <1>8, <2>1 DEF TopBlocks
    <3>3. QED BY <3>1, <3>2, FreshKept
  <2>7. ASSUME NEW k \in 1..Len(saves') PROVE Pending(saves'[k], mine, SavedAt(k))
    <3>1. CASE k = m + 1
      BY <1>3, <2>2, <2>4, <3>1 DEF Pending
    <3>2. CASE k # m + 1
      <4>1. k \in 1..m
        BY <1>3, <3>2
      <4>2. Pending(saves[k], own, SavedAt(k)) /\ saves'[k] = saves[k]
        BY <1>2, <1>3, <1>8, <4>1 DEF TopBlocks, SavesPend
      <4>3. mine[saves[k]] = own[saves[k]]
        BY <2>2, <2>3, <2>4, <4>2, PlacesDiffer DEF Pending
      <4>4. QED BY <4>2, <4>3 DEF Pending
    <3>3. QED BY <3>1, <3>2
  <2>8. Fits(cb)
    BY <2>2, HasWeaker
  <2>9. Moved(own, mine, t, d.fresh, saves')
    BY <1>2, <2>3, <2>4, <2>5, <2>6, <2>7, <2>8 DEF Moved
  <2>10. QED BY <2>1, <2>9
<1>9. QED BY <1>1, <1>3, <1>8, MoveEdges

\* What restoring does to the current block, cb, and the block gone on with, t.
LEMMA RestoredBlock ==
  ASSUME EmitterInv, PopBlock, NEW cb, cb = current_block, NEW m, m = Len(saves), NEW t, t = saves[m]
  PROVE  /\ cb \in Live /\ cb \in Block /\ t \in Live /\ t \in Block /\ current_block' = t /\ Proceed
         /\ UNCHANGED <<program, graph, head, insts, succ, alt>>
         /\ m \in Nat /\ m \in 1..m /\ Len(saves') = m - 1
         /\ \A k \in 1..(m - 1) : saves'[k] = saves[k] /\ k \in 1..m /\ k # m
<1>1. Frame.todo # <<>> /\ Frame.todo[1][1] = "pop_block"
  BY DEF PopBlock, Due
<1>2. phase = "body" /\ proc \in Proc /\ cb \in Live /\ cb \in Block
  BY <1>1, DueInVisit, BodyFacts DEF UnitCalls, EmitterInv
<1>3. /\ pop_block /\ saves' = SubSeq(saves, 1, m - 1) /\ Proceed
      /\ UNCHANGED <<program, graph, head, insts, succ, alt>>
  BY DEF PopBlock, Building, pop_block, SameCode, codeVars2, edgeVars, graphVars
<1>4. saves \in Seq(Block) /\ m \in Nat /\ IsSeq(saves)
  <2>1. saves \in Seq(Block)
    BY DEF EmitterInv, ProtocolInv, ProtocolTypeOK
  <2>2. QED BY <2>1, TypedIsSeq
<1>5. m # 0
  <2>1. PICK x, s, l : TopState(x, s, l)
    BY <1>1, DueInVisit, FrameFacts DEF EmitterInv, UnitCalls
  <2>2. PICK y : Typed("visit", Frame.node, Frame.todo[1], x, y)
    BY <1>1, <2>1, CallFacts
  <2>3. NodeCall(Frame.node, Frame.todo[1], x, y) /\ Frame.todo[1][1] = "pop_block"
    BY <1>1, <2>2 DEF Typed, ReadCalls
  <2>4. x.open
    BY <2>3, Zenon DEF NodeCall
  <2>5. s \in Nat /\ Len(saves) = s + 1
    BY <2>1, <2>4 DEF TopState, FrameOK, Opened
  <2>6. QED BY <2>5
<1>6. /\ m \in 1..m /\ Len(saves') = m - 1
      /\ \A k \in 1..(m - 1) : saves'[k] = saves[k] /\ k \in 1..m /\ k # m
  BY <1>3, <1>4, <1>5, FrontFacts
<1>7. t \in Block /\ t \in Live
  <2>1. t \in graph[proc]
    BY <1>2, <1>4, <1>6, SeqFacts DEF EmitterInv, ProtocolInv, Discipline
  <2>2. QED BY <1>2, <2>1, BodyFacts
<1>8. current_block' = t
  <2>1. saves \in Seq(BlockOrNull) /\ stack = Append(saves, cb)
    BY <1>2 DEF EmitterInv, ProtocolInv, ProtocolTypeOK, Discipline, BlockOrNull
  <2>2. stack' = saves
    BY <1>2, <1>3, <2>1, PoppedAppend DEF pop_block, BlockOrNull
  <2>3. saves # <<>>
    BY <1>5, EmptyFacts
  <2>4. QED BY <2>2, <2>3 DEF current_block, Top
<1>9. QED BY <1>1, <1>2, <1>3, <1>4, <1>5, <1>6, <1>7, <1>8

\* The block saved last is gone on with.
LEMMA RestoreEdges ==
  ASSUME EmitterInv, EdgesInv, PopBlock
  PROVE  EdgesInv'
<1>1. Frame.todo # <<>> /\ Frame.todo[1][1] = "pop_block"
  BY DEF PopBlock, Due
<1>2. PICK n, cb, m, t : n = Len(frames) /\ cb = current_block /\ m = Len(saves) /\ t = saves[m]
  OBVIOUS
<1>3. /\ cb \in Live /\ cb \in Block /\ t \in Live /\ t \in Block /\ current_block' = t /\ Proceed
      /\ UNCHANGED <<program, graph, head, insts, succ, alt>>
      /\ m \in Nat /\ m \in 1..m /\ Len(saves') = m - 1
      /\ \A k \in 1..(m - 1) : saves'[k] = saves[k] /\ k \in 1..m /\ k # m
  BY <1>2, RestoredBlock
<1>11. ASSUME NEW c, NEW own, NEW d, TopBlocks(c, own), CallEdge(c, d)
       PROVE  d.cur = "clean" /\ \E mine : Moved(own, mine, t, d.fresh, saves')
  <2>1. c.cur \in {"left", "branched"} /\ d.cur = "clean" /\ d.fresh = c.fresh
    <3>1. EdgeCall(Frame.node, Frame.todo[1], c, d)
      BY <1>1, <1>11, VisitCallEdge DEF UnitCalls
    <3>2. c.cur \in {"left", "branched"} /\ d = Edge(c.fresh, "clean")
      BY <1>1, <3>1 DEF EdgeCall, EdgeFree, ReadCalls
    <3>3. QED BY <3>2, EdgeFields
  <2>2. Has(cb, c.cur)
    BY <1>2, <1>3, <1>11 DEF TopBlocks, CurrentHas
  <2>3. Has(t, "clean") /\ own[t] = SavedAt(m)
    BY <1>2, <1>3, <1>11 DEF TopBlocks, SavesPend, Pending
  <2> DEFINE mine == [b \in Block |-> IF b = t THEN Current ELSE own[b]]
  <2>4. mine[t] = Current /\ \A b \in Live : b # t => mine[b] = own[b]
    BY <1>3, LiveInBlock
  <2> HIDE DEF mine
  <2>5. \A b \in Live : \A i, x : own[b] = FreshAt(i, x) => mine[b] = own[b]
    BY <2>3, <2>4, PlacesDiffer
  <2>6. FreshIn(Frame.slots, d.fresh, n, mine)
    <3>1. FreshIn(Frame.slots, c.fresh, n, own) /\ d.fresh \subseteq c.fresh
      BY <1>2, <1>11, <2>1 DEF TopBlocks
    <3>2. QED BY <2>5, <3>1, FreshKept
  <2>7. ASSUME NEW k \in 1..Len(saves') PROVE Pending(saves'[k], mine, SavedAt(k))
    <3>1. saves'[k] = saves[k] /\ k \in 1..m /\ k # m
      BY <1>3
    <3>2. Pending(saves[k], own, SavedAt(k))
      BY <1>2, <1>11, <3>1 DEF TopBlocks, SavesPend
    <3>3. mine[saves[k]] = own[saves[k]]
      BY <2>3, <2>4, <3>1, <3>2, PlacesDiffer DEF Pending
    <3>4. QED BY <3>1, <3>2, <3>3 DEF Pending
  <2>8. Fits(cb)
    BY <2>1, <2>2, HasWeaker
  <2>9. Moved(own, mine, t, d.fresh, saves')
    BY <1>2, <2>3, <2>4, <2>5, <2>6, <2>7, <2>8 DEF Moved
  <2>10. QED BY <2>1, <2>9
<1>12. QED BY <1>1, <1>3, <1>11, MoveEdges

\* What entering does to the current block, cb, and the block entered, t.
LEMMA EnteredBlock ==
  ASSUME EmitterInv, EntryBlock, NEW w, w = What, NEW t, t = Slot(w), NEW cb, cb = current_block
  PROVE  /\ cb \in Live /\ cb \in Block /\ t \in Live /\ t \in Block /\ current_block' = t /\ Proceed
         /\ UNCHANGED <<program, graph, head, saves, insts, succ, alt>>
<1>1. Frame.todo # <<>> /\ Frame.todo[1][1] = "entry_block" /\ What = Frame.todo[1][2]
  BY DEF EntryBlock, Due, What
<1>3. phase = "body" /\ proc \in Proc /\ cb \in Live /\ cb \in Block /\ t \in graph[proc] /\ t \in Live /\ t \in Block
  BY <1>1, SlotFacts, BodyFacts DEF SlotCalls
<1>4. entry_block(t) /\ Proceed /\ UNCHANGED <<program, graph, head, saves, insts, succ, alt>>
  BY DEF EntryBlock, Building, entry_block, SameCode, codeVars2, edgeVars, graphVars
<1>5. current_block' = t
  <2>1. saves \in Seq(BlockOrNull) /\ stack = Append(saves, cb)
    BY <1>3 DEF EmitterInv, ProtocolInv, ProtocolTypeOK, Discipline, BlockOrNull
  <2>2. stack' = Append(saves, t)
    BY <1>3, <1>4, <2>1, ReplacedAppend DEF entry_block, BlockOrNull
  <2>3. Top(Append(saves, t)) = t
    BY <1>3, <2>1, TopAppend DEF BlockOrNull
  <2>4. QED BY <2>2, <2>3 DEF current_block
<1>6. QED BY <1>1, <1>3, <1>4, <1>5

\* A new block is entered, and the current one left for good.
LEMMA EntryEdges ==
  ASSUME EmitterInv, EdgesInv, EntryBlock
  PROVE  EdgesInv'
<1>1. Frame.todo # <<>> /\ Frame.todo[1][1] = "entry_block" /\ What = Frame.todo[1][2]
  BY DEF EntryBlock, Due, What
<1>2. PICK n, w, t, cb : n = Len(frames) /\ w = What /\ t = Slot(w) /\ cb = current_block
  OBVIOUS
<1>3. /\ cb \in Live /\ cb \in Block /\ t \in Live /\ t \in Block /\ current_block' = t /\ Proceed
      /\ UNCHANGED <<program, graph, head, saves, insts, succ, alt>>
  BY <1>2, EnteredBlock
<1>6. ASSUME NEW c, NEW own, NEW d, TopBlocks(c, own), CallEdge(c, d)
      PROVE  d.cur = "clean" /\ \E mine : Moved(own, mine, t, d.fresh, saves')
  <2>1. c.cur \in {"left", "branched"} /\ w \in c.fresh /\ d.cur = "clean" /\ d.fresh = c.fresh \ {w}
    <3>1. EdgeCall(Frame.node, Frame.todo[1], c, d)
      BY <1>1, <1>6, VisitCallEdge DEF UnitCalls
    <3>2. c.cur \in {"left", "branched"} /\ w \in c.fresh /\ d = Edge(c.fresh \ {w}, "clean")
      BY <1>1, <1>2, <3>1 DEF EdgeCall, EdgeFree, ReadCalls
    <3>3. QED BY <3>2, EdgeFields
  <2>2. Has(cb, c.cur)
    BY <1>2, <1>3, <1>6 DEF TopBlocks, CurrentHas
  <2>3. Has(t, "clean") /\ own[t] = FreshAt(n, w)
    BY <1>2, <1>6, <2>1 DEF TopBlocks, FreshIn, Pending, Slot
  <2> DEFINE mine == [b \in Block |-> IF b = t THEN Current ELSE own[b]]
  <2>4. mine[t] = Current /\ \A b \in Live : b # t => mine[b] = own[b]
    BY <1>3, LiveInBlock
  <2> HIDE DEF mine
  <2>5. \A b \in Live : \A i, x : i # n /\ own[b] = FreshAt(i, x) => mine[b] = own[b]
    BY <2>3, <2>4, PlacesDiffer
  <2>6. FreshIn(Frame.slots, d.fresh, n, mine)
    <3>1. \A b \in Live : \A x \in d.fresh : own[b] = FreshAt(n, x) => mine[b] = own[b]
      BY <2>1, <2>3, <2>4, PlacesDiffer
    <3>2. FreshIn(Frame.slots, c.fresh, n, own) /\ d.fresh \subseteq c.fresh
      BY <1>2, <1>6, <2>1 DEF TopBlocks
    <3>3. QED BY <3>1, <3>2, FreshKept
  <2>7. ASSUME NEW k \in 1..Len(saves') PROVE Pending(saves'[k], mine, SavedAt(k))
    <3>1. Pending(saves[k], own, SavedAt(k)) /\ saves' = saves
      BY <1>3, <1>6 DEF TopBlocks, SavesPend
    <3>2. mine[saves[k]] = own[saves[k]]
      BY <2>3, <2>4, <3>1, PlacesDiffer DEF Pending
    <3>3. QED BY <3>1, <3>2 DEF Pending
  <2>8. Fits(cb)
    BY <2>1, <2>2, HasWeaker
  <2>9. Moved(own, mine, t, d.fresh, saves')
    BY <1>2, <2>3, <2>4, <2>5, <2>6, <2>7, <2>8 DEF Moved
  <2>10. QED BY <2>1, <2>9
<1>7. QED BY <1>1, <1>3, <1>6, MoveEdges

\* The frame when the calls go on and nothing else of it changes.
LEMMA ProceedFrame ==
  ASSUME FramesInv, Proceed, NEW f, f = Made(Tail(Frame.todo), Frame.slots, Frame.kept)
  PROVE  /\ frames' = Continued(f) /\ Len(frames') = Len(frames)
         /\ f.node = Frame.node /\ f.todo = Tail(Frame.todo) /\ f.slots = Frame.slots
<1>1. frames' = Continued(f)
  BY RestForms, FrameOfInv, Zenon DEF Proceed
<1>2. QED BY <1>1, FrameFields, ContinuedFacts DEF Made

\* A function's first block is entered: nothing is pending then.
LEMMA FirstBlockEdges ==
  ASSUME EmitterInv, TypesInv, EdgesInv, FirstBlock
  PROVE  EdgesInv'
<1>1. Frame.todo # <<>> /\ Frame.todo[1][1] = "first_block"
  BY DEF FirstBlock, Due
<1>2. PICK n, a, cb : n = Len(frames) /\ a = Address /\ cb = current_block
  OBVIOUS
<1>3. n = 1 /\ phase = "entered"
  <2>1. Len(frames) = 1
    BY <1>1, DueInUnit DEF EmitterInv, UnitCalls
  <2>2. phase = "entered"
    BY <1>1, <2>1, UnitFacts DEF EmitterInv, UnitCall
  <2>3. QED BY <1>2, <2>1, <2>2
<1>4. proc \in Proc /\ saves = <<>> /\ Len(stack) <= 1 /\ stack \in Seq(BlockOrNull)
  BY <1>3 DEF EmitterInv, ProtocolInv, Discipline, ProtocolTypeOK, TypeOK
<1>5. Add(a) /\ stack' = Replaced(stack, a) /\ Proceed /\ UNCHANGED <<program, saves, insts, succ, alt>>
  BY <1>2 DEF FirstBlock, entry_new_block, SameCode, codeVars2, edgeVars
<1>6. a \in Unused /\ Live' = Live \cup {a} /\ a \notin Live /\ Has(a, "clean") /\ a \in Block
  BY <1>4, <1>5, AddedLive, UnusedClean
<1>7. current_block' = a
  <2>1. a \in BlockOrNull
    BY <1>6 DEF BlockOrNull
  <2>2. stack' = Append(<<>>, a) /\ <<>> \in Seq(BlockOrNull)
    BY <1>4, <1>5, <2>1, ReplacedShort, EmptySeq
  <2>3. Top(Append(<<>>, a)) = a
    BY <2>1, <2>2, TopAppend
  <2>4. QED BY <2>2, <2>3 DEF current_block
<1>8. PICK f : f = Made(Tail(Frame.todo), Frame.slots, Frame.kept)
  OBVIOUS
<1>9. /\ frames' = Continued(f) /\ Len(frames') = n
      /\ f.node = Frame.node /\ f.todo = Tail(Frame.todo) /\ f.slots = Frame.slots
  BY <1>2, <1>5, <1>8, ProceedFrame DEF EmitterInv
<1>10. ASSUME NEW c, NEW own, NEW d, TopBlocks(c, own), CallEdge(c, d)
       PROVE  \E mine : Rearranged(own, mine, f.slots, d)
  <2>1. PICK slots : slots = f.slots
    OBVIOUS
  <2>2. c.cur \in {"clean", "left"} /\ d.cur = "clean" /\ d.fresh = {}
    <3>1. EdgeUnitCall(Frame.todo[1], c, d)
      BY <1>2, <1>3, <1>10 DEF CallEdge
    <3>2. c.cur \in {"clean", "left"} /\ d = Edge({}, "clean")
      BY <1>1, <3>1 DEF EdgeUnitCall
    <3>3. QED BY <3>2, EdgeFields
  <2> DEFINE mine == [b \in Block |-> IF b = a THEN Current ELSE own[b]]
  <2>3. mine[a] = Current /\ \A b \in Live : mine[b] = own[b]
    BY <1>6, LiveInBlock
  <2> HIDE DEF mine
  <2>4. FreshIn(slots, d.fresh, n, mine)'
    BY <2>2 DEF FreshIn
  <2>5. SavesPend(mine)'
    BY <1>4, <1>5 DEF SavesPend
  <2>6. CurrentHas(d.cur, mine)'
    <3>1. Same(a)
      BY <1>5 DEF Same
    <3>2. Has(a, "clean")'
      BY <1>6, <3>1, SameHas
    <3>3. QED BY <1>7, <2>2, <2>3, <3>2 DEF CurrentHas, Has, Gate
  <2>7. OthersFit'
    <3> SUFFICES ASSUME NEW b \in Live', b # a PROVE Fits(b)'
      BY <1>7 DEF OthersFit
    <3>1. b \in Live
      BY <1>6
    <3>2. b # cb => Fits(b)
      BY <1>2, <1>10, <3>1 DEF TopBlocks, OthersFit
    <3>3. b = cb => Has(b, c.cur)
      BY <1>2, <1>10, <3>1 DEF TopBlocks, CurrentHas
    <3>4. Fits(b)
      BY <2>2, <3>2, <3>3, HasWeaker
    <3>5. Same(b)
      BY <1>5 DEF Same
    <3>6. QED BY <3>4, <3>5, SameHas
  <2>8. Rearranged(own, mine, slots, d)
    BY <1>2, <1>9, <2>3, <2>4, <2>5, <2>6, <2>7 DEF Rearranged
  <2>9. QED BY <2>1, <2>8
<1>11. Live \subseteq Live'
  BY <1>6
<1>12. QED BY <1>1, <1>5, <1>9, <1>10, <1>11, BlocksStep

\* The Code is set up before there are blocks.
LEMMA SetupEdges ==
  ASSUME EmitterInv, TypesInv, EdgesInv, SetupCode
  PROVE  EdgesInv'
<1>1. Frame.todo # <<>> /\ Frame.todo[1][1] = "setup_code"
  BY DEF SetupCode, Due
<1>2. PICK n : n = Len(frames)
  OBVIOUS
<1>3. n = 1 /\ phase = "no code"
  <2>1. Len(frames) = 1
    BY <1>1, DueInUnit DEF EmitterInv, UnitCalls
  <2>2. phase = "no code"
    BY <1>1, <2>1, UnitFacts DEF EmitterInv, UnitCall
  <2>3. QED BY <1>2, <2>1, <2>2
<1>4. saves = <<>> /\ Live = {}
  BY <1>3 DEF EmitterInv, ProtocolInv, Discipline, TypesInv
<1>5. /\ graph' = [p \in Proc |-> {}] /\ Proceed
      /\ UNCHANGED <<program, saves, insts, succ, alt>>
  BY DEF SetupCode, setup_code, SameCode, codeVars2, edgeVars
<1>6. Live' = {}
  BY <1>5 DEF Live
<1>7. PICK f : f = Made(Tail(Frame.todo), Frame.slots, Frame.kept)
  OBVIOUS
<1>8. /\ frames' = Continued(f) /\ Len(frames') = n
      /\ f.node = Frame.node /\ f.todo = Tail(Frame.todo) /\ f.slots = Frame.slots
  BY <1>2, <1>5, <1>7, ProceedFrame DEF EmitterInv
<1>9. ASSUME NEW c, NEW own, NEW d, TopBlocks(c, own), CallEdge(c, d)
      PROVE  \E mine : Rearranged(own, mine, f.slots, d)
  <2>1. PICK slots : slots = f.slots
    OBVIOUS
  <2>2. d = c
    BY <1>1, <1>2, <1>3, <1>9 DEF CallEdge, EdgeUnitCall
  <2>3. c.fresh = {}
    BY <1>4, <1>9 DEF TopBlocks, FreshIn, Pending
  <2>4. FreshIn(slots, d.fresh, n, own)'
    BY <2>2, <2>3 DEF FreshIn
  <2>5. SavesPend(own)' /\ CurrentHas(d.cur, own)' /\ OthersFit'
    BY <1>4, <1>5, <1>6 DEF SavesPend, CurrentHas, OthersFit
  <2>6. Rearranged(own, own, slots, d)
    BY <1>2, <1>8, <2>4, <2>5 DEF Rearranged
  <2>7. QED BY <2>1, <2>6
<1>10. Live \subseteq Live'
  BY <1>4
<1>11. QED BY <1>1, <1>5, <1>8, <1>9, <1>10, BlocksStep

---------------------------------------------------------------------------
(* The invariant, and what it says of edges and gateways.                  *)

LEMMA EdgesFitStep == EmitterInv /\ TypesInv /\ EdgesInv /\ [EmitterNext]_allVars => EdgesInv'
<1> SUFFICES ASSUME EmitterInv, TypesInv, EdgesInv, [EmitterNext]_allVars PROVE EdgesInv'
  OBVIOUS
<1>1. CASE AsideAction \/ SearchAction
  BY <1>1, AsideEdges, SearchActionEdges
<1>2. CASE ReadNowhere \/ UNCHANGED allVars
  BY <1>2, StillEdges
<1>3. CASE CallFunction \/ LoadGlobal \/ StoreGlobal \/ ReturnInst
  BY <1>3, StatementEdges
<1>4. CASE JumpTo \/ JumpWith \/ JumpOut
  BY <1>4, JumpEdges
<1>5. CASE BranchInst \/ SetNext \/ SetElse
  BY <1>5, BranchInstEdges, LinkEdges
<1>6. CASE StopIfTerm \/ Decide
  BY <1>6, StopIfTermEdges, DecideEdges
<1>7. CASE Visit \/ VisitBody \/ Return
  BY <1>7, VisitEdges, VisitBodyEdges, ReturnEdges
<1>8. CASE NewBasicBlock \/ SaveAndEntry \/ PopBlock \/ EntryBlock
  BY <1>8, NewBlockEdges, SaveEdges, RestoreEdges, EntryEdges
<1>9. CASE FirstBlock \/ SetupCode
  BY <1>9, FirstBlockEdges, SetupEdges
<1>10. QED BY <1>1, <1>2, <1>3, <1>4, <1>5, <1>6, <1>7, <1>8, <1>9 DEF EmitterNext, AsideAction, SearchAction

LEMMA EdgesStart == EmitterInit => EdgesInv
<1> SUFFICES ASSUME EmitterInit PROVE EdgesInv
  OBVIOUS
<1>1. program \in Programs /\ program.order \in Seq(Proc)
  BY ProgramsAssumption DEF EmitterInit, BodiesAmong
<1> DEFINE f == [node |-> program, todo |-> Unit(program.order), slots |-> NoSlots, kept |-> NoArg]
           ctx == [i \in {1} |-> Edge({}, "left")]
           own == [b \in Block |-> Current]
<1>2. frames = <<f>> /\ saves = <<>> /\ graph = [p \in Proc |-> {}]
  BY DEF EmitterInit, ProtocolInit, Init
<1>3. f.node = program /\ f.todo = Unit(program.order)
  OBVIOUS
<1> HIDE DEF f
<1>4. Len(frames) = 1 /\ frames[1] = f /\ Live = {}
  BY <1>2 DEF Live
<1>5. ctx[1].fresh = {} /\ ctx[1] = Edge({}, "left")
  BY EdgeFields
<1> HIDE DEF ctx, own
<1>6. TodoOK(1, f.node, f.todo, ctx[1])
  BY <1>1, <1>3, <1>5, UnitEdges DEF TodoOK
<1>7. EdgeFrames(ctx)
  BY <1>4, <1>6 DEF EdgeFrames
<1>8. EdgeBlocks(ctx, own)
  BY <1>2, <1>4, <1>5 DEF EdgeBlocks, FreshIn, SavesPend, CurrentHas, OthersFit
<1>9. QED BY <1>7, <1>8 DEF EdgesInv

LEMMA EdgesHold == EdgesInv => EdgesFitGateway
<1> SUFFICES ASSUME EdgesInv, NEW b \in Live, b # current_block
             PROVE  LET last == insts[b][Len(insts[b])]
                    IN  IF insts[b] # <<>> /\ IsGateway(last)
                        THEN CASE last.op = "br" -> NoBlock \notin {succ[b], alt[b]}
                               [] last.op = "jp" -> succ[b] # NoBlock /\ alt[b] = NoBlock
                               [] last.op = "rt" -> succ[b] = NoBlock /\ alt[b] = NoBlock
                        ELSE succ[b] = NoBlock /\ alt[b] = NoBlock
  BY DEF EdgesFitGateway
<1> DEFINE last == insts[b][Len(insts[b])]
<1>1. Has(b, "left") \/ Has(b, "branched")
  BY DEF EdgesInv, EdgeBlocks, OthersFit, Fits
<1>2. CASE insts[b] # <<>> /\ IsGateway(last)
  <2>1. Gate(b) = last.op /\ last.op \in {"br", "jp", "rt"}
    BY <1>2 DEF Gate, IsGateway
  <2>2. QED BY <1>1, <1>2, <2>1 DEF Has
<1>3. CASE ~(insts[b] # <<>> /\ IsGateway(last))
  <2>1. Gate(b) = "none"
    BY <1>3 DEF Gate
  <2>2. QED BY <1>1, <1>3, <2>1 DEF Has
<1>4. QED BY <1>2, <1>3

\* In every run of the emitter on any programs the edges of a block that has
\* been left are those its gateway needs, and a block without gateway has none:
\* the calls that link a block and those that end it stay in step however
\* conditions, loops and returns nest.
THEOREM EmitterEdgesFit == EmitterSpec => []EdgesFitGateway
<1>1. EmitterInit => EmitterInv /\ TypesInv /\ EdgesInv
  BY EmitterStart, TypesStart, EdgesStart
<1>2. EmitterInv /\ TypesInv /\ EdgesInv /\ [EmitterNext]_allVars => EmitterInv' /\ TypesInv' /\ EdgesInv'
  BY EmitterStep, TypesStep, EdgesFitStep
<1>3. QED BY <1>1, <1>2, EdgesHold, PTL DEF EmitterSpec

---------------------------------------------------------------------------
(* A search of the graph.                                                  *)

\* A set of natural numbers has a least element.
LEMMA LeastNatural ==
  ASSUME NEW T, T \subseteq Nat, T # {}
  PROVE  \E n \in T : \A m \in T : n <= m
<1> DEFINE R == {ss \in Nat \X Nat : ss[1] < ss[2]}
<1>1. R = OpToRel(<, Nat)
  BY DEF OpToRel
<1>2. IsWellFoundedOn(R, Nat)
  BY <1>1, NatLessThanWellFounded, Zenon
<1>3. PICK n \in T : \A m \in T : ~(<<m, n>> \in R)
  BY <1>2, WFMin
<1>4. \A m \in T : n <= m
  <2> SUFFICES ASSUME NEW m \in T PROVE n <= m
    OBVIOUS
  <2>1. m \in Nat /\ n \in Nat /\ ~(<<m, n>> \in R)
    BY <1>3
  <2>2. ~(m < n)
    BY <2>1
  <2>3. QED BY <2>1, <2>2
<1>5. QED BY <1>4

\* bs and what one edge leads to from there.
Outward(fst, snd, bs) == (bs \union {fst[b] : b \in bs} \union {snd[b] : b \in bs}) \ {NoBlock}

\* r[n] is what n steps of the search from h find, up to N steps.
Searches(r, N, h, fst, snd) ==
  r = [n \in 0..N |-> IF n = 0 THEN {h} ELSE Outward(fst, snd, r[n - 1])]

\* There is a search from h.
LEMMA SearchDefined ==
  ASSUME NEW N \in Nat, NEW h, NEW fst, NEW snd
  PROVE  \E r : Searches(r, N, h, fst, snd)
<1> DEFINE Good(m, f) == f[0] = {h} /\ \A n \in 1..m : f[n] = Outward(fst, snd, f[n - 1])
           T == {m \in Nat : ~ \E f : Good(m, f)}
<1>1. T = {}
  <2> SUFFICES ASSUME T # {} PROVE FALSE
    OBVIOUS
  <2>1. PICK m \in T : \A k \in T : m <= k
    BY LeastNatural
  <2>2. m \in Nat /\ ~ \E f : Good(m, f)
    BY <2>1
  <2>3. CASE m = 0
    <3>1. Good(0, [n \in {0} |-> {h}])
      OBVIOUS
    <3>2. QED BY <2>2, <2>3, <3>1
  <2>4. CASE m # 0
    <3>1. m - 1 \in Nat /\ m - 1 \notin T
      <4>1. m - 1 \in Nat /\ ~(m <= m - 1)
        BY <2>2, <2>4
      <4> HIDE DEF T
      <4>2. QED BY <2>1, <4>1
    <3>2. PICK f : Good(m - 1, f)
      BY <3>1
    <3> DEFINE g == [n \in 0..m |-> IF n = m THEN Outward(fst, snd, f[m - 1]) ELSE f[n]]
    <3>3. g[0] = {h}
      BY <2>2, <2>4, <3>2
    <3>4. ASSUME NEW n \in 1..m PROVE g[n] = Outward(fst, snd, g[n - 1])
      <4>1. n \in 0..m /\ n - 1 \in 0..m /\ n - 1 # m
        BY <2>2
      <4>2. g[n - 1] = f[n - 1]
        BY <4>1
      <4>3. CASE n = m
        BY <4>1, <4>2, <4>3
      <4>4. CASE n # m
        <5>1. n \in 1..(m - 1)
          BY <2>2, <4>4
        <5>2. g[n] = f[n]
          BY <4>1, <4>4
        <5> HIDE DEF g
        <5>3. QED BY <3>2, <4>2, <5>1, <5>2
      <4>5. QED BY <4>3, <4>4
    <3>5. Good(m, g)
      BY <3>3, <3>4
    <3>6. QED BY <2>2, <3>5
  <2>5. QED BY <2>3, <2>4
<1>2. PICK f : Good(N, f)
  BY <1>1
<1> DEFINE g == [n \in 0..N |-> f[n]]
<1>3. g = [n \in 0..N |-> IF n = 0 THEN {h} ELSE Outward(fst, snd, g[n - 1])]
  <2>1. ASSUME NEW n \in 0..N PROVE g[n] = IF n = 0 THEN {h} ELSE Outward(fst, snd, g[n - 1])
    <3>1. CASE n = 0
      BY <1>2, <3>1
    <3>2. CASE n # 0
      <4>1. n \in 1..N /\ n - 1 \in 0..N
        BY <3>2
      <4>2. g[n] = f[n] /\ g[n - 1] = f[n - 1]
        BY <4>1
      <4> HIDE DEF g
      <4>3. QED BY <1>2, <3>2, <4>1, <4>2
    <3>3. QED BY <3>1, <3>2
  <2>2. QED BY <2>1
<1> HIDE DEF g
<1>4. Searches(g, N, h, fst, snd)
  BY <1>3 DEF Searches
<1>5. QED BY <1>4

\* It starts at h and goes one edge further with each step.
LEMMA SearchSteps ==
  ASSUME NEW N \in Nat, NEW h, NEW fst, NEW snd, NEW r, Searches(r, N, h, fst, snd)
  PROVE  r[0] = {h} /\ \A n \in 1..N : r[n] = Outward(fst, snd, r[n - 1])
<1>1. ASSUME NEW n \in 0..N PROVE r[n] = IF n = 0 THEN {h} ELSE Outward(fst, snd, r[n - 1])
  BY DEF Searches
<1>2. r[0] = {h}
  BY <1>1
<1>3. ASSUME NEW n \in 1..N PROVE r[n] = Outward(fst, snd, r[n - 1])
  <2>1. n \in 0..N /\ n # 0
    OBVIOUS
  <2>2. QED BY <1>1, <2>1
<1>4. QED BY <1>2, <1>3

\* The blocks of G have an order, at, in which an edge from an earlier one of G
\* leads to each but h, and no edge leads out of G.
Led(G, h, fst, snd, at) ==
  /\ G \subseteq Block /\ h \in G
  /\ \A b \in G : {fst[b], snd[b]} \subseteq G \cup {NoBlock}
  /\ \A b \in G : at[b] \in Nat
  /\ \A b \in G : b # h => \E c \in G : at[c] < at[b] /\ b \in {fst[c], snd[c]}

\* The search from h finds just these blocks.
LEMMA SearchComplete ==
  ASSUME IsFiniteSet(Block), NoBlock \notin Block,
         NEW G, NEW h, NEW fst, NEW snd, NEW at, Led(G, h, fst, snd, at),
         NEW reach, Searches(reach, Cardinality(Block), h, fst, snd)
  PROVE  reach[Cardinality(Block)] = G
<1> USE DEF Led
<1> DEFINE N == Cardinality(Block)
<1>1. N \in Nat /\ reach[0] = {h} /\ \A n \in 1..N : reach[n] = Outward(fst, snd, reach[n - 1])
  <2>1. N \in Nat
    BY FS_CardinalityType
  <2>2. QED BY <2>1, SearchSteps
<1>2. \A b \in G : b # NoBlock
  OBVIOUS
<1>3. ASSUME NEW S, S \subseteq G
      PROVE  S \subseteq Outward(fst, snd, S) /\ Outward(fst, snd, S) \subseteq G
  BY <1>2, <1>3 DEF Outward
<1> DEFINE Inside(n) == reach[n] \subseteq G /\ h \in reach[n]
           Counted(n) == reach[n] = Outward(fst, snd, reach[n]) \/ Cardinality(reach[n]) > n
           T == {n \in 0..N : ~(Inside(n) /\ Counted(n))}
<1>4. T = {}
  <2> SUFFICES ASSUME T # {} PROVE FALSE
    OBVIOUS
  <2>1. T \subseteq Nat
    OBVIOUS
  <2>2. PICK m \in T : \A k \in T : m <= k
    BY <2>1, LeastNatural
  <2>3. m \in 0..N /\ ~(Inside(m) /\ Counted(m))
    BY <2>2
  <2>4. CASE m = 0
    <3>1. Cardinality({h}) = 1
      BY FS_Singleton
    <3>2. Inside(0) /\ Counted(0)
      BY <1>1, <3>1
    <3>3. QED BY <2>3, <2>4, <3>2
  <2>5. CASE m # 0
    <3>1. m \in 1..N /\ m \in Nat /\ m - 1 \in Nat
      BY <1>1, <2>3, <2>5
    <3>2. m - 1 \in 0..N /\ ~(m <= m - 1)
      BY <1>1, <3>1
    <3>3. Inside(m - 1) /\ Counted(m - 1)
      BY <2>2, <3>2
    <3>4. reach[m] = Outward(fst, snd, reach[m - 1])
      BY <1>1, <3>1
    <3>5. reach[m - 1] \subseteq reach[m] /\ Inside(m)
      BY <1>3, <3>3, <3>4
    <3>6. CASE reach[m - 1] = reach[m]
      BY <2>3, <3>4, <3>5, <3>6
    <3>7. CASE reach[m - 1] # reach[m]
      <4> DEFINE A == reach[m - 1]
                 B == reach[m]
      <4>1. IsFiniteSet(B) /\ A \in SUBSET B
        <5>1. B \in SUBSET Block
          BY <3>5
        <5>2. QED BY <3>5, <5>1, FS_Subset
      <4>2. IsFiniteSet(A) /\ Cardinality(A) <= Cardinality(B) /\ (Cardinality(B) = Cardinality(A) => B = A)
        BY <4>1, FS_Subset
      <4>3. Cardinality(A) > m - 1
        BY <3>3, <3>4, <3>7
      <4>4. Cardinality(A) \in Nat /\ Cardinality(B) \in Nat
        BY <4>1, <4>2, FS_CardinalityType
      <4>5. Cardinality(B) # Cardinality(A)
        BY <3>7, <4>2
      <4> HIDE DEF A, B
      <4>6. Cardinality(B) > m
        BY <3>1, <4>2, <4>3, <4>4, <4>5
      <4>7. QED BY <2>3, <3>5, <4>6 DEF B
    <3>8. QED BY <3>6, <3>7
  <2>6. QED BY <2>4, <2>5
<1>5. N \in 0..N
  BY <1>1
<1>6. Inside(N) /\ Counted(N)
  BY <1>4, <1>5
<1> DEFINE S == reach[N]
<1>7. S \in SUBSET Block /\ S \subseteq G /\ h \in S
  BY <1>6
<1>8. S = Outward(fst, snd, S)
  <2>1. Cardinality(S) <= N
    BY <1>7, FS_Subset
  <2>2. Cardinality(S) \in Nat
    BY <1>7, FS_Subset, FS_CardinalityType
  <2> HIDE DEF N
  <2>3. ~(Cardinality(S) > N)
    BY <1>1, <2>1, <2>2
  <2>4. QED BY <1>6, <2>3
<1> HIDE DEF S
<1>9. G \subseteq S
  <2> SUFFICES ASSUME G \ S # {} PROVE FALSE
    OBVIOUS
  <2> DEFINE R == {at[b] : b \in G \ S}
  <2>1. R \subseteq Nat /\ R # {}
    OBVIOUS
  <2>2. PICK r \in R : \A k \in R : r <= k
    BY <2>1, LeastNatural
  <2>3. PICK b \in G \ S : r = at[b]
    BY <2>2
  <2>4. PICK c \in G : at[c] < at[b] /\ b \in {fst[c], snd[c]}
    BY <1>7, <2>3
  <2>5. c \in S
    <3>1. ASSUME c \notin S PROVE FALSE
      <4>1. at[c] \in R /\ at[c] \in Nat /\ at[b] \in Nat
        BY <3>1
      <4>2. at[b] <= at[c]
        BY <2>2, <2>3, <4>1
      <4>3. QED BY <2>4, <4>1, <4>2
    <3>2. QED BY <3>1
  <2>6. b \in Outward(fst, snd, S)
    BY <1>2, <2>3, <2>4, <2>5 DEF Outward
  <2>7. QED BY <1>8, <2>3, <2>6
<1>10. QED BY <1>7, <1>9 DEF S

---------------------------------------------------------------------------
(* How blocks are reached.  A block that is left for good is past: its     *)
(* edges stay.  at numbers the blocks in the order they were entered, so   *)
(* that what leads to a block it was entered for comes before it.          *)

\* The place of a block that is past.
Past == Place("past", 0, "")

\* What frame i has to do is legal in context c, and ends with nothing open.
Walks(i, node, todo, c) == IF i = 1 THEN c = Nil ELSE Legal("paths", node, todo, c, Nil)

\* The context of a frame that waits for a visit.
Resting(c) == LedBy(c) = {} /\ (c.open \/ c.due = {})

\* Block k of the stack.
Home(k) == IF k <= Len(saves) THEN saves[k] ELSE current_block

\* b is the head of its function.
IsHead(b) == \E p \in Proc : b \in graph[p] /\ head[p] = b

\* Numbers below now are given.
Ranked(at, now) == now \in Nat /\ \A b \in Block : at[b] \in Nat /\ at[b] < now

\* pos says at which block of the stack each visit began.
PathFrames(ctx, pos) ==
  /\ \A i \in 1..Len(frames) : /\ Walks(i, frames[i].node, frames[i].todo, ctx[i])
                               /\ pos[i] \in Nat \ {0}
  /\ \A i \in 1..(Len(frames) - 1) : Resting(ctx[i]) /\ pos[i + 1] = pos[i] + Opened(ctx[i])
  /\ \A i, j \in 1..Len(frames) : i < j => pos[i] + Opened(ctx[i]) <= pos[j]
  /\ Len(saves) + 1 = pos[Len(frames)] + Opened(ctx[Len(frames)])

\* The blocks of the stack.
StackAt(own) ==
  /\ \A k \in 1..Len(saves) : saves[k] \in Live /\ own[saves[k]] = SavedAt(k)
  /\ current_block \in Live => own[current_block] = Current

\* The blocks that visit i has made and not entered.
FreshFor(slots, F, i, own) ==
  \A x \in F : x \in DOMAIN slots /\ slots[x] \in Live /\ own[slots[x]] = FreshAt(i, x)

\* Those a visit that began at block k of the stack entered before anything led to
\* them: their number is above that of the block the visit began at, which will.
DueFor(slots, D, k, at) ==
  \A x \in D : x \in DOMAIN slots /\ slots[x] \in Live /\ at[Home(k)] < at[slots[x]]

\* Those of its fresh blocks that something past leads to.
MetFor(slots, M, own) ==
  \A x \in M : \E b \in Live : own[b] = Past /\ slots[x] \in {succ[b], alt[b]}

\* The blocks of visit i are where its context says.
Carried(i, slots, c, k, own, at) ==
  FreshFor(slots, c.fresh, i, own) /\ DueFor(slots, c.due, k, at) /\ MetFor(slots, c.met, own)

\* What the innermost visit drew from the current block.
LedFor(slots, c) ==
  /\ \A x \in c.next : slots[x] = succ[current_block]
  /\ \A x \in c.else : slots[x] = alt[current_block]

\* A head, or a block that an earlier one leads to.
Reached(b, own, at) ==
  \/ IsHead(b)
  \/ \E a \in Live : own[a] = Past /\ at[a] < at[b] /\ b \in {succ[a], alt[a]}

\* The blocks that a visit has still to lead to.
Owes(slots, c) == {slots[x] : x \in c.fresh \cup c.due}

\* Every block is reached or owed by a visit.
PathBlocks(ctx, pos, own, at) ==
  /\ StackAt(own)
  /\ \A i \in 1..Len(frames) : Carried(i, frames[i].slots, ctx[i], pos[i], own, at)
  /\ LedFor(Frame.slots, ctx[Len(frames)])
  /\ \A b \in Live : \/ Reached(b, own, at)
                     \/ \E i \in 1..Len(frames) : b \in Owes(frames[i].slots, ctx[i])

\* The invariant: the visits, one on the other, with such contexts, places and numbers.
PathsInv ==
  \E ctx, pos, own, at, now : PathFrames(ctx, pos) /\ Ranked(at, now) /\ PathBlocks(ctx, pos, own, at)

---------------------------------------------------------------------------
(* The innermost visit goes on.                                            *)

\* What is known of it when it began at block k.
TopPath(c, k, own, at, now) ==
  /\ Walks(Len(frames), Frame.node, Frame.todo, c)
  /\ k \in Nat \ {0} /\ Len(saves) + 1 = k + Opened(c)
  /\ Ranked(at, now)
  /\ StackAt(own)
  /\ Carried(Len(frames), Frame.slots, c, k, own, at)
  /\ LedFor(Frame.slots, c)

\* What is left to the other visits: their blocks, the stack below, and edges
\* of what is past.
Spares(k, own, mine, at, late) ==
  /\ \A b \in Live : \A i, x : own[b] = FreshAt(i, x) /\ i # Len(frames) => mine[b] = own[b]
  /\ \A b \in Live : own[b] = Past => mine[b] = Past /\ succ'[b] = succ[b] /\ alt'[b] = alt[b]
  /\ \A b \in Live : at[b] <= late[b]
  /\ \A b \in Live : (\A i, x : own[b] # FreshAt(i, x)) => late[b] = at[b]
  /\ \A j \in 1..Len(saves) : j < k => j <= Len(saves') /\ saves'[j] = saves[j]
  /\ \A b \in Live : IsHead(b) => IsHead(b)'

\* What it is after the step.
NextPath(f, c, d, k, own, mine, at, late, soon) ==
  /\ Walks(Len(frames), Frame.node, f.todo, d)
  /\ Len(saves') + 1 = k + Opened(d)
  /\ Ranked(late, soon)
  /\ StackAt(mine)'
  /\ Carried(Len(frames), f.slots, d, k, mine, late)'
  /\ LedFor(f.slots, d)'
  /\ Spares(k, own, mine, at, late)
  /\ \A b \in Owes(Frame.slots, c) : b \in Owes(f.slots, d) \/ Reached(b, mine, late)'
  /\ \A b \in Live' \ Live : b \in Owes(f.slots, d) \/ Reached(b, mine, late)'

\* What is past is neither fresh nor saved nor current.
LEMMA PastApart == \A i, x, k : Past # FreshAt(i, x) /\ Past # SavedAt(k) /\ Past # Current
<1> SUFFICES ASSUME NEW i, NEW x, NEW k PROVE Past # FreshAt(i, x) /\ Past # SavedAt(k) /\ Past # Current
  OBVIOUS
<1>1. Past.role = "past" /\ FreshAt(i, x).role = "fresh" /\ SavedAt(k).role = "save" /\ Current.role = "current"
  BY DEF Past, FreshAt, SavedAt, Current, Place
<1>2. QED BY <1>1

\* The order given so far, as it stands.
LEMMA SameRank ==
  ASSUME EmitterInv, NEW at, NEW now, Ranked(at, now)
  PROVE  \A b \in Live : at[b] \in Nat /\ at[b] < now /\ at[b] <= at[b]
<1> SUFFICES ASSUME NEW b \in Live PROVE at[b] \in Nat /\ at[b] < now /\ at[b] <= at[b]
  OBVIOUS
<1>1. Live \subseteq Block
  BY LiveInBlock
<1>2. b \in Block
  BY <1>1
<1>3. at[b] \in Nat /\ at[b] < now
  BY <1>2 DEF Ranked
<1>4. QED BY <1>3

\* What was reached stays so.
LEMMA ReachedStays ==
  ASSUME EmitterInv, Live \subseteq Live', NEW k, NEW own, NEW mine, NEW at, NEW late, NEW soon,
         Spares(k, own, mine, at, late), Ranked(late, soon), NEW now, Ranked(at, now), NEW b \in Live, Reached(b, own, at)
  PROVE  Reached(b, mine, late)'
<1>1. CASE IsHead(b)
  <2>1. IsHead(b)'
    BY <1>1 DEF Spares
  <2>2. QED BY <2>1 DEF Reached
<1>2. CASE \E a \in Live : own[a] = Past /\ at[a] < at[b] /\ b \in {succ[a], alt[a]}
  <2>1. PICK a \in Live : own[a] = Past /\ at[a] < at[b] /\ b \in {succ[a], alt[a]}
    BY <1>2
  <2>2. mine[a] = Past /\ succ'[a] = succ[a] /\ alt'[a] = alt[a]
    BY <2>1 DEF Spares
  <2>3. \A i, x : own[a] # FreshAt(i, x)
    <3>1. \A i, x : FreshAt(i, x).role = "fresh" /\ Past.role = "past"
      BY DEF FreshAt, Past, Place
    <3>2. QED BY <2>1, <3>1
  <2>4. late[a] = at[a] /\ at[b] <= late[b]
    BY <2>3 DEF Spares
  <2>5. at[a] \in Nat /\ at[b] \in Nat /\ late[b] \in Nat
    <3>1. Live \subseteq Block
      BY LiveInBlock
    <3>2. a \in Block /\ b \in Block
      BY <3>1
    <3>3. QED BY <3>2 DEF Ranked
  <2>6. late[a] < late[b]
    BY <2>1, <2>4, <2>5
  <2>7. QED BY <2>1, <2>2, <2>6 DEF Reached
<1>3. QED BY <1>1, <1>2 DEF Reached

\* The blocks of another visit stay its own.
LEMMA CarriedStays ==
  ASSUME EmitterInv, Live \subseteq Live', NEW k, NEW own, NEW mine, NEW at, NEW late, NEW now, NEW soon,
         Spares(k, own, mine, at, late), Ranked(late, soon), Ranked(at, now), StackAt(own),
         NEW i, i # Len(frames), NEW slots, NEW c, NEW h \in Nat \ {0}, Resting(c), h + Opened(c) <= k,
         k \in Nat, k <= Len(saves) + 1, Carried(i, slots, c, h, own, at)
  PROVE  Carried(i, slots, c, h, mine, late)'
<1>1. FreshFor(slots, c.fresh, i, mine)'
  <2> SUFFICES ASSUME NEW x \in c.fresh
               PROVE  x \in DOMAIN slots /\ slots[x] \in Live' /\ mine[slots[x]] = FreshAt(i, x)
    BY DEF FreshFor
  <2>1. x \in DOMAIN slots /\ slots[x] \in Live /\ own[slots[x]] = FreshAt(i, x)
    BY DEF Carried, FreshFor
  <2>2. mine[slots[x]] = own[slots[x]]
    BY <2>1 DEF Spares
  <2>3. QED BY <2>1, <2>2
<1>2. DueFor(slots, c.due, h, late)'
  <2>1. CASE c.due = {}
    BY <2>1 DEF DueFor
  <2>2. CASE c.due # {}
    <3>1. Opened(c) = 1
      BY <2>2 DEF Resting, Opened
    <3>2. Len(saves) \in Nat
      BY DEF EmitterInv, ProtocolInv, ProtocolTypeOK
    <3>3. h \in 1..Len(saves) /\ h < k /\ h <= Len(saves)
      BY <3>1, <3>2
    <3>4. h <= Len(saves') /\ saves'[h] = saves[h]
      BY <3>3 DEF Spares
    <3>5. PICK b : b = saves[h]
      OBVIOUS
    <3>6. Home(h) = b /\ Home(h)' = b
      BY <3>3, <3>4, <3>5 DEF Home
    <3>7. b \in Live /\ own[b] = SavedAt(h)
      BY <3>3, <3>5 DEF StackAt
    <3>8. late[b] = at[b]
      BY <3>7, PlacesDiffer DEF Spares
    <3>9. ASSUME NEW x \in c.due
          PROVE  x \in DOMAIN slots /\ slots[x] \in Live' /\ late[b] < late[slots[x]]
      <4>1. PICK t : t = slots[x]
        OBVIOUS
      <4>2. x \in DOMAIN slots /\ t \in Live /\ at[b] < at[t]
        BY <3>6, <4>1 DEF Carried, DueFor
      <4>3. at[t] <= late[t]
        BY <4>2 DEF Spares
      <4>4. at[t] \in Nat /\ at[b] \in Nat /\ late[t] \in Nat
        <5>1. Live \subseteq Block
          BY LiveInBlock
        <5>2. t \in Block /\ b \in Block
          BY <3>7, <4>2, <5>1
        <5>3. QED BY <5>2 DEF Ranked
      <4>5. QED BY <3>8, <4>1, <4>2, <4>3, <4>4
    <3>10. \A x \in c.due : x \in DOMAIN slots /\ slots[x] \in Live' /\ late[Home(h)'] < late[slots[x]]
      BY <3>6, <3>9
    <3>11. QED BY <3>10 DEF DueFor
  <2>3. QED BY <2>1, <2>2
<1>3. MetFor(slots, c.met, mine)'
  <2> SUFFICES ASSUME NEW x \in c.met
               PROVE  \E b \in Live' : mine[b] = Past /\ slots[x] \in {succ'[b], alt'[b]}
    BY DEF MetFor
  <2>1. PICK b \in Live : own[b] = Past /\ slots[x] \in {succ[b], alt[b]}
    BY DEF Carried, MetFor
  <2>2. mine[b] = Past /\ succ'[b] = succ[b] /\ alt'[b] = alt[b]
    BY <2>1 DEF Spares
  <2>3. QED BY <2>1, <2>2
<1>4. QED BY <1>1, <1>2, <1>3 DEF Carried

\* The frames, the innermost of which goes on.
LEMMA PathsGoOn ==
  ASSUME FramesInv, NEW ctx, NEW pos, PathFrames(ctx, pos), NEW n, n = Len(frames), NEW f, NEW d,
         frames' = Continued(f), f.node = Frame.node, Walks(n, f.node, f.todo, d),
         Len(saves') + 1 = pos[n] + Opened(d)
  PROVE  PathFrames(With(ctx, n, d), pos)' /\ Len(frames') = n
<1>1. /\ Len(frames') = n /\ n \in Nat /\ n # 0 /\ frames'[n] = f
      /\ \A i \in 1..n : i # n => frames'[i] = frames[i]
  BY ContinuedFacts
<1> DEFINE dtx == With(ctx, n, d)
<1>2. dtx[n] = d /\ \A i \in 1..n : i # n => dtx[i] = ctx[i]
  <2>1. n \in Nat /\ n # 0
    BY <1>1
  <2>2. QED BY <2>1 DEF With
<1> HIDE DEF dtx
<1>3. ASSUME NEW i \in 1..n PROVE Walks(i, frames'[i].node, frames'[i].todo, dtx[i]) /\ pos[i] \in Nat \ {0}
  <2>1. pos[i] \in Nat \ {0} /\ Walks(i, frames[i].node, frames[i].todo, ctx[i])
    BY DEF PathFrames
  <2>2. CASE i = n
    BY <1>1, <1>2, <2>1, <2>2
  <2>3. CASE i # n
    BY <1>1, <1>2, <2>1, <2>3
  <2>4. QED BY <2>2, <2>3
<1>4. ASSUME NEW i \in 1..(n - 1) PROVE Resting(dtx[i]) /\ pos[i + 1] = pos[i] + Opened(dtx[i])
  <2>1. i \in 1..n /\ i # n
    BY <1>1
  <2>2. QED BY <1>2, <2>1 DEF PathFrames
<1>5. ASSUME NEW i \in 1..n, NEW j \in 1..n, i < j PROVE pos[i] + Opened(dtx[i]) <= pos[j]
  <2>1. i # n
    BY <1>1, <1>5
  <2>2. QED BY <1>2, <1>5, <2>1 DEF PathFrames
<1>6. Len(saves') + 1 = pos[n] + Opened(dtx[n])
  BY <1>2
<1>7. PathFrames(dtx, pos)'
  BY <1>1, <1>3, <1>4, <1>5, <1>6 DEF PathFrames
<1>8. QED BY <1>1, <1>7 DEF dtx

\* A step of the innermost visit keeps the paths, if it moves the context of that visit
\* and the places and numbers of the blocks along.
LEMMA PathsStep ==
  ASSUME EmitterInv, PathsInv, Live \subseteq Live',
         NEW f, frames' = Continued(f), f.node = Frame.node,
         \A c, k, own, at, now : TopPath(c, k, own, at, now) =>
            \E d, mine, late, soon : NextPath(f, c, d, k, own, mine, at, late, soon)
  PROVE  PathsInv'
<1>1. PICK ctx, pos, own, at, now : PathFrames(ctx, pos) /\ Ranked(at, now) /\ PathBlocks(ctx, pos, own, at)
  BY DEF PathsInv
<1>2. FramesInv
  BY DEF EmitterInv
<1>3. PICK n : n = Len(frames)
  OBVIOUS
<1>4. n \in 1..n /\ n \in Nat /\ n # 0 /\ \A i \in 1..n : i # n => i \in 1..(n - 1) /\ i < n
  <2>1. n \in Nat /\ n # 0
    BY <1>2, <1>3, FrameFacts
  <2>2. QED BY <2>1
<1>5. PICK c, k : c = ctx[n] /\ k = pos[n]
  OBVIOUS
<1>6. TopPath(c, k, own, at, now)
  BY <1>1, <1>3, <1>4, <1>5 DEF PathFrames, PathBlocks, TopPath, Frame
<1>7. PICK d, mine, late, soon : NextPath(f, c, d, k, own, mine, at, late, soon)
  BY <1>6
<1>8. Spares(k, own, mine, at, late) /\ Ranked(late, soon) /\ StackAt(own) /\ StackAt(mine)'
  BY <1>6, <1>7 DEF NextPath, TopPath
<1> DEFINE dtx == With(ctx, n, d)
<1>9. PathFrames(dtx, pos)' /\ Len(frames') = n
  <2>1. Walks(n, f.node, f.todo, d) /\ Len(saves') + 1 = pos[n] + Opened(d)
    BY <1>3, <1>5, <1>7 DEF NextPath
  <2>2. QED BY <1>1, <1>2, <1>3, <2>1, PathsGoOn
<1>10. frames'[n] = f /\ \A i \in 1..n : i # n => frames'[i] = frames[i]
  BY <1>2, <1>3, ContinuedFacts
<1>11. dtx[n] = d /\ \A i \in 1..n : i # n => dtx[i] = ctx[i]
  BY <1>4, WithFacts
<1> HIDE DEF dtx
<1>12. k \in Nat /\ k <= Len(saves) + 1
  <2>1. k \in Nat /\ Opened(c) \in Nat /\ Len(saves) + 1 = k + Opened(c)
    BY <1>6 DEF TopPath, Opened
  <2>2. QED BY <2>1
<1>13. ASSUME NEW i \in 1..n PROVE Carried(i, frames[i].slots, dtx[i], pos[i], mine, late)'
  <2>1. CASE i = n
    <3>1. PICK slots : slots = f.slots
      OBVIOUS
    <3>2. Carried(n, slots, d, k, mine, late)'
      BY <1>3, <1>7, <1>9, <3>1 DEF NextPath
    <3>3. frames'[i].slots = slots /\ dtx[i] = d /\ pos[i] = k
      BY <1>5, <1>10, <1>11, <2>1, <3>1
    <3>4. QED BY <2>1, <3>2, <3>3 DEF Carried, FreshFor, DueFor, MetFor
  <2>2. CASE i # n
    <3>1. PICK slots, e, h : slots = frames[i].slots /\ e = ctx[i] /\ h = pos[i]
      OBVIOUS
    <3>2. frames'[i].slots = slots /\ dtx[i] = e
      BY <1>10, <1>11, <2>2, <3>1
    <3>3. Carried(i, slots, e, h, own, at)
      BY <1>1, <1>3, <3>1 DEF PathBlocks
    <3>4. Resting(e) /\ h \in Nat \ {0} /\ h + Opened(e) <= k
      BY <1>1, <1>3, <1>4, <1>5, <2>2, <3>1 DEF PathFrames
    <3>5. Carried(i, slots, e, h, mine, late)'
      BY <1>1, <1>3, <1>8, <1>12, <2>2, <3>3, <3>4, CarriedStays
    <3>6. QED BY <3>1, <3>2, <3>5 DEF Carried, FreshFor, DueFor, MetFor
  <2>3. QED BY <2>1, <2>2
<1>14. LedFor(Frame.slots, dtx[Len(frames)])'
  <2>1. PICK slots : slots = f.slots
    OBVIOUS
  <2>2. LedFor(slots, d)'
    BY <1>7, <2>1 DEF NextPath
  <2>3. Frame'.slots = slots /\ dtx[Len(frames')] = d
    BY <1>9, <1>10, <1>11, <2>1 DEF Frame
  <2>4. QED BY <2>2, <2>3 DEF LedFor
<1>15. ASSUME NEW b \in Live'
       PROVE  Reached(b, mine, late)' \/ \E i \in 1..n : b \in Owes(frames'[i].slots, dtx[i])
  <2>1. b \in Owes(f.slots, d) => b \in Owes(frames'[n].slots, dtx[n])
    BY <1>10, <1>11
  <2>2. CASE b \notin Live
    BY <1>4, <1>7, <2>1, <2>2 DEF NextPath
  <2>3. CASE b \in Live
    <3>1. CASE Reached(b, own, at)
      BY <1>1, <1>8, <2>3, <3>1, ReachedStays
    <3>2. CASE \E i \in 1..n : b \in Owes(frames[i].slots, ctx[i])
      <4>1. PICK i \in 1..n : b \in Owes(frames[i].slots, ctx[i])
        BY <3>2
      <4>2. CASE i = n
        <5>1. b \in Owes(Frame.slots, c)
          BY <1>3, <1>5, <4>1, <4>2 DEF Frame
        <5>2. QED BY <1>4, <1>7, <2>1, <5>1 DEF NextPath
      <4>3. CASE i # n
        BY <1>10, <1>11, <4>1, <4>3
      <4>4. QED BY <4>2, <4>3
    <3>3. QED BY <1>1, <1>3, <2>3, <3>1, <3>2 DEF PathBlocks
  <2>4. QED BY <2>2, <2>3
<1>16. PathBlocks(dtx, pos, mine, late)'
  BY <1>8, <1>9, <1>13, <1>14, <1>15 DEF PathBlocks
<1>17. QED BY <1>8, <1>9, <1>16 DEF PathsInv

---------------------------------------------------------------------------
(* The call that is due, and steps that leave blocks and edges alone.      *)

\* The call that is due moves the context as the script says.
LEMMA PathDue ==
  ASSUME FramesInv, Frame.todo # <<>>, NEW c, Walks(Len(frames), Frame.node, Frame.todo, c)
  PROVE  \E d : /\ Walks(Len(frames), Frame.node, Tail(Frame.todo), d)
                /\ Len(frames) = 1 => c = Nil /\ d = Nil
                /\ Len(frames) # 1 => PathCall(Frame.node, Frame.todo[1], c, d)
<1>1. CASE Len(frames) = 1
  BY <1>1 DEF Walks
<1>2. CASE Len(frames) # 1
  <2>1. Legal("paths", Frame.node, Frame.todo, c, Nil)
    BY <1>2 DEF Walks
  <2>2. Len(Frame.todo) # 0
    BY <2>1, EmptyFacts DEF Legal
  <2>3. PICK d : Typed("paths", Frame.node, Frame.todo[1], c, d) /\ Legal("paths", Frame.node, Tail(Frame.todo), d, Nil)
    BY <2>1, <2>2, LegalTail
  <2>4. QED BY <1>2, <2>3 DEF Walks, Typed
<1>3. QED BY <1>1, <1>2

\* A call of a visit is due in a visit.
LEMMA NotInUnit ==
  ASSUME EmitterInv, Frame.todo # <<>>, Frame.todo[1][1] \notin UnitCalls
  PROVE  Len(frames) # 1
<1>1. PICK n : n = Len(frames)
  OBVIOUS
<1>2. n > 1
  BY <1>1, DueInVisit DEF EmitterInv
<1>3. QED BY <1>1, <1>2

\* Calls that are about no block, or only look for operands.
LEMMA PathStays ==
  ASSUME FramesInv, Frame.todo # <<>>, Frame.todo[1][1] \in PathFree \cup ReadCalls \cup UnitCalls,
         NEW c, Walks(Len(frames), Frame.node, Frame.todo, c)
  PROVE  Walks(Len(frames), Frame.node, Tail(Frame.todo), c)
<1>1. PICK d : /\ Walks(Len(frames), Frame.node, Tail(Frame.todo), d)
               /\ Len(frames) = 1 => c = Nil /\ d = Nil
               /\ Len(frames) # 1 => PathCall(Frame.node, Frame.todo[1], c, d)
  BY PathDue
<1>2. d = c
  <2>1. CASE Len(frames) = 1
    BY <1>1, <2>1
  <2>2. CASE Len(frames) # 1
    BY <1>1, <2>2 DEF PathCall, PathStep, PathFree, ReadCalls, UnitCalls
  <2>3. QED BY <2>1, <2>2
<1>3. QED BY <1>1, <1>2

\* Blocks and edges are left alone.
SameBlocks == UNCHANGED <<graph, head, stack, saves, succ, alt>>

\* A step that leaves blocks and edges alone keeps the paths when what is left to do
\* is legal where it was.
LEMMA PathsSame ==
  ASSUME EmitterInv, PathsInv, SameBlocks,
         NEW f, frames' = Continued(f), f.node = Frame.node, f.slots = Frame.slots,
         \A c : Walks(Len(frames), Frame.node, Frame.todo, c) => Walks(Len(frames), Frame.node, f.todo, c)
  PROVE  PathsInv'
<1>1. UNCHANGED <<graph, head, stack, saves, succ, alt>>
  BY DEF SameBlocks
<1>2. Live' = Live /\ current_block' = current_block /\ Len(frames') = Len(frames)
  BY <1>1, ContinuedFacts DEF Live, current_block, EmitterInv
<1>3. ASSUME NEW c, NEW k, NEW own, NEW at, NEW now, TopPath(c, k, own, at, now)
      PROVE  \E d, mine, late, soon : NextPath(f, c, d, k, own, mine, at, late, soon)
  <2>1. PICK slots : slots = f.slots
    OBVIOUS
  <2>2. Walks(Len(frames), Frame.node, f.todo, c) /\ Len(saves') + 1 = k + Opened(c)
    BY <1>1, <1>3 DEF TopPath
  <2>3. StackAt(own)'
    BY <1>1, <1>2, <1>3 DEF TopPath, StackAt
  <2>4. Carried(Len(frames), slots, c, k, own, at)'
    <3>1. Carried(Len(frames), slots, c, k, own, at)
      BY <1>3, <2>1 DEF TopPath
    <3>2. Home(k)' = Home(k)
      BY <1>1, <1>2 DEF Home
    <3>3. QED BY <1>1, <1>2, <3>1, <3>2 DEF Carried, FreshFor, DueFor, MetFor
  <2>5. LedFor(slots, c)'
    BY <1>1, <1>2, <1>3, <2>1 DEF TopPath, LedFor
  <2>6. Spares(k, own, own, at, at)
    <3>1. \A b \in Live : at[b] <= at[b]
      <4>1. Live \subseteq Block
        BY LiveInBlock
      <4>2. QED BY <1>3, <4>1 DEF TopPath, Ranked
    <3>2. \A j \in 1..Len(saves) : j < k => j <= Len(saves') /\ saves'[j] = saves[j]
      BY <1>1
    <3>3. \A b \in Live : IsHead(b) => IsHead(b)'
      BY <1>1 DEF IsHead
    <3>4. QED BY <1>1, <3>1, <3>2, <3>3 DEF Spares
  <2>7. NextPath(f, c, c, k, own, own, at, at, now)
    BY <1>2, <1>3, <2>1, <2>2, <2>3, <2>4, <2>5, <2>6 DEF NextPath, TopPath
  <2>8. QED BY <2>7
<1>4. Live \subseteq Live'
  BY <1>2
<1>5. QED BY <1>3, <1>4, PathsStep

\* Calls that paths do not ask about.
LEMMA QuietPaths ==
  ASSUME EmitterInv, PathsInv, \E call \in PathFree \cup ReadCalls \cup UnitCalls : Due(call), SameBlocks,
         NEW kept, frames' = Continued(Made(Tail(Frame.todo), Frame.slots, kept))
  PROVE  PathsInv'
<1>1. Frame.todo # <<>> /\ Frame.todo[1][1] \in PathFree \cup ReadCalls \cup UnitCalls
  BY DEF Due
<1> DEFINE f == Made(Tail(Frame.todo), Frame.slots, kept)
<1>2. f.node = Frame.node /\ f.todo = Tail(Frame.todo) /\ f.slots = Frame.slots
  BY FrameFields DEF Made
<1>3. frames' = Continued(f)
  OBVIOUS
<1> HIDE DEF f
<1>4. \A c : Walks(Len(frames), Frame.node, Frame.todo, c) => Walks(Len(frames), Frame.node, f.todo, c)
  BY <1>1, <1>2, PathStays DEF EmitterInv
<1>5. QED BY <1>2, <1>3, <1>4, PathsSame

\* The step from the calls of the builder.
LEMMA KeptBlocks == UNCHANGED protocolVars => SameBlocks
BY DEF protocolVars, vars, edgeVars, graphVars, SameBlocks

\* The actions with such a call.
LEMMA AsidePaths ==
  ASSUME EmitterInv, PathsInv, AsideAction
  PROVE  PathsInv'
<1>1. \E call \in PathFree \cup ReadCalls \cup UnitCalls : Due(call)
  BY Zenon DEF AsideAction, Keep, PushCFD, PopCFD, PushEnv, PopEnv, ReadHit, ReadUnsealed, WriteFound,
         WritePlaceholder, Sealed, Literal, AnswerFound, AssignLocal, DeclareLocal, AddArg, AnswerArg,
         FunctionParam, EntryFunction, Reading, PathFree, ReadCalls, UnitCalls
<1>2. SameBlocks
  <2>1. CASE EntryFunction
    BY <2>1 DEF EntryFunction, entry_function, graphVars, edgeVars, SameBlocks
  <2>2. CASE ~EntryFunction
    <3>1. UNCHANGED protocolVars
      BY <2>2, Zenon DEF AsideAction, Keep, PushCFD, PopCFD, PushEnv, PopEnv, ReadHit, ReadUnsealed, WriteFound,
         WritePlaceholder, Sealed, Literal, AnswerFound, AssignLocal, DeclareLocal, AddArg, AnswerArg,
         FunctionParam, Aside, Finding, Written, Parameter
    <3>2. QED BY <3>1, KeptBlocks
  <2>3. QED BY <2>1, <2>2
<1>3. \E kept : frames' = Continued(Made(Tail(Frame.todo), Frame.slots, kept))
  BY AsideFrame
<1>4. QED BY <1>1, <1>2, <1>3, QuietPaths

\* Calls that are replaced by a search for operands.
LEMMA SearchPaths ==
  ASSUME EmitterInv, PathsInv, SearchAction
  PROVE  PathsInv'
<1>1. \E call \in PathFree \cup ReadCalls : call \notin UnitCalls /\ Due(call)
  BY DEF SearchAction, ReadSinglePred, ReadJoin, AddBlockArg, Seal, SealCurrent, ReadLocal, Reading, ReadCalls,
         PathFree, UnitCalls
<1>2. /\ Frame.todo # <<>> /\ Frame.todo[1][1] \in PathFree \cup ReadCalls \cup UnitCalls
      /\ Frame.todo[1][1] \notin UnitCalls
  BY <1>1 DEF Due
<1>9. Len(frames) # 1
  BY <1>2, NotInUnit
<1>3. SameBlocks
  <2>1. UNCHANGED protocolVars
    BY DEF SearchAction, ReadSinglePred, ReadJoin, AddBlockArg, Seal, SealCurrent, SealBlock, ReadLocal,
           Finding, Aside
  <2>2. QED BY <2>1, KeptBlocks
<1>4. PICK r : AllReads(r) /\ ProceedWith(r)
  BY SearchCalls
<1> DEFINE f == Made(r \o Tail(Frame.todo), Frame.slots, Frame.kept)
<1>5. f.node = Frame.node /\ f.todo = r \o Tail(Frame.todo) /\ f.slots = Frame.slots
  BY FrameFields DEF Made
<1>6. frames' = Continued(f)
  BY <1>4, RestForms, FrameOfInv, Zenon DEF EmitterInv, ProceedWith
<1> HIDE DEF f
<1>7. ASSUME NEW c, Walks(Len(frames), Frame.node, Frame.todo, c)
      PROVE  Walks(Len(frames), Frame.node, f.todo, c)
  <2>1. Walks(Len(frames), Frame.node, Tail(Frame.todo), c)
    BY <1>2, <1>7, PathStays DEF EmitterInv
  <2>2. QED BY <1>4, <1>9, <1>5, <2>1, PathReads DEF Walks
<1>8. QED BY <1>3, <1>5, <1>6, <1>7, PathsSame

\* Instructions that are no jumps.
LEMMA InstPaths ==
  ASSUME EmitterInv, PathsInv, CallFunction \/ LoadGlobal \/ StoreGlobal \/ ReturnInst \/ BranchInst
  PROVE  PathsInv'
<1>1. \E call \in PathFree \cup ReadCalls \cup UnitCalls : Due(call)
  BY DEF CallFunction, LoadGlobal, StoreGlobal, ReturnInst, BranchInst, PathFree
<1>2. Proceed /\ UNCHANGED protocolVars
  BY DEF CallFunction, LoadGlobal, StoreGlobal, ReturnInst, BranchInst, Create, Aside
<1>3. frames' = Continued(Made(Tail(Frame.todo), Frame.slots, Frame.kept))
  BY <1>2, RestForms, FrameOfInv, Zenon DEF Proceed, EmitterInv
<1>4. QED BY <1>1, <1>2, <1>3, KeptBlocks, QuietPaths

\* A block that has ended ends its visit: nothing is open then.
LEMMA StopPaths ==
  ASSUME EmitterInv, PathsInv, StopIfTerm
  PROVE  PathsInv'
<1> DEFINE last == Frame.todo[Len(Frame.todo)]
           todo == IF isTerm THEN <<last>> ELSE Tail(Frame.todo)
           f == Made(todo, Frame.slots, Frame.kept)
<1>1. Frame.todo # <<>> /\ Frame.todo[1][1] = "stop_if_term"
  BY DEF StopIfTerm, Due
<1>2. UNCHANGED protocolVars
  BY DEF StopIfTerm, Aside
<1>3. frames' = Continued(f)
  <2>1. frames' = Continued([Frame EXCEPT !.todo = todo])
    BY DEF StopIfTerm
  <2> HIDE DEF todo
  <2>2. QED BY <2>1, RestForms, FrameOfInv, Zenon DEF EmitterInv
<1>4. f.node = Frame.node /\ f.todo = todo /\ f.slots = Frame.slots
  BY FrameFields DEF Made
<1> HIDE DEF f
<1>5. Len(frames) # 1
  BY <1>1, NotInUnit DEF UnitCalls
<1>6. Frame.node.kind = "Block"
  <2>1. PICK c, s, l : TopState(c, s, l)
    BY <1>1, DueInVisit, FrameFacts DEF EmitterInv, UnitCalls
  <2>2. PICK d : Typed("visit", Frame.node, Frame.todo[1], c, d)
    BY <1>1, <2>1, CallFacts
  <2>3. NodeCall(Frame.node, Frame.todo[1], c, d)
    BY <1>1, <2>2 DEF Typed, ReadCalls
  <2>4. QED BY <1>1, <2>3, Zenon DEF NodeCall
<1>7. ASSUME NEW c, Walks(Len(frames), Frame.node, Frame.todo, c)
      PROVE  Walks(Len(frames), Frame.node, todo, c)
  <2>1. CASE isTerm
    <3>1. Legal("paths", Frame.node, Frame.todo, c, Nil)
      BY <1>5, <1>7 DEF Walks
    <3>2. Len(Frame.todo) # 0
      BY <1>1, <3>1, EmptyFacts DEF Legal
    <3>3. c = Nil
      <4>1. PICK d : PathCall(Frame.node, Frame.todo[1], c, d)
        BY <1>1, <1>5, <1>7, PathDue DEF EmitterInv
      <4>2. Frame.todo[1][1] \notin ReadCalls
        BY <1>1 DEF ReadCalls
      <4>3. QED BY <1>6, <4>1, <4>2 DEF PathCall
    <3>4. Legal("paths", Frame.node, <<last>>, Nil, Nil)
      BY <1>6, <3>1, <3>2, LastPaths
    <3>5. QED BY <1>5, <2>1, <3>3, <3>4 DEF Walks
  <2>2. CASE ~isTerm
    <3>1. Walks(Len(frames), Frame.node, Tail(Frame.todo), c)
      BY <1>1, <1>7, PathStays DEF EmitterInv, PathFree
    <3>2. QED BY <2>2, <3>1
  <2>3. QED BY <2>1, <2>2
<1> HIDE DEF todo
<1>8. QED BY <1>2, <1>3, <1>4, <1>7, KeptBlocks, PathsSame

\* The choice between the scripts of a node.
LEMMA DecidePaths ==
  ASSUME EmitterInv, PathsInv, Decide
  PROVE  PathsInv'
<1>1. Frame.todo # <<>> /\ Frame.todo[1][1] = "decide"
  BY DEF Decide, Due
<1>2. UNCHANGED protocolVars
  BY DEF Decide, Aside
<1>3. PICK todo, kept : /\ frames' = Continued(Made(todo, Frame.slots, kept))
                        /\ todo = Lowered(Frame.node) \/ \E v : todo = Folded(Frame.node, v)
  BY DecidedFrame
<1> DEFINE f == Made(todo, Frame.slots, kept)
<1>4. f.node = Frame.node /\ f.todo = todo /\ f.slots = Frame.slots
  BY FrameFields DEF Made
<1>5. frames' = Continued(f)
  BY <1>3
<1> HIDE DEF f
<1>6. Len(frames) # 1
  BY <1>1, NotInUnit DEF UnitCalls
<1>7. Frame.node.kind \in {"And", "Or", "If"}
  <2>1. PICK c, s, l : TopState(c, s, l)
    BY <1>1, DueInVisit, FrameFacts DEF EmitterInv, UnitCalls
  <2>2. PICK d : Typed("visit", Frame.node, Frame.todo[1], c, d)
    BY <1>1, <2>1, CallFacts
  <2>3. NodeCall(Frame.node, Frame.todo[1], c, d)
    BY <1>1, <2>2 DEF Typed, ReadCalls
  <2>4. QED BY <1>1, <2>3, Zenon DEF NodeCall
<1>8. ASSUME NEW c, Walks(Len(frames), Frame.node, Frame.todo, c)
      PROVE  Walks(Len(frames), Frame.node, todo, c)
  <2>1. PICK d : PathCall(Frame.node, Frame.todo[1], c, d)
    BY <1>1, <1>6, <1>8, PathDue DEF EmitterInv
  <2>2. c = Nil
    BY <1>1, <2>1 DEF PathCall, PathStep, PathFree, ReadCalls
  <2>3. Legal("paths", Frame.node, todo, Nil, Nil)
    BY <1>3, <1>7, DecisionPaths
  <2>4. QED BY <1>6, <2>2, <2>3 DEF Walks
<1>9. QED BY <1>2, <1>4, <1>5, <1>8, KeptBlocks, PathsSame

---------------------------------------------------------------------------
(* Steps that draw an edge of the current block.                           *)

\* The call that is due takes the context from c to d.
CallPath(c, d) ==
  /\ Len(frames) = 1 => c = Nil /\ d = Nil
  /\ Len(frames) # 1 => PathCall(Frame.node, Frame.todo[1], c, d)

\* An edge of the current block, when the context says so too.
LEMMA LinkedPaths ==
  ASSUME EmitterInv, PathsInv, Frame.todo # <<>>, Proceed, UNCHANGED <<graph, head, stack, saves>>,
         current_block \in Live, \A b \in Live : b # current_block => succ'[b] = succ[b] /\ alt'[b] = alt[b],
         NEW slots, slots = Frame.slots,
         \A c, d : CallPath(c, d) /\ LedFor(slots, c) =>
           /\ d.fresh = c.fresh /\ d.due = c.due /\ d.met = c.met /\ d.open = c.open
           /\ LedFor(slots, d)'
  PROVE  PathsInv'
<1>1. PICK f : f = Made(Tail(Frame.todo), Frame.slots, Frame.kept)
  OBVIOUS
<1>2. /\ frames' = Continued(f) /\ Len(frames') = Len(frames)
      /\ f.node = Frame.node /\ f.todo = Tail(Frame.todo) /\ f.slots = slots
  BY <1>1, ProceedFrame DEF EmitterInv
<1>3. PICK cb : cb = current_block
  OBVIOUS
<1>4. Live' = Live /\ current_block' = cb
  BY <1>3 DEF Live, current_block
<1>5. ASSUME NEW c, NEW k, NEW own, NEW at, NEW now, TopPath(c, k, own, at, now)
      PROVE  \E d, mine, late, soon : NextPath(f, c, d, k, own, mine, at, late, soon)
  <2>1. PICK d : Walks(Len(frames), Frame.node, f.todo, d) /\ CallPath(c, d)
    BY <1>2, <1>5, PathDue DEF TopPath, CallPath, EmitterInv
  <2>2. /\ d.fresh = c.fresh /\ d.due = c.due /\ d.met = c.met /\ d.open = c.open
        /\ LedFor(slots, d)'
    BY <1>5, <2>1 DEF TopPath
  <2>3. Len(saves') + 1 = k + Opened(d)
    BY <1>5, <2>2 DEF TopPath, Opened
  <2>4. StackAt(own)'
    BY <1>3, <1>4, <1>5 DEF TopPath, StackAt
  <2>5. own[cb] = Current
    BY <1>3, <1>5 DEF TopPath, StackAt
  <2>6. \A b \in Live : own[b] = Past => succ'[b] = succ[b] /\ alt'[b] = alt[b]
    <3>1. Past # Current
      BY PastApart
    <3>2. QED BY <1>3, <2>5, <3>1
  <2>7. Carried(Len(frames), slots, d, k, own, at)'
    <3>1. Carried(Len(frames), slots, c, k, own, at)
      BY <1>5 DEF TopPath
    <3>2. Home(k)' = Home(k)
      BY <1>3, <1>4 DEF Home
    <3>3. FreshFor(slots, d.fresh, Len(frames), own)'
      BY <1>2, <1>4, <2>2, <3>1 DEF Carried, FreshFor
    <3>4. DueFor(slots, d.due, k, at)'
      BY <1>4, <2>2, <3>1, <3>2 DEF Carried, DueFor
    <3>5. MetFor(slots, d.met, own)'
      <4> SUFFICES ASSUME NEW x \in d.met
                   PROVE  \E b \in Live' : own[b] = Past /\ slots[x] \in {succ'[b], alt'[b]}
        BY DEF MetFor
      <4>1. PICK b \in Live : own[b] = Past /\ slots[x] \in {succ[b], alt[b]}
        BY <2>2, <3>1 DEF Carried, MetFor
      <4>2. QED BY <1>4, <2>6, <4>1
    <3>6. QED BY <3>3, <3>4, <3>5 DEF Carried
  <2>8. Spares(k, own, own, at, at)
    <3>1. \A b \in Live : at[b] <= at[b]
      BY <1>5, SameRank DEF TopPath
    <3>2. \A j \in 1..Len(saves) : j < k => j <= Len(saves') /\ saves'[j] = saves[j]
      OBVIOUS
    <3>3. \A b \in Live : IsHead(b) => IsHead(b)'
      BY DEF IsHead
    <3>4. QED BY <2>6, <3>1, <3>2, <3>3 DEF Spares
  <2>9. Owes(Frame.slots, c) = Owes(f.slots, d)
    BY <1>2, <2>2 DEF Owes
  <2>10. NextPath(f, c, d, k, own, own, at, at, now)
    BY <1>2, <1>4, <1>5, <2>1, <2>2, <2>3, <2>4, <2>7, <2>8, <2>9 DEF NextPath, TopPath
  <2>11. QED BY <2>10
<1>6. Live \subseteq Live'
  BY <1>4
<1>7. QED BY <1>2, <1>5, <1>6, PathsStep

\* A call of a visit.
LEMMA VisitCallPath ==
  ASSUME EmitterInv, Frame.todo # <<>>, Frame.todo[1][1] \notin UnitCalls \cup ReadCalls, NEW c, NEW d, CallPath(c, d)
  PROVE  PathStep(Frame.todo[1], c, d)
<1>1. Len(frames) # 1
  BY NotInUnit
<1>2. QED BY <1>1 DEF CallPath, PathCall

\* A jump leads the current block to its target.
LEMMA JumpPaths ==
  ASSUME EmitterInv, PathsInv, JumpTo \/ JumpWith \/ JumpOut
  PROVE  PathsInv'
<1>1. PICK call \in {"jp", "jp_value", "jp_loop"} : Due(call) /\ (call = "jp_loop" <=> JumpOut)
  BY DEF JumpTo, JumpWith, JumpOut, Due
<1>2. Frame.todo # <<>> /\ Frame.todo[1][1] = call
  BY <1>1 DEF Due
<1>3. phase = "body" /\ current_block \in Live
  BY <1>2, DueInVisit, BodyFacts DEF UnitCalls, EmitterInv
<1>4. PICK t, w : t \in graph[proc] /\ Jump(t) /\ w = Frame.todo[1][2] /\ (~JumpOut => t = Slot(w))
  <2>1. CASE JumpOut
    BY <1>1, <2>1, JumpOutFacts DEF JumpOut
  <2>2. CASE ~JumpOut
    <3>1. call \in SlotCalls
      BY <1>1, <2>2 DEF SlotCalls
    <3>2. QED BY <1>2, <2>2, <3>1, SlotFacts DEF JumpTo, JumpWith, What
  <2>3. QED BY <2>1, <2>2
<1>5. setNext(t) /\ Proceed /\ UNCHANGED saves
  BY <1>4 DEF Jump
<1>6. PICK cb, slots : cb = current_block /\ slots = Frame.slots
  OBVIOUS
<1>7. /\ UNCHANGED <<graph, head, stack>> /\ succ'[cb] = t /\ alt' = alt /\ current_block' = cb
      /\ \A b : b # cb => succ'[b] = succ[b] /\ alt'[b] = alt[b]
  <2>1. UNCHANGED <<graph, head, stack>>
    BY <1>5 DEF setNext, graphVars
  <2>2. current_block' = cb
    BY <1>6, <2>1 DEF current_block
  <2>3. QED BY <1>3, <1>4, <1>5, <1>6, <2>1, <2>2, LinkedHere
<1>8. ASSUME NEW c, NEW d, CallPath(c, d), LedFor(slots, c)
      PROVE  /\ d.fresh = c.fresh /\ d.due = c.due /\ d.met = c.met /\ d.open = c.open
             /\ LedFor(slots, d)'
  <2>1. PathStep(Frame.todo[1], c, d)
    BY <1>2, <1>8, VisitCallPath DEF UnitCalls, ReadCalls
  <2>2. /\ c.next = {}
        /\ call = "jp_loop" => d = c
        /\ call # "jp_loop" => d = Path(c.fresh, c.due, c.met, {w}, c.else, c.open)
    BY <1>2, <1>4, <2>1 DEF PathStep, PathFree
  <2>3. /\ d.fresh = c.fresh /\ d.due = c.due /\ d.met = c.met /\ d.open = c.open /\ d.else = c.else
        /\ JumpOut => d.next = {}
        /\ ~JumpOut => d.next = {w}
    BY <1>1, <2>2 DEF Path
  <2>4. ~JumpOut => slots[w] = succ'[cb]
    BY <1>4, <1>6, <1>7 DEF Slot
  <2>5. \A x \in d.else : slots[x] = alt'[cb]
    BY <1>6, <1>7, <1>8, <2>3 DEF LedFor
  <2>6. \A x \in d.next : slots[x] = succ'[cb]
    BY <2>3, <2>4
  <2>7. QED BY <1>7, <2>3, <2>5, <2>6 DEF LedFor
<1>9. QED BY <1>2, <1>3, <1>5, <1>6, <1>7, <1>8, LinkedPaths

\* A branch leads the current block to both its targets.
LEMMA LinkPaths ==
  ASSUME EmitterInv, PathsInv, SetNext \/ SetElse
  PROVE  PathsInv'
<1>1. /\ Frame.todo # <<>> /\ Frame.todo[1][1] \in {"setNext", "setElse"}
      /\ Frame.todo[1][1] = "setNext" => setNext(Slot(What))
      /\ Frame.todo[1][1] = "setElse" => setElse(Slot(What))
  BY DEF SetNext, SetElse, Due
<1>2. PICK t, w : t \in graph[proc] /\ t = Slot(w) /\ w = Frame.todo[1][2]
  BY <1>1, SlotFacts DEF SlotCalls, What
<1>3. phase = "body" /\ current_block \in Live
  BY <1>1, DueInVisit, BodyFacts DEF UnitCalls, EmitterInv
<1>4. /\ Proceed /\ UNCHANGED saves
      /\ Frame.todo[1][1] = "setNext" => setNext(t)
      /\ Frame.todo[1][1] = "setElse" => setElse(t)
  BY <1>1, <1>2 DEF SetNext, SetElse, Building, What
<1>5. PICK cb, slots : cb = current_block /\ slots = Frame.slots
  OBVIOUS
<1>6. /\ UNCHANGED <<graph, head, stack>> /\ current_block' = cb
      /\ setNext(t) => succ'[cb] = t /\ alt' = alt
      /\ setElse(t) => alt'[cb] = t /\ succ' = succ
      /\ \A b : b # cb => succ'[b] = succ[b] /\ alt'[b] = alt[b]
  <2>1. UNCHANGED <<graph, head, stack>>
    BY <1>1, <1>4 DEF setNext, setElse, graphVars
  <2>2. current_block' = cb
    BY <1>5, <2>1 DEF current_block
  <2>3. QED BY <1>1, <1>2, <1>3, <1>4, <1>5, <2>1, <2>2, LinkedHere
<1>7. ASSUME NEW c, NEW d, CallPath(c, d), LedFor(slots, c)
      PROVE  /\ d.fresh = c.fresh /\ d.due = c.due /\ d.met = c.met /\ d.open = c.open
             /\ LedFor(slots, d)'
  <2>1. PathStep(Frame.todo[1], c, d)
    BY <1>1, <1>7, VisitCallPath DEF UnitCalls, ReadCalls
  <2>2. slots[w] = t
    BY <1>2, <1>5 DEF Slot
  <2>3. CASE Frame.todo[1][1] = "setNext"
    <3>1. c.next = {} /\ d = Path(c.fresh, c.due, c.met, {w}, c.else, c.open)
      BY <1>2, <2>1, <2>3 DEF PathStep, PathFree
    <3>2. /\ d.fresh = c.fresh /\ d.due = c.due /\ d.met = c.met /\ d.open = c.open
          /\ d.else = c.else /\ d.next = {w}
      BY <3>1 DEF Path
    <3>3. succ'[cb] = t /\ alt' = alt
      BY <1>4, <1>6, <2>3
    <3>4. \A x \in d.else : slots[x] = alt'[cb]
      BY <1>5, <1>7, <3>2, <3>3 DEF LedFor
    <3>5. QED BY <1>6, <2>2, <3>2, <3>3, <3>4 DEF LedFor
  <2>4. CASE Frame.todo[1][1] = "setElse"
    <3>1. c.else = {} /\ d = Path(c.fresh, c.due, c.met, c.next, {w}, c.open)
      BY <1>2, <2>1, <2>4 DEF PathStep, PathFree
    <3>2. /\ d.fresh = c.fresh /\ d.due = c.due /\ d.met = c.met /\ d.open = c.open
          /\ d.next = c.next /\ d.else = {w}
      BY <3>1 DEF Path
    <3>3. alt'[cb] = t /\ succ' = succ
      BY <1>4, <1>6, <2>4
    <3>4. \A x \in d.next : slots[x] = succ'[cb]
      BY <1>5, <1>7, <3>2, <3>3 DEF LedFor
    <3>5. QED BY <1>6, <2>2, <3>2, <3>3, <3>4 DEF LedFor
  <2>5. QED BY <1>1, <2>3, <2>4
<1>8. QED BY <1>1, <1>3, <1>4, <1>5, <1>6, <1>7, LinkedPaths

---------------------------------------------------------------------------
(* Steps that make blocks or go to another one.                            *)

\* Blocks that are fresh stay so.
LEMMA FreshGoes ==
  ASSUME Live \subseteq Live', NEW slots, NEW F, NEW i, NEW own, FreshFor(slots, F, i, own),
         NEW new, NEW G, G \subseteq F, \A x \in G : x \in DOMAIN slots => x \in DOMAIN new /\ new[x] = slots[x],
         NEW mine, \A b \in Live : \A x \in G : own[b] = FreshAt(i, x) => mine[b] = own[b]
  PROVE  FreshFor(new, G, i, mine)'
<1> SUFFICES ASSUME NEW x \in G
             PROVE  x \in DOMAIN new /\ new[x] \in Live' /\ mine[new[x]] = FreshAt(i, x)
  BY DEF FreshFor
<1>1. x \in DOMAIN slots /\ slots[x] \in Live /\ own[slots[x]] = FreshAt(i, x)
  BY DEF FreshFor
<1>2. x \in DOMAIN new /\ new[x] = slots[x]
  BY <1>1
<1>3. mine[slots[x]] = own[slots[x]]
  BY <1>1
<1>4. QED BY <1>1, <1>2, <1>3

\* What is past leads where it did.
LEMMA MetGoes ==
  ASSUME Live \subseteq Live', NEW slots, NEW M, NEW own, MetFor(slots, M, own),
         NEW new, NEW L, L \subseteq M, \A x \in L : new[x] = slots[x],
         NEW mine, \A b \in Live : own[b] = Past => mine[b] = Past /\ succ'[b] = succ[b] /\ alt'[b] = alt[b]
  PROVE  MetFor(new, L, mine)'
<1> SUFFICES ASSUME NEW x \in L
             PROVE  \E b \in Live' : mine[b] = Past /\ new[x] \in {succ'[b], alt'[b]}
  BY DEF MetFor
<1>1. PICK b \in Live : own[b] = Past /\ slots[x] \in {succ[b], alt[b]}
  BY DEF MetFor
<1>2. mine[b] = Past /\ succ'[b] = succ[b] /\ alt'[b] = alt[b]
  BY <1>1
<1>3. QED BY <1>1, <1>2

\* The block that the innermost visit began in.
LEMMA HomeFacts ==
  ASSUME EmitterInv, NEW c, NEW k, NEW own, NEW at, NEW now, TopPath(c, k, own, at, now), current_block \in Live,
         NEW m, m = Len(saves)
  PROVE  /\ m \in Nat /\ k \in Nat \ {0} /\ k <= m + 1 /\ Home(k) \in Live
         /\ c.open => k = m /\ k \in 1..m /\ Home(k) = saves[m]
         /\ ~c.open => k = m + 1 /\ Home(k) = current_block
<1>1. m \in Nat /\ k \in Nat \ {0}
  BY DEF TopPath, EmitterInv, ProtocolInv, ProtocolTypeOK
<1>2. CASE c.open
  <2>1. m + 1 = k + 1
    BY <1>2 DEF TopPath, Opened
  <2>2. k = m /\ k \in 1..m
    BY <1>1, <2>1
  <2>3. Home(k) = saves[m] /\ saves[m] \in Live
    BY <1>1, <2>2 DEF Home, TopPath, StackAt
  <2>4. QED BY <1>1, <1>2, <2>2, <2>3
<1>3. CASE ~c.open
  <2>1. m + 1 = k + 0
    BY <1>3 DEF TopPath, Opened
  <2>2. k = m + 1 /\ ~(k <= m)
    BY <1>1, <2>1
  <2>3. Home(k) = current_block
    BY <2>2 DEF Home
  <2>4. QED BY <1>1, <1>3, <2>2, <2>3
<1>4. QED BY <1>2, <1>3

\* Numbers, with one more.
LEMMA RankedNext ==
  ASSUME EmitterInv, NEW at, NEW now, Ranked(at, now), NEW t \in Block, NEW late,
         late = [b \in Block |-> IF b = t THEN now ELSE at[b]]
  PROVE  /\ Ranked(late, now + 1) /\ late[t] = now
         /\ \A b \in Live : b # t => late[b] = at[b]
         /\ \A b \in Live : at[b] <= late[b] /\ at[b] < now
<1>1. late[t] = now /\ \A b \in Block : b # t => late[b] = at[b]
  OBVIOUS
<1>2. Live \subseteq Block
  BY LiveInBlock
<1>3. \A b \in Block : at[b] \in Nat /\ at[b] < now
  BY Zenon DEF Ranked
<1>4. now \in Nat
  BY DEF Ranked
<1>5. \A b \in Block : late[b] \in Nat /\ late[b] < now + 1 /\ at[b] <= late[b]
  <2> SUFFICES ASSUME NEW b \in Block PROVE late[b] \in Nat /\ late[b] < now + 1 /\ at[b] <= late[b]
    BY Zenon
  <2>1. at[b] \in Nat /\ at[b] < now
    BY <1>3
  <2>2. late[b] = now \/ late[b] = at[b]
    BY <1>1
  <2>3. QED BY <1>4, <2>1, <2>2
<1>6. Ranked(late, now + 1)
  BY <1>4, <1>5 DEF Ranked
<1>7. QED BY <1>1, <1>2, <1>3, <1>5, <1>6, Zenon

\* A new block is fresh.
LEMMA NewBlockPaths ==
  ASSUME EmitterInv, TypesInv, PathsInv, NewBasicBlock
  PROVE  PathsInv'
<1>1. Frame.todo # <<>> /\ Frame.todo[1][1] = "newBasicBlock"
  BY DEF NewBasicBlock, Due
<1>2. PICK n, w, a, cb : n = Len(frames) /\ w = What /\ a = Address /\ cb = current_block
  OBVIOUS
<1>3. phase = "body" /\ proc \in Proc /\ cb \in Live /\ graph[proc] # {}
  BY <1>1, <1>2, DueInVisit, BodyFacts DEF UnitCalls, EmitterInv
<1>4. Add(a) /\ UNCHANGED <<program, saves, insts, succ, alt, stack>>
  BY <1>2 DEF NewBasicBlock, newBasicBlock, SameCode, codeVars2, edgeVars
<1>5. a \in Unused /\ Live' = Live \cup {a} /\ a \notin Live /\ a \in Block
  BY <1>3, <1>4, AddedLive, UnusedClean
<1>6. current_block' = cb /\ \A k : Home(k)' = Home(k)
  <2>1. current_block' = cb
    BY <1>2, <1>4 DEF current_block
  <2>2. QED BY <1>2, <1>4, <2>1 DEF Home
<1>7. \A b \in Live : IsHead(b) => IsHead(b)'
  <2>1. head' = head
    BY <1>3, <1>4 DEF Add
  <2>2. DOMAIN graph = Proc
    BY DEF EmitterInv, ProtocolInv, ProtocolTypeOK, TypeOK
  <2>3. \A p \in Proc : graph[p] \subseteq graph'[p]
    BY <1>4, <2>2 DEF Add
  <2>4. QED BY <2>1, <2>3 DEF IsHead
<1>0. PICK f : f = Made(Tail(Frame.todo), Put(Frame.slots, w, a), Frame.kept)
  OBVIOUS
<1>8. f.node = Frame.node /\ f.todo = Tail(Frame.todo) /\ f.slots = Put(Frame.slots, w, a)
  BY <1>0, FrameFields DEF Made
<1>9. frames' = Continued(f)
  <2>1. frames' = Continued([Rest EXCEPT !.slots = Put(@, w, a)])
    BY <1>2 DEF NewBasicBlock
  <2>2. QED BY <1>0, <2>1, RestForms, FrameOfInv, Zenon DEF EmitterInv
<1>10. Len(frames') = n
  BY <1>2, <1>9, ContinuedFacts DEF EmitterInv
<1>11. PICK old, slots : old = Frame.slots /\ slots = Put(old, w, a)
  OBVIOUS
<1>12. /\ DOMAIN slots = {w} \cup DOMAIN old /\ slots[w] = a
       /\ \A x \in DOMAIN old : x # w => slots[x] = old[x]
  BY <1>11 DEF Put
<1>13. ASSUME NEW c, NEW k, NEW own, NEW at, NEW now, TopPath(c, k, own, at, now)
       PROVE  \E d, mine, late, soon : NextPath(f, c, d, k, own, mine, at, late, soon)
  <2> DEFINE mine == [b \in Block |-> IF b = a THEN FreshAt(n, w) ELSE own[b]]
             late == [b \in Block |-> IF b = a THEN now ELSE at[b]]
  <2>1. mine[a] = FreshAt(n, w) /\ \A b \in Live : mine[b] = own[b]
    BY <1>5, LiveInBlock
  <2> HIDE DEF mine
  <2>2. PICK rank : rank = late
    OBVIOUS
  <2> HIDE DEF late
  <2>3. /\ Ranked(rank, now + 1) /\ \A b \in Live : rank[b] = at[b]
        /\ \A b \in Live : at[b] <= rank[b]
    <3>1. rank = [b \in Block |-> IF b = a THEN now ELSE at[b]]
      BY <2>2 DEF late
    <3>2. QED BY <1>5, <1>13, <3>1, RankedNext DEF TopPath
  <2>4. PICK d : Walks(n, Frame.node, f.todo, d) /\ CallPath(c, d)
    BY <1>1, <1>2, <1>8, <1>13, PathDue DEF TopPath, CallPath, EmitterInv
  <2>5. PathStep(Frame.todo[1], c, d)
    BY <1>1, <2>4, VisitCallPath DEF UnitCalls, ReadCalls
  <2>6. /\ w \notin c.fresh \cup c.due /\ c.met \subseteq c.fresh /\ LedBy(c) = {}
        /\ d = Path(c.fresh \cup {w}, c.due, c.met, {}, {}, c.open)
    BY <1>1, <1>2, <2>5 DEF PathStep, PathFree, What
  <2>7. /\ d.fresh = c.fresh \cup {w} /\ d.due = c.due /\ d.met = c.met
        /\ d.next = {} /\ d.else = {} /\ d.open = c.open
    BY <2>6 DEF Path
  <2>8. \A x \in c.fresh \cup c.due : x # w
    BY <2>6
  <2>9. /\ FreshFor(old, c.fresh, n, own) /\ DueFor(old, c.due, k, at) /\ MetFor(old, c.met, own)
    BY <1>2, <1>11, <1>13 DEF TopPath, Carried
  <2>10. Home(k) \in Live
    BY <1>2, <1>3, <1>13, HomeFacts
  <2>11. \A b \in Live : own[b] = Past => mine[b] = Past /\ succ'[b] = succ[b] /\ alt'[b] = alt[b]
    BY <1>4, <2>1
  <2>12. FreshFor(slots, d.fresh, n, mine)'
    <3> SUFFICES ASSUME NEW x \in d.fresh
                 PROVE  x \in DOMAIN slots /\ slots[x] \in Live' /\ mine[slots[x]] = FreshAt(n, x)
      BY DEF FreshFor
    <3>1. CASE x = w
      BY <1>5, <1>12, <2>1, <3>1
    <3>2. CASE x # w
      <4>1. x \in DOMAIN old /\ old[x] \in Live /\ own[old[x]] = FreshAt(n, x)
        BY <2>7, <2>9, <3>2 DEF FreshFor
      <4>2. mine[old[x]] = own[old[x]]
        BY <2>1, <4>1
      <4>3. QED BY <1>5, <1>12, <3>2, <4>1, <4>2
    <3>3. QED BY <3>1, <3>2
  <2>13. DueFor(slots, d.due, k, rank)'
    <3>1. PICK h : h = Home(k)
      OBVIOUS
    <3>2. Home(k)' = h
      BY <1>6, <3>1
    <3>3. ASSUME NEW x \in d.due
          PROVE  x \in DOMAIN slots /\ slots[x] \in Live' /\ rank[h] < rank[slots[x]]
      <4>1. x \in DOMAIN old /\ old[x] \in Live /\ at[h] < at[old[x]]
        BY <2>7, <2>9, <3>1 DEF DueFor
      <4>2. rank[h] = at[h] /\ rank[old[x]] = at[old[x]]
        BY <2>3, <2>10, <3>1, <4>1
      <4>3. x # w
        BY <2>7, <2>8
      <4>4. QED BY <1>5, <1>12, <4>1, <4>2, <4>3
    <3>4. QED BY <3>2, <3>3 DEF DueFor
  <2>14. MetFor(slots, d.met, mine)'
    <3> SUFFICES ASSUME NEW x \in d.met
                 PROVE  \E b \in Live' : mine[b] = Past /\ slots[x] \in {succ'[b], alt'[b]}
      BY DEF MetFor
    <3>1. PICK b \in Live : own[b] = Past /\ old[x] \in {succ[b], alt[b]}
      BY <2>7, <2>9 DEF MetFor
    <3>2. x \in DOMAIN old /\ x # w
      BY <2>6, <2>7, <2>8, <2>9 DEF FreshFor
    <3>3. slots[x] = old[x]
      BY <1>12, <3>2
    <3>4. QED BY <1>5, <2>11, <3>1, <3>3
  <2>15. Carried(Len(frames), slots, d, k, mine, rank)'
    BY <1>2, <1>10, <2>12, <2>13, <2>14 DEF Carried
  <2>16. LedFor(slots, d)'
    BY <2>7 DEF LedFor
  <2>17. StackAt(mine)'
    <3>1. StackAt(own)
      BY <1>13 DEF TopPath
    <3>2. \A i \in 1..Len(saves) : saves[i] \in Live' /\ mine[saves[i]] = SavedAt(i)
      BY <1>5, <2>1, <3>1 DEF StackAt
    <3>3. mine[cb] = Current
      BY <1>2, <1>3, <2>1, <3>1 DEF StackAt
    <3>4. QED BY <1>4, <1>6, <3>2, <3>3 DEF StackAt
  <2>18. Spares(k, own, mine, at, rank)
    BY <1>4, <1>7, <2>1, <2>3, <2>11 DEF Spares
  <2>19. ASSUME NEW b \in Owes(old, c) PROVE b \in Owes(slots, d)
    <3>1. PICK x \in c.fresh \cup c.due : b = old[x]
      BY <2>19 DEF Owes
    <3>2. x \in DOMAIN old /\ x # w
      BY <2>8, <2>9 DEF FreshFor, DueFor
    <3>3. slots[x] = b /\ x \in d.fresh \cup d.due
      BY <1>12, <2>7, <3>1, <3>2
    <3>4. QED BY <3>3 DEF Owes
  <2>20. a \in Owes(slots, d)
    BY <1>12, <2>7 DEF Owes
  <2>21. Len(saves') + 1 = k + Opened(d)
    BY <1>4, <1>13, <2>7 DEF TopPath, Opened
  <2>22. Live' \ Live = {a} /\ f.slots = slots
    BY <1>5, <1>8, <1>11
  <2>23. NextPath(f, c, d, k, own, mine, at, rank, now + 1)
    BY <1>2, <1>11, <2>3, <2>4, <2>15, <2>16, <2>17, <2>18, <2>19, <2>20, <2>21, <2>22 DEF NextPath
  <2>24. QED BY <2>23
<1>14. Live \subseteq Live'
  BY <1>5
<1>15. QED BY <1>8, <1>9, <1>13, <1>14, PathsStep

---------------------------------------------------------------------------
(* Going on in another block, t.                                           *)

\* The context, places and numbers then, and what the other visits are spared.
MovedTo(t, n, slots, c, d, k, own, mine, at, late, soon) ==
  /\ LedBy(d) = {} /\ Len(saves') + 1 = k + Opened(d) /\ Ranked(late, soon)
  /\ mine[t] = Current /\ \A j \in 1..Len(saves') : saves'[j] \in Live /\ mine[saves'[j]] = SavedAt(j)
  /\ FreshFor(slots, d.fresh, n, mine)' /\ DueFor(slots, d.due, k, late)' /\ MetFor(slots, d.met, mine)'
  /\ \A b \in Live : \A i, x : own[b] = FreshAt(i, x) /\ i # n => mine[b] = own[b]
  /\ \A b \in Live : own[b] = Past => mine[b] = Past
  /\ \A b \in Live : at[b] <= late[b]
  /\ \A b \in Live : (\A i, x : own[b] # FreshAt(i, x)) => late[b] = at[b]
  /\ \A j \in 1..Len(saves) : j < k => j <= Len(saves') /\ saves'[j] = saves[j]
  /\ \A b \in Owes(slots, c) : b \in Owes(slots, d) \/ Reached(b, mine, late)

\* Going on in block t keeps the paths when the context moves as MovedTo says.
LEMMA MovePaths ==
  ASSUME EmitterInv, PathsInv, Frame.todo # <<>>, Frame.todo[1][1] \notin UnitCalls \cup ReadCalls,
         Proceed, UNCHANGED <<graph, head, succ, alt>>, NEW t \in Live, current_block' = t,
         NEW n, n = Len(frames), NEW slots, slots = Frame.slots,
         \A c, d, k, own, at, now : TopPath(c, k, own, at, now) /\ PathStep(Frame.todo[1], c, d) =>
           \E mine, late, soon : MovedTo(t, n, slots, c, d, k, own, mine, at, late, soon)
  PROVE  PathsInv'
<1>1. PICK f : f = Made(Tail(Frame.todo), Frame.slots, Frame.kept)
  OBVIOUS
<1>2. /\ frames' = Continued(f) /\ Len(frames') = n
      /\ f.node = Frame.node /\ f.todo = Tail(Frame.todo) /\ f.slots = slots
  BY <1>1, ProceedFrame DEF EmitterInv
<1>3. Live' = Live /\ \A b : IsHead(b)' <=> IsHead(b)
  BY DEF Live, IsHead
<1>4. ASSUME NEW c, NEW k, NEW own, NEW at, NEW now, TopPath(c, k, own, at, now)
      PROVE  \E d, mine, late, soon : NextPath(f, c, d, k, own, mine, at, late, soon)
  <2>1. PICK d : Walks(n, Frame.node, f.todo, d) /\ CallPath(c, d)
    BY <1>2, <1>4, PathDue DEF TopPath, CallPath, EmitterInv
  <2>2. PathStep(Frame.todo[1], c, d)
    BY <2>1, VisitCallPath
  <2>3. PICK mine, late, soon : MovedTo(t, n, slots, c, d, k, own, mine, at, late, soon)
    BY <1>4, <2>2
  <2>4. Carried(Len(frames), slots, d, k, mine, late)'
    BY <1>2, <2>3 DEF MovedTo, Carried
  <2>5. LedFor(slots, d)'
    BY <2>3 DEF MovedTo, LedFor, LedBy
  <2>6. StackAt(mine)'
    BY <1>3, <2>3 DEF MovedTo, StackAt
  <2>7. Spares(k, own, mine, at, late)
    BY <1>3, <2>3 DEF MovedTo, Spares
  <2>8. \A b : Reached(b, mine, late) => Reached(b, mine, late)'
    BY <1>3 DEF Reached
  <2>9. \A b \in Owes(Frame.slots, c) : b \in Owes(f.slots, d) \/ Reached(b, mine, late)'
    BY <1>2, <2>3, <2>8 DEF MovedTo
  <2>10. Len(saves') + 1 = k + Opened(d) /\ Ranked(late, soon)
    BY <2>3 DEF MovedTo
  <2>11. NextPath(f, c, d, k, own, mine, at, late, soon)
    BY <1>2, <1>3, <2>1, <2>4, <2>5, <2>6, <2>7, <2>9, <2>10 DEF NextPath
  <2>12. QED BY <2>11
<1>5. Live \subseteq Live'
  BY <1>3
<1>6. QED BY <1>2, <1>4, <1>5, PathsStep

\* What is known of the visit's blocks.
LEMMA TopFacts ==
  ASSUME NEW c, NEW k, NEW own, NEW at, NEW now, TopPath(c, k, own, at, now),
         NEW n, n = Len(frames), NEW slots, slots = Frame.slots, NEW cb \in Live, cb = current_block
  PROVE  /\ FreshFor(slots, c.fresh, n, own) /\ DueFor(slots, c.due, k, at) /\ MetFor(slots, c.met, own)
         /\ own[cb] = Current /\ \A j \in 1..Len(saves) : saves[j] \in Live /\ own[saves[j]] = SavedAt(j)
         /\ Ranked(at, now)
         /\ \A x \in LedBy(c) : slots[x] \in {succ[cb], alt[cb]}
<1>1. FreshFor(slots, c.fresh, n, own) /\ DueFor(slots, c.due, k, at) /\ MetFor(slots, c.met, own)
  BY DEF TopPath, Carried
<1>2. own[cb] = Current /\ \A j \in 1..Len(saves) : saves[j] \in Live /\ own[saves[j]] = SavedAt(j)
  BY DEF TopPath, StackAt
<1>3. \A x \in LedBy(c) : slots[x] \in {succ[cb], alt[cb]}
  BY DEF TopPath, LedFor, LedBy
<1>4. QED BY <1>1, <1>2, <1>3 DEF TopPath

\* A block is entered above the one it begins in, which waits.
LEMMA SavePaths ==
  ASSUME EmitterInv, PathsInv, SaveAndEntry
  PROVE  PathsInv'
<1>1. Frame.todo # <<>> /\ Frame.todo[1][1] = "save_and_entry" /\ What = Frame.todo[1][2]
  BY DEF SaveAndEntry, Due, What
<1>2. PICK n, w, t, cb, m, slots : n = Len(frames) /\ w = What /\ t = Slot(w) /\ cb = current_block /\ m = Len(saves)
                                     /\ slots = Frame.slots
  OBVIOUS
<1>3. /\ cb \in Live /\ cb \in Block /\ t \in Live /\ t \in Block /\ current_block' = t /\ Proceed
      /\ UNCHANGED <<program, graph, head, insts, succ, alt>>
      /\ m \in Nat /\ Len(saves') = m + 1 /\ saves'[m + 1] = cb
      /\ \A k \in 1..m : saves'[k] = saves[k]
  BY <1>2, SavedBlock
<1>4. t = slots[w] /\ Live' = Live
  BY <1>2, <1>3 DEF Slot, Live
<1>5. ASSUME NEW c, NEW d, NEW k, NEW own, NEW at, NEW now, TopPath(c, k, own, at, now), PathStep(Frame.todo[1], c, d)
      PROVE  \E mine, late, soon : MovedTo(t, n, slots, c, d, k, own, mine, at, late, soon)
  <2>1. /\ w \in c.fresh /\ LedBy(c) = {} /\ ~c.open
        /\ d = Path(c.fresh \ {w}, c.due \cup ({w} \ c.met), c.met \ {w}, {}, {}, TRUE)
    BY <1>1, <1>2, <1>5 DEF PathStep, PathFree
  <2>2. /\ d.fresh = c.fresh \ {w} /\ d.due = c.due \cup ({w} \ c.met) /\ d.met = c.met \ {w}
        /\ LedBy(d) = {} /\ d.open = TRUE
    BY <2>1 DEF Path, LedBy
  <2>3. /\ FreshFor(slots, c.fresh, n, own) /\ DueFor(slots, c.due, k, at) /\ MetFor(slots, c.met, own)
        /\ own[cb] = Current /\ \A j \in 1..m : saves[j] \in Live /\ own[saves[j]] = SavedAt(j)
        /\ Ranked(at, now)
    BY <1>2, <1>3, <1>5, TopFacts
  <2>4. own[t] = FreshAt(n, w) /\ w \in DOMAIN slots
    BY <1>4, <2>1, <2>3 DEF FreshFor
  <2>5. k = m + 1 /\ k \in Nat /\ Home(k) = cb
    BY <1>2, <1>3, <1>5, <2>1, HomeFacts
  <2> DEFINE mine == [b \in Block |-> IF b = t THEN Current ELSE IF b = cb THEN SavedAt(k) ELSE own[b]]
             late == [b \in Block |-> IF b = t THEN now ELSE at[b]]
  <2>6. t # cb
    BY <2>3, <2>4, PlacesDiffer
  <2>7. mine[t] = Current /\ mine[cb] = SavedAt(k) /\ \A b \in Live : b # t /\ b # cb => mine[b] = own[b]
    BY <1>3, <2>6, LiveInBlock
  <2> HIDE DEF mine
  <2>8. PICK rank : rank = late
    OBVIOUS
  <2> HIDE DEF late
  <2>9. /\ Ranked(rank, now + 1) /\ rank[t] = now
        /\ \A b \in Live : b # t => rank[b] = at[b]
        /\ \A b \in Live : at[b] <= rank[b] /\ at[b] < now
    <3>1. rank = [b \in Block |-> IF b = t THEN now ELSE at[b]]
      BY <2>8 DEF late
    <3>2. QED BY <1>3, <2>3, <3>1, RankedNext
  <2>10. \A b \in Live : own[b] = Past => mine[b] = Past
    BY <2>3, <2>4, <2>7, PastApart
  <2>11. FreshFor(slots, d.fresh, n, mine)'
    <3>1. \A b \in Live : \A x \in d.fresh : own[b] = FreshAt(n, x) => mine[b] = own[b]
      BY <2>2, <2>3, <2>4, <2>7, PlacesDiffer
    <3>2. d.fresh \subseteq c.fresh
      BY <2>2
    <3>3. QED BY <1>4, <2>3, <3>1, <3>2, FreshGoes
  <2>12. MetFor(slots, d.met, mine)'
    <3>1. d.met \subseteq c.met
      BY <2>2
    <3>2. \A b \in Live : own[b] = Past => mine[b] = Past /\ succ'[b] = succ[b] /\ alt'[b] = alt[b]
      BY <1>3, <2>10
    <3>3. QED BY <1>4, <2>3, <3>1, <3>2, MetGoes
  <2>13. DueFor(slots, d.due, k, rank)'
    <3>1. Home(k)' = cb
      BY <1>3, <2>5 DEF Home
    <3>2. rank[cb] = at[cb] /\ at[cb] < now
      BY <1>3, <2>6, <2>9
    <3>3. ASSUME NEW x \in d.due
          PROVE  x \in DOMAIN slots /\ slots[x] \in Live /\ rank[cb] < rank[slots[x]]
      <4>1. CASE x = w
        BY <1>3, <1>4, <2>4, <2>9, <3>2, <4>1
      <4>2. CASE x # w
        <5>1. PICK b : b = slots[x]
          OBVIOUS
        <5>2. x \in DOMAIN slots /\ b \in Live /\ at[cb] < at[b]
          BY <2>2, <2>3, <2>5, <4>2, <5>1 DEF DueFor
        <5>3. at[b] <= rank[b] /\ at[b] \in Nat /\ at[cb] \in Nat /\ rank[b] \in Nat
          <6>1. b \in Block
            BY <5>2, LiveInBlock
          <6>2. QED BY <1>3, <2>3, <2>9, <5>2, <6>1 DEF Ranked
        <5>4. QED BY <3>2, <5>1, <5>2, <5>3
      <4>3. QED BY <4>1, <4>2
    <3>4. QED BY <1>4, <3>1, <3>3 DEF DueFor
  <2>14. ASSUME NEW b \in Owes(slots, c) PROVE b \in Owes(slots, d) \/ Reached(b, mine, rank)
    <3>1. PICK x \in c.fresh \cup c.due : b = slots[x]
      BY DEF Owes
    <3>2. CASE x \in d.fresh \cup d.due
      BY <3>1, <3>2 DEF Owes
    <3>3. CASE x \notin d.fresh \cup d.due
      <4>1. x = w /\ w \in c.met /\ b = t
        BY <1>4, <2>2, <3>1, <3>3
      <4>2. PICK a \in Live : own[a] = Past /\ t \in {succ[a], alt[a]}
        BY <1>4, <2>3, <4>1 DEF MetFor
      <4>3. mine[a] = Past /\ a # t
        BY <2>4, <2>10, <4>2, PastApart
      <4>4. rank[a] < rank[t]
        BY <2>9, <4>2, <4>3
      <4>5. QED BY <4>1, <4>2, <4>3, <4>4 DEF Reached
    <3>4. QED BY <3>2, <3>3
  <2>15. ASSUME NEW j \in 1..Len(saves') PROVE saves'[j] \in Live /\ mine[saves'[j]] = SavedAt(j)
    <3>1. CASE j = m + 1
      BY <1>3, <2>5, <2>7, <3>1
    <3>2. CASE j # m + 1
      <4>1. j \in 1..m
        BY <1>3, <3>2
      <4>2. saves'[j] = saves[j] /\ saves[j] \in Live /\ own[saves[j]] = SavedAt(j)
        BY <1>3, <2>3, <4>1
      <4>3. saves[j] # t /\ saves[j] # cb
        BY <2>3, <2>4, <4>2, PlacesDiffer
      <4>4. QED BY <2>7, <4>2, <4>3
    <3>3. QED BY <3>1, <3>2
  <2>16. \A b \in Live : \A i, x : own[b] = FreshAt(i, x) /\ i # n => mine[b] = own[b]
    BY <2>3, <2>4, <2>7, PlacesDiffer
  <2>17. \A b \in Live : (\A i, x : own[b] # FreshAt(i, x)) => rank[b] = at[b]
    BY <2>4, <2>9
  <2>18. \A j \in 1..Len(saves) : j < k => j <= Len(saves') /\ saves'[j] = saves[j]
    BY <1>2, <1>3, <2>5
  <2>19. Len(saves') + 1 = k + Opened(d)
    BY <1>3, <2>2, <2>5 DEF Opened
  <2>20. MovedTo(t, n, slots, c, d, k, own, mine, at, rank, now + 1)
    BY <2>2, <2>7, <2>9, <2>10, <2>11, <2>12, <2>13, <2>14, <2>15, <2>16, <2>17, <2>18, <2>19 DEF MovedTo
  <2>21. QED BY <2>20
<1>6. Frame.todo[1][1] \notin UnitCalls \cup ReadCalls
  BY <1>1 DEF UnitCalls, ReadCalls
<1>7. QED BY <1>1, <1>2, <1>3, <1>5, <1>6, MovePaths

\* The saved block is gone on with, and the current one left for good.
LEMMA PopPaths ==
  ASSUME EmitterInv, PathsInv, PopBlock
  PROVE  PathsInv'
<1>1. Frame.todo # <<>> /\ Frame.todo[1][1] = "pop_block"
  BY DEF PopBlock, Due
<1>2. PICK n, cb, m, t, slots : n = Len(frames) /\ cb = current_block /\ m = Len(saves) /\ t = saves[m]
                                  /\ slots = Frame.slots
  OBVIOUS
<1>3. /\ cb \in Live /\ cb \in Block /\ t \in Live /\ t \in Block /\ current_block' = t /\ Proceed
      /\ UNCHANGED <<program, graph, head, insts, succ, alt>>
      /\ m \in Nat /\ m \in 1..m /\ Len(saves') = m - 1
      /\ \A k \in 1..(m - 1) : saves'[k] = saves[k] /\ k \in 1..m /\ k # m
  BY <1>2, RestoredBlock
<1>4. Live' = Live
  BY <1>3 DEF Live
<1>5. ASSUME NEW c, NEW d, NEW k, NEW own, NEW at, NEW now, TopPath(c, k, own, at, now), PathStep(Frame.todo[1], c, d)
      PROVE  \E mine, late, soon : MovedTo(t, n, slots, c, d, k, own, mine, at, late, soon)
  <2>1. c.open /\ d = Path(c.fresh, c.due, c.met \cup (LedBy(c) \cap c.fresh), {}, {}, FALSE)
    BY <1>1, <1>5 DEF PathStep, PathFree
  <2>2. /\ d.fresh = c.fresh /\ d.due = c.due /\ d.met = c.met \cup (LedBy(c) \cap c.fresh)
        /\ LedBy(d) = {} /\ d.open = FALSE
    BY <2>1 DEF Path, LedBy
  <2>3. /\ FreshFor(slots, c.fresh, n, own) /\ DueFor(slots, c.due, k, at) /\ MetFor(slots, c.met, own)
        /\ own[cb] = Current /\ \A j \in 1..m : saves[j] \in Live /\ own[saves[j]] = SavedAt(j)
        /\ Ranked(at, now)
        /\ \A x \in LedBy(c) : slots[x] \in {succ[cb], alt[cb]}
    BY <1>2, <1>3, <1>5, TopFacts
  <2>4. k = m /\ k \in Nat /\ Home(k) = t /\ own[t] = SavedAt(m)
    BY <1>2, <1>3, <1>5, <2>1, <2>3, HomeFacts
  <2> DEFINE mine == [b \in Block |-> IF b = t THEN Current ELSE IF b = cb THEN Past ELSE own[b]]
  <2>6. t # cb
    BY <2>3, <2>4, PlacesDiffer
  <2>7. mine[t] = Current /\ mine[cb] = Past /\ \A b \in Live : b # t /\ b # cb => mine[b] = own[b]
    BY <1>3, <2>6, LiveInBlock
  <2> HIDE DEF mine
  <2>10. \A b \in Live : own[b] = Past => mine[b] = Past
    BY <2>3, <2>4, <2>7, PastApart
  <2>11. FreshFor(slots, d.fresh, n, mine)'
    <3>1. \A b \in Live : \A x \in d.fresh : own[b] = FreshAt(n, x) => mine[b] = own[b]
      BY <2>2, <2>3, <2>4, <2>7, PlacesDiffer
    <3>2. d.fresh \subseteq c.fresh
      BY <2>2
    <3>3. QED BY <1>4, <2>3, <3>1, <3>2, FreshGoes
  <2>12. MetFor(slots, d.met, mine)'
    <3>1. MetFor(slots, c.met, mine)'
      <4>1. \A b \in Live : own[b] = Past => mine[b] = Past /\ succ'[b] = succ[b] /\ alt'[b] = alt[b]
        BY <1>3, <2>10
      <4>2. QED BY <1>4, <2>3, <4>1, MetGoes
    <3>2. ASSUME NEW x \in d.met
          PROVE  \E b \in Live : mine[b] = Past /\ slots[x] \in {succ'[b], alt'[b]}
      <4>1. CASE x \in c.met
        BY <1>4, <3>1, <4>1 DEF MetFor
      <4>2. CASE x \in LedBy(c)
        BY <1>3, <2>3, <2>7, <4>2
      <4>3. QED BY <2>2, <4>1, <4>2
    <3>3. QED BY <1>4, <3>2 DEF MetFor
  <2>13. DueFor(slots, d.due, k, at)'
    <3>1. Home(k)' = t
      <4>1. ~(k <= Len(saves'))
        BY <1>3, <2>4
      <4>2. QED BY <1>3, <4>1 DEF Home
    <3>2. QED BY <1>4, <2>2, <2>3, <2>4, <3>1 DEF DueFor
  <2>14. Owes(slots, c) = Owes(slots, d)
    BY <2>2 DEF Owes
  <2>15. ASSUME NEW j \in 1..Len(saves') PROVE saves'[j] \in Live /\ mine[saves'[j]] = SavedAt(j)
    <3>1. saves'[j] = saves[j] /\ j \in 1..m /\ j # m
      BY <1>3
    <3>2. saves[j] \in Live /\ own[saves[j]] = SavedAt(j)
      BY <2>3, <3>1
    <3>3. saves[j] # t /\ saves[j] # cb
      BY <2>3, <2>4, <3>1, <3>2, PlacesDiffer
    <3>4. QED BY <2>7, <3>1, <3>2, <3>3
  <2>16. \A b \in Live : \A i, x : own[b] = FreshAt(i, x) /\ i # n => mine[b] = own[b]
    BY <2>3, <2>4, <2>7, PlacesDiffer
  <2>17. \A b \in Live : at[b] <= at[b]
    BY <2>3, SameRank
  <2>18. ASSUME NEW j \in 1..Len(saves), j < k PROVE j <= Len(saves') /\ saves'[j] = saves[j]
    <3>1. j \in 1..(m - 1) /\ j <= m - 1
      BY <1>2, <1>3, <2>4, <2>18
    <3>2. QED BY <1>3, <3>1
  <2>19. Len(saves') + 1 = k + Opened(d)
    BY <1>3, <2>2, <2>4 DEF Opened
  <2>20. MovedTo(t, n, slots, c, d, k, own, mine, at, at, now)
    BY <2>2, <2>3, <2>7, <2>10, <2>11, <2>12, <2>13, <2>14, <2>15, <2>16, <2>17, <2>18, <2>19 DEF MovedTo
  <2>21. QED BY <2>20
<1>6. Frame.todo[1][1] \notin UnitCalls \cup ReadCalls
  BY <1>1 DEF UnitCalls, ReadCalls
<1>7. QED BY <1>1, <1>2, <1>3, <1>5, <1>6, MovePaths

\* A block is entered that something leads to, when nothing is due any more.
LEMMA EntryPaths ==
  ASSUME EmitterInv, PathsInv, EntryBlock
  PROVE  PathsInv'
<1>1. Frame.todo # <<>> /\ Frame.todo[1][1] = "entry_block" /\ What = Frame.todo[1][2]
  BY DEF EntryBlock, Due, What
<1>2. PICK n, w, t, cb, m, slots : n = Len(frames) /\ w = What /\ t = Slot(w) /\ cb = current_block /\ m = Len(saves)
                                     /\ slots = Frame.slots
  OBVIOUS
<1>3. /\ cb \in Live /\ cb \in Block /\ t \in Live /\ t \in Block /\ current_block' = t /\ Proceed
      /\ UNCHANGED <<program, graph, head, saves, insts, succ, alt>>
  BY <1>2, EnteredBlock
<1>4. t = slots[w] /\ Live' = Live
  BY <1>2, <1>3 DEF Slot, Live
<1>5. ASSUME NEW c, NEW d, NEW k, NEW own, NEW at, NEW now, TopPath(c, k, own, at, now), PathStep(Frame.todo[1], c, d)
      PROVE  \E mine, late, soon : MovedTo(t, n, slots, c, d, k, own, mine, at, late, soon)
  <2>1. /\ w \in c.fresh /\ w \in c.met \cup LedBy(c) /\ c.due \subseteq LedBy(c) /\ ~c.open
        /\ d = Path(c.fresh \ {w}, {}, (c.met \cup (LedBy(c) \cap c.fresh)) \ {w}, {}, {}, FALSE)
    BY <1>1, <1>2, <1>5 DEF PathStep, PathFree
  <2>2. /\ d.fresh = c.fresh \ {w} /\ d.due = {} /\ d.met = (c.met \cup (LedBy(c) \cap c.fresh)) \ {w}
        /\ LedBy(d) = {} /\ d.open = FALSE
    BY <2>1 DEF Path, LedBy
  <2>3. /\ FreshFor(slots, c.fresh, n, own) /\ DueFor(slots, c.due, k, at) /\ MetFor(slots, c.met, own)
        /\ own[cb] = Current /\ \A j \in 1..m : saves[j] \in Live /\ own[saves[j]] = SavedAt(j)
        /\ Ranked(at, now)
        /\ \A x \in LedBy(c) : slots[x] \in {succ[cb], alt[cb]}
    BY <1>2, <1>3, <1>5, TopFacts
  <2>4. own[t] = FreshAt(n, w)
    BY <1>4, <2>1, <2>3 DEF FreshFor
  <2>5. m \in Nat /\ k = m + 1 /\ k \in Nat /\ Home(k) = cb
    BY <1>2, <1>3, <1>5, <2>1, HomeFacts
  <2> DEFINE mine == [b \in Block |-> IF b = t THEN Current ELSE IF b = cb THEN Past ELSE own[b]]
             late == [b \in Block |-> IF b = t THEN now ELSE at[b]]
  <2>6. t # cb
    BY <2>3, <2>4, PlacesDiffer
  <2>7. mine[t] = Current /\ mine[cb] = Past /\ \A b \in Live : b # t /\ b # cb => mine[b] = own[b]
    BY <1>3, <2>6, LiveInBlock
  <2> HIDE DEF mine
  <2>8. PICK rank : rank = late
    OBVIOUS
  <2> HIDE DEF late
  <2>9. /\ Ranked(rank, now + 1) /\ rank[t] = now
        /\ \A b \in Live : b # t => rank[b] = at[b]
        /\ \A b \in Live : at[b] <= rank[b] /\ at[b] < now
    <3>1. rank = [b \in Block |-> IF b = t THEN now ELSE at[b]]
      BY <2>8 DEF late
    <3>2. QED BY <1>3, <2>3, <3>1, RankedNext
  <2>10. \A b \in Live : own[b] = Past => mine[b] = Past
    BY <2>3, <2>4, <2>7, PastApart
  <2>11. FreshFor(slots, d.fresh, n, mine)'
    <3>1. \A b \in Live : \A x \in d.fresh : own[b] = FreshAt(n, x) => mine[b] = own[b]
      BY <2>2, <2>3, <2>4, <2>7, PlacesDiffer
    <3>2. d.fresh \subseteq c.fresh
      BY <2>2
    <3>3. QED BY <1>4, <2>3, <3>1, <3>2, FreshGoes
  <2>12. MetFor(slots, d.met, mine)'
    <3>1. MetFor(slots, c.met, mine)'
      <4>1. \A b \in Live : own[b] = Past => mine[b] = Past /\ succ'[b] = succ[b] /\ alt'[b] = alt[b]
        BY <1>3, <2>10
      <4>2. QED BY <1>4, <2>3, <4>1, MetGoes
    <3>2. ASSUME NEW x \in d.met
          PROVE  \E b \in Live : mine[b] = Past /\ slots[x] \in {succ'[b], alt'[b]}
      <4>1. CASE x \in c.met
        BY <1>4, <3>1, <4>1 DEF MetFor
      <4>2. CASE x \in LedBy(c)
        BY <1>3, <2>3, <2>7, <4>2
      <4>3. QED BY <2>2, <4>1, <4>2
    <3>3. QED BY <1>4, <3>2 DEF MetFor
  <2>13. DueFor(slots, d.due, k, rank)'
    BY <2>2 DEF DueFor
  <2>14. ASSUME NEW b \in Owes(slots, c) PROVE b \in Owes(slots, d) \/ Reached(b, mine, rank)
    <3>1. PICK x \in c.fresh \cup c.due : b = slots[x]
      BY DEF Owes
    <3>2. rank[cb] = at[cb] /\ at[cb] < now
      BY <1>3, <2>6, <2>9
    <3>3. CASE x \in c.fresh /\ x # w
      BY <2>2, <3>1, <3>3 DEF Owes
    <3>4. CASE x = w /\ w \in LedBy(c)
      BY <1>3, <1>4, <2>3, <2>7, <2>9, <3>1, <3>2, <3>4 DEF Reached
    <3>5. CASE x = w /\ w \in c.met
      <4>1. b = t
        BY <1>4, <3>1, <3>5
      <4>2. PICK a \in Live : own[a] = Past /\ t \in {succ[a], alt[a]}
        BY <1>4, <2>3, <3>5 DEF MetFor
      <4>3. mine[a] = Past /\ a # t
        BY <2>4, <2>10, <4>2, PastApart
      <4>4. rank[a] < rank[t]
        BY <2>9, <4>2, <4>3
      <4>5. QED BY <4>1, <4>2, <4>3, <4>4 DEF Reached
    <3>6. CASE x \in c.due
      <4>1. b \in Live /\ at[cb] < at[b]
        BY <2>3, <2>5, <3>1, <3>6 DEF DueFor
      <4>2. at[b] <= rank[b] /\ at[b] \in Nat /\ at[cb] \in Nat /\ rank[b] \in Nat
        <5>1. b \in Block
          BY <4>1, LiveInBlock
        <5>2. QED BY <1>3, <2>3, <2>9, <4>1, <5>1 DEF Ranked
      <4>3. rank[cb] < rank[b]
        BY <3>2, <4>1, <4>2
      <4>4. b \in {succ[cb], alt[cb]}
        BY <2>1, <2>3, <3>1, <3>6
      <4>5. QED BY <1>3, <2>7, <4>3, <4>4 DEF Reached
    <3>7. QED BY <2>1, <3>1, <3>3, <3>4, <3>5, <3>6
  <2>15. ASSUME NEW j \in 1..Len(saves') PROVE saves'[j] \in Live /\ mine[saves'[j]] = SavedAt(j)
    <3>1. saves'[j] = saves[j] /\ saves[j] \in Live /\ own[saves[j]] = SavedAt(j)
      BY <1>2, <1>3, <2>3
    <3>2. saves[j] # t /\ saves[j] # cb
      BY <2>3, <2>4, <3>1, PlacesDiffer
    <3>3. QED BY <2>7, <3>1, <3>2
  <2>16. \A b \in Live : \A i, x : own[b] = FreshAt(i, x) /\ i # n => mine[b] = own[b]
    BY <2>3, <2>4, <2>7, PlacesDiffer
  <2>17. \A b \in Live : (\A i, x : own[b] # FreshAt(i, x)) => rank[b] = at[b]
    BY <2>4, <2>9
  <2>18. \A j \in 1..Len(saves) : j < k => j <= Len(saves') /\ saves'[j] = saves[j]
    BY <1>2, <1>3, <2>5
  <2>19. Len(saves') + 1 = k + Opened(d)
    BY <1>2, <1>3, <2>2, <2>5 DEF Opened
  <2>20. MovedTo(t, n, slots, c, d, k, own, mine, at, rank, now + 1)
    BY <2>2, <2>7, <2>9, <2>10, <2>11, <2>12, <2>13, <2>14, <2>15, <2>16, <2>17, <2>18, <2>19 DEF MovedTo
  <2>21. QED BY <2>20
<1>6. Frame.todo[1][1] \notin UnitCalls \cup ReadCalls
  BY <1>1 DEF UnitCalls, ReadCalls
<1>7. QED BY <1>1, <1>2, <1>3, <1>5, <1>6, MovePaths

---------------------------------------------------------------------------
(* Visits begin, and blocks are reached as before.                         *)

\* The part that is visited is a node.
LEMMA KidIsNode ==
  ASSUME EmitterInv, Frame.todo # <<>>, Frame.todo[1][1] = "visit"
  PROVE  IsNode(Frame.node.kids[Frame.todo[1][2]])
<1>1. Len(frames) > 1
  BY DueInVisit DEF EmitterInv, UnitCalls
<1>2. PICK c, s, l : TopState(c, s, l)
  BY <1>1, FrameFacts DEF EmitterInv
<1>3. PICK d : Typed("visit", Frame.node, Frame.todo[1], c, d)
  BY <1>2, CallFacts
<1>4. NodeCall(Frame.node, Frame.todo[1], c, d)
  BY <1>3 DEF Typed, ReadCalls
<1>5. Frame.todo[1][2] \in DOMAIN Frame.node.kids
  BY <1>4, Zenon DEF NodeCall
<1>6. PICK loop : <<Frame.node, loop>> \in Nodes
  BY <1>2 DEF TopState, FrameOK
<1>7. QED BY <1>5, <1>6, ProgramsAssumption DEF WellFormed, IsNode

\* The body that is visited is a node.
LEMMA BodyIsNode ==
  ASSUME EmitterInv, Frame.todo # <<>>, Frame.todo[1][1] = "body"
  PROVE  IsNode(IF What = "main" THEN program.main ELSE program.funcs[What].body)
<1>1. Len(frames) = 1
  BY DueInUnit DEF EmitterInv, UnitCalls
<1>2. PICK d : UnitCall(program, Frame.todo[1], phase, d)
  BY <1>1, UnitFacts DEF EmitterInv
<1>3. IsFunction(program, What)
  BY <1>2 DEF UnitCall, What
<1>4. QED BY <1>3, ProgramsAssumption DEF IsFunction, BodiesAmong, EmitterInv, IsNode
---------------------------------------------------------------------------
(* Visits that begin and end.                                              *)

\* Neither blocks nor frames change.
LEMMA PathsStay ==
  ASSUME PathsInv, frames' = frames, SameBlocks
  PROVE  PathsInv'
<1>1. PICK ctx, pos, own, at, now : PathFrames(ctx, pos) /\ Ranked(at, now) /\ PathBlocks(ctx, pos, own, at)
  BY DEF PathsInv
<1>2. PathFrames(ctx, pos)'
  BY <1>1 DEF PathFrames, SameBlocks
<1>3. PathBlocks(ctx, pos, own, at)'
  <2>1. Live' = Live /\ current_block' = current_block /\ Frame' = Frame
    BY DEF Live, current_block, Frame, SameBlocks
  <2>2. StackAt(own)'
    BY <1>1, <2>1 DEF PathBlocks, StackAt, SameBlocks
  <2>3. \A i, slots, c, k : Carried(i, slots, c, k, own, at) => Carried(i, slots, c, k, own, at)'
    BY <2>1 DEF Carried, FreshFor, DueFor, MetFor, Home, SameBlocks
  <2>4. \A b : Reached(b, own, at) => Reached(b, own, at)'
    BY <2>1 DEF Reached, IsHead, SameBlocks
  <2>5. LedFor(Frame.slots, ctx[Len(frames)])'
    BY <1>1, <2>1 DEF PathBlocks, LedFor, SameBlocks
  <2>6. \A i \in 1..Len(frames) : Carried(i, frames[i].slots, ctx[i], pos[i], own, at)'
    <3> SUFFICES ASSUME NEW i \in 1..Len(frames) PROVE Carried(i, frames[i].slots, ctx[i], pos[i], own, at)'
      OBVIOUS
    <3>1. PICK slots, c, k : slots = frames[i].slots /\ c = ctx[i] /\ k = pos[i]
      OBVIOUS
    <3>2. Carried(i, slots, c, k, own, at)'
      BY <1>1, <2>3, <3>1 DEF PathBlocks
    <3>3. QED BY <3>1, <3>2 DEF Carried, FreshFor, DueFor, MetFor
  <2>7. QED BY <1>1, <2>1, <2>2, <2>4, <2>5, <2>6 DEF PathBlocks
<1>4. QED BY <1>1, <1>2, <1>3 DEF PathsInv

\* A step that changes nothing.
LEMMA StillPaths ==
  ASSUME PathsInv, ReadNowhere \/ UNCHANGED allVars
  PROVE  PathsInv'
<1>1. UNCHANGED protocolVars /\ frames' = frames
  BY DEF ReadNowhere, Finding, Aside, allVars, emitterVars, codeVars2
<1>2. QED BY <1>1, KeptBlocks, PathsStay

\* The blocks of a frame, when no block changes.
LEMMA CarriedSame ==
  ASSUME SameBlocks, NEW i, NEW slots, NEW c, NEW k, NEW own, NEW at, Carried(i, slots, c, k, own, at)
  PROVE  Carried(i, slots, c, k, own, at)'
<1>1. Live' = Live /\ current_block' = current_block
  BY DEF Live, current_block, SameBlocks
<1>2. QED BY <1>1 DEF Carried, FreshFor, DueFor, MetFor, Home, SameBlocks

\* A step that leaves blocks and edges alone leaves what is reached.
LEMMA ReachedSame ==
  ASSUME SameBlocks, NEW own, NEW at
  PROVE  /\ Live' = Live /\ \A b : Reached(b, own, at)' <=> Reached(b, own, at)
         /\ StackAt(own) => StackAt(own)'
<1>1. Live' = Live /\ current_block' = current_block
  BY DEF Live, current_block, SameBlocks
<1>2. QED BY <1>1 DEF Reached, IsHead, StackAt, SameBlocks

\* With nothing open nothing is asked.
LEMMA NilFacts ==
  /\ Nil.fresh = {} /\ Nil.due = {} /\ Nil.met = {} /\ Nil.next = {} /\ Nil.else = {} /\ Nil.open = FALSE
  /\ LedBy(Nil) = {} /\ Resting(Nil) /\ Opened(Nil) = 0
<1>1. Nil.fresh = {} /\ Nil.due = {} /\ Nil.met = {} /\ Nil.next = {} /\ Nil.else = {} /\ Nil.open = FALSE
  BY DEF Nil, Path
<1>2. QED BY <1>1 DEF LedBy, Resting, Opened

\* A visit begins with nothing of its own.
LEMMA NilCarried ==
  ASSUME NEW i, NEW slots, NEW k, NEW own, NEW at
  PROVE  /\ Carried(i, slots, Nil, k, own, at) /\ Carried(i, slots, Nil, k, own, at)'
         /\ LedFor(slots, Nil) /\ LedFor(slots, Nil)' /\ Owes(slots, Nil) = {}
  BY NilFacts DEF Carried, FreshFor, DueFor, MetFor, LedFor, Owes

\* A visit begins with nothing open, and owes nothing.
LEMMA BeginPaths ==
  ASSUME EmitterInv, PathsInv, Frame.todo # <<>>, SameBlocks, NEW kid, IsNode(kid),
         frames' = Append(Continued(Rest), NewFrame(kid)),
         \A c, d : CallPath(c, d) => d = c /\ Resting(c)
  PROVE  PathsInv'
<1>1. PICK ctx, pos, own, at, now : PathFrames(ctx, pos) /\ Ranked(at, now) /\ PathBlocks(ctx, pos, own, at)
  BY DEF PathsInv
<1>2. FramesInv
  BY DEF EmitterInv
<1>3. PICK n, m : n = Len(frames) /\ m = Len(saves)
  OBVIOUS
<1>4. n \in Nat /\ n # 0 /\ n \in 1..n /\ m \in Nat
  <2>1. n \in Nat /\ n # 0
    BY <1>2, <1>3, FrameFacts
  <2>2. m \in Nat
    BY <1>3 DEF EmitterInv, ProtocolInv, ProtocolTypeOK
  <2>3. QED BY <2>1, <2>2
<1>5. Walks(n, Frame.node, Tail(Frame.todo), ctx[n]) /\ Resting(ctx[n])
  <2>1. Walks(n, Frame.node, Frame.todo, ctx[n])
    BY <1>1, <1>3, <1>4 DEF PathFrames, Frame
  <2>2. PICK c : c = ctx[n]
    OBVIOUS
  <2>3. PICK d : Walks(n, Frame.node, Tail(Frame.todo), d) /\ CallPath(c, d)
    BY <1>2, <1>3, <2>1, <2>2, PathDue DEF CallPath
  <2>4. QED BY <2>2, <2>3
<1> DEFINE dtx == With(ctx, n + 1, Nil)
           npos == With(pos, n + 1, m + 1)
<1>6. dtx[n + 1] = Nil /\ \A i \in 1..n : dtx[i] = ctx[i]
  <2>1. n + 1 \in Nat /\ n + 1 # 0 /\ \A i \in 1..n : i \in 1..(n + 1) /\ i # n + 1
    BY <1>4
  <2>2. dtx[n + 1] = Nil /\ \A i \in 1..(n + 1) : i # n + 1 => dtx[i] = ctx[i]
    BY <2>1, WithFacts
  <2> HIDE DEF dtx
  <2>3. QED BY <2>1, <2>2
<1>7. npos[n + 1] = m + 1 /\ \A i \in 1..n : npos[i] = pos[i]
  <2>1. n + 1 \in Nat /\ n + 1 # 0 /\ \A i \in 1..n : i \in 1..(n + 1) /\ i # n + 1
    BY <1>4
  <2>2. npos[n + 1] = m + 1 /\ \A i \in 1..(n + 1) : i # n + 1 => npos[i] = pos[i]
    BY <2>1, WithFacts
  <2> HIDE DEF npos
  <2>3. QED BY <2>1, <2>2
<1> HIDE DEF dtx, npos
<1>8. Rest.node = Frame.node /\ Rest.todo = Tail(Frame.todo) /\ Rest.slots = Frame.slots
  <2>1. Rest = Made(Tail(Frame.todo), Frame.slots, Frame.kept)
    BY <1>2, RestForms, FrameOfInv, Zenon
  <2> HIDE DEF Rest, Frame
  <2>2. QED BY <2>1, FrameFields DEF Made
<1>9. NewFrame(kid).node = kid /\ NewFrame(kid).todo = Script(kid)
  BY DEF NewFrame
<1>10. /\ Len(frames') = n + 1 /\ frames'[n + 1] = NewFrame(kid) /\ frames'[n] = Rest
       /\ \A i \in 1..n : i # n => frames'[i] = frames[i]
  <2> DEFINE fr == Continued(Rest)
  <2>1. IsSeq(fr) /\ Len(fr) = n /\ fr[n] = Rest /\ \A i \in 1..n : i # n => fr[i] = frames[i]
    BY <1>2, <1>3, ContinuedFacts
  <2> HIDE DEF fr
  <2>2. /\ Len(frames') = n + 1 /\ frames'[n + 1] = NewFrame(kid)
        /\ \A i \in 1..n : frames'[i] = fr[i]
    BY <2>1, AppendFacts DEF fr
  <2>3. QED BY <1>4, <2>1, <2>2
<1> HIDE DEF Rest
<1>11. \A i \in 1..(n + 1) : i = n + 1 \/ i \in 1..n
  BY <1>4
<1>12. \A i \in 1..n : frames'[i].node = frames[i].node /\ frames'[i].slots = frames[i].slots
  BY <1>3, <1>8, <1>10 DEF Frame
<1>13. m + 1 = pos[n] + Opened(ctx[n]) /\ Opened(ctx[n]) \in Nat /\ pos[n] \in Nat
  BY <1>1, <1>3, <1>4 DEF PathFrames, Opened
<1>14. PathFrames(dtx, npos)'
  <2>1. ASSUME NEW i \in 1..(n + 1) PROVE Walks(i, frames'[i].node, frames'[i].todo, dtx[i]) /\ npos[i] \in Nat \ {0}
    <3>1. CASE i = n + 1
      <4>1. Legal("paths", kid, Script(kid), Nil, Nil)
        BY ScriptPaths
      <4>2. QED BY <1>4, <1>6, <1>7, <1>9, <1>10, <3>1, <4>1 DEF Walks
    <3>2. CASE i = n
      BY <1>1, <1>3, <1>4, <1>5, <1>6, <1>7, <1>8, <1>10, <3>2 DEF PathFrames
    <3>3. CASE i \in 1..n /\ i # n
      BY <1>1, <1>3, <1>6, <1>7, <1>10, <3>3 DEF PathFrames
    <3>4. QED BY <1>11, <3>1, <3>2, <3>3
  <2>2. ASSUME NEW i \in 1..n PROVE Resting(dtx[i]) /\ npos[i + 1] = npos[i] + Opened(dtx[i])
    <3>1. CASE i = n
      BY <1>4, <1>5, <1>6, <1>7, <1>13, <3>1
    <3>2. CASE i # n
      <4>1. i \in 1..(n - 1) /\ i + 1 \in 1..n
        BY <1>4, <3>2
      <4>2. QED BY <1>1, <1>3, <1>6, <1>7, <4>1 DEF PathFrames
    <3>3. QED BY <3>1, <3>2
  <2>3. ASSUME NEW i \in 1..(n + 1), NEW j \in 1..(n + 1), i < j
        PROVE  npos[i] + Opened(dtx[i]) <= npos[j]
    <3>1. i \in 1..n
      BY <1>4, <2>3
    <3>2. CASE j \in 1..n
      BY <1>1, <1>3, <1>6, <1>7, <2>3, <3>1, <3>2 DEF PathFrames
    <3>3. CASE j = n + 1 /\ i = n
      BY <1>4, <1>6, <1>7, <1>13, <3>3
    <3>4. CASE j = n + 1 /\ i # n
      <4>1. i < n
        BY <1>4, <3>1, <3>4
      <4>2. pos[i] + Opened(ctx[i]) <= pos[n]
        BY <1>1, <1>3, <1>4, <3>1, <4>1 DEF PathFrames
      <4>3. pos[i] \in Nat /\ Opened(ctx[i]) \in Nat
        BY <1>1, <1>3, <3>1 DEF PathFrames, Opened
      <4>4. pos[i] + Opened(ctx[i]) <= m + 1
        BY <1>13, <4>2, <4>3
      <4>5. QED BY <1>6, <1>7, <3>1, <3>4, <4>4
    <3>5. QED BY <1>11, <3>2, <3>3, <3>4
  <2>4. Len(saves') + 1 = npos[n + 1] + Opened(dtx[n + 1])
    BY <1>3, <1>4, <1>6, <1>7, NilFacts DEF SameBlocks
  <2>5. (n + 1) - 1 = n
    BY <1>4
  <2>6. QED BY <1>10, <2>1, <2>2, <2>3, <2>4, <2>5 DEF PathFrames
<1>15. ASSUME NEW i \in 1..(n + 1) PROVE Carried(i, frames[i].slots, dtx[i], npos[i], own, at)'
  <2>1. CASE i = n + 1
    <3>1. PICK slots, k : slots = frames'[i].slots /\ k = npos[i]
      OBVIOUS
    <3>2. Carried(i, slots, Nil, k, own, at)'
      BY NilCarried
    <3>3. QED BY <1>6, <2>1, <3>1, <3>2 DEF Carried, FreshFor, DueFor, MetFor
  <2>2. CASE i \in 1..n
    <3>1. PICK slots, c, k : slots = frames[i].slots /\ c = ctx[i] /\ k = pos[i]
      OBVIOUS
    <3>2. Carried(i, slots, c, k, own, at)
      BY <1>1, <1>3, <2>2, <3>1 DEF PathBlocks
    <3>3. Carried(i, slots, c, k, own, at)'
      BY <3>2, CarriedSame
    <3>4. frames'[i].slots = slots /\ dtx[i] = c /\ npos[i] = k
      BY <1>6, <1>7, <1>12, <2>2, <3>1
    <3>5. QED BY <3>3, <3>4 DEF Carried, FreshFor, DueFor, MetFor
  <2>3. QED BY <1>11, <2>1, <2>2
<1>16. LedFor(Frame.slots, dtx[Len(frames)])'
  BY <1>6, <1>10, NilFacts DEF LedFor
<1>17. ASSUME NEW b \in Live'
       PROVE  Reached(b, own, at)' \/ \E i \in 1..(n + 1) : b \in Owes(frames'[i].slots, dtx[i])
  <2>1. b \in Live
    BY ReachedSame
  <2>2. CASE Reached(b, own, at)
    BY <2>2, ReachedSame
  <2>3. CASE \E i \in 1..n : b \in Owes(frames[i].slots, ctx[i])
    <3>1. PICK i \in 1..n : b \in Owes(frames[i].slots, ctx[i])
      BY <2>3
    <3>2. i \in 1..(n + 1)
      BY <1>4
    <3>3. frames'[i].slots = frames[i].slots /\ dtx[i] = ctx[i]
      BY <1>6, <1>12
    <3>4. QED BY <3>1, <3>2, <3>3
  <2>4. QED BY <1>1, <1>3, <2>1, <2>2, <2>3 DEF PathBlocks
<1>18. PathBlocks(dtx, npos, own, at)'
  <2>1. StackAt(own)'
    BY <1>1, ReachedSame DEF PathBlocks
  <2>2. QED BY <1>10, <1>15, <1>16, <1>17, <2>1 DEF PathBlocks
<1>19. QED BY <1>1, <1>14, <1>18 DEF PathsInv

\* The visit of a part begins.
LEMMA VisitPathsStep ==
  ASSUME EmitterInv, PathsInv, Visit
  PROVE  PathsInv'
<1>1. Frame.todo # <<>> /\ Frame.todo[1][1] = "visit"
  BY DEF Visit, Due
<1>2. PICK kid : kid = Frame.node.kids[Frame.todo[1][2]]
  OBVIOUS
<1>3. frames' = Append(Continued(Rest), NewFrame(kid))
  BY <1>2 DEF Visit, What
<1>4. SameBlocks
  BY KeptBlocks DEF Visit, Aside
<1>5. IsNode(kid)
  BY <1>1, <1>2, KidIsNode
<1>6. ASSUME NEW c, NEW d, CallPath(c, d)
      PROVE  d = c /\ Resting(c)
  <2>1. PathStep(Frame.todo[1], c, d)
    BY <1>1, <1>6, VisitCallPath DEF UnitCalls, ReadCalls
  <2>2. QED BY <1>1, <2>1 DEF PathStep, PathFree, Resting
<1>7. QED BY <1>1, <1>3, <1>4, <1>5, <1>6, BeginPaths

\* The visit of a body begins.
LEMMA VisitBodyPaths ==
  ASSUME EmitterInv, PathsInv, VisitBody
  PROVE  PathsInv'
<1>1. Frame.todo # <<>> /\ Frame.todo[1][1] = "body"
  BY DEF VisitBody, Due
<1>2. PICK kid : kid = IF What = "main" THEN program.main ELSE program.funcs[What].body
  OBVIOUS
<1>3. frames' = Append(Continued(Rest), NewFrame(kid))
  BY <1>2 DEF VisitBody
<1>4. SameBlocks
  BY KeptBlocks DEF VisitBody, Aside
<1>5. Len(frames) = 1
  BY <1>1, DueInUnit DEF EmitterInv, UnitCalls
<1>6. IsNode(kid)
  BY <1>1, <1>2, BodyIsNode
<1>7. ASSUME NEW c, NEW d, CallPath(c, d)
      PROVE  d = c /\ Resting(c)
  BY <1>5, <1>7, NilFacts DEF CallPath
<1>8. QED BY <1>1, <1>3, <1>4, <1>6, <1>7, BeginPaths

\* The frame below goes on: the visit owes nothing any more.
LEMMA ReturnPaths ==
  ASSUME EmitterInv, PathsInv, Return
  PROVE  PathsInv'
<1>1. PICK ctx, pos, own, at, now : PathFrames(ctx, pos) /\ Ranked(at, now) /\ PathBlocks(ctx, pos, own, at)
  BY DEF PathsInv
<1>2. PICK n : n = Len(frames)
  OBVIOUS
<1>3. n \in Nat /\ n > 1 /\ Frame.todo = <<>> /\ frames' = SubSeq(frames, 1, n - 1) /\ IsSeq(frames)
  BY <1>2, FrameFacts DEF Return, EmitterInv
<1>4. /\ n # 1 /\ n # 0 /\ n \in 1..n /\ n - 1 \in 1..n /\ n - 1 \in Nat /\ n - 1 \in 1..(n - 1)
      /\ \A i \in 1..(n - 1) : i \in 1..n /\ i # n
      /\ \A i \in 1..((n - 1) - 1) : i \in 1..(n - 1)
      /\ (n - 1) + 1 = n
  BY <1>3
<1>5. Len(frames') = n - 1 /\ \A i \in 1..(n - 1) : frames'[i] = frames[i]
  BY <1>2, <1>3, <1>4, FrontFacts
<1>6. SameBlocks
  BY KeptBlocks DEF Return, Aside
<1>7. ctx[n] = Nil
  <2>1. Walks(n, Frame.node, <<>>, ctx[n])
    BY <1>1, <1>2, <1>3, <1>4 DEF PathFrames, Frame
  <2>2. Legal("paths", Frame.node, <<>>, ctx[n], Nil)
    BY <1>4, <2>1 DEF Walks
  <2>3. QED BY <2>2, EmptyFacts DEF Legal
<1>8. PathFrames(ctx, pos)'
  <2>1. \A i \in 1..(n - 1) : Walks(i, frames'[i].node, frames'[i].todo, ctx[i]) /\ pos[i] \in Nat \ {0}
    BY <1>1, <1>2, <1>4, <1>5 DEF PathFrames
  <2>2. \A i \in 1..((n - 1) - 1) : Resting(ctx[i]) /\ pos[i + 1] = pos[i] + Opened(ctx[i])
    BY <1>1, <1>2, <1>4 DEF PathFrames
  <2>3. \A i, j \in 1..(n - 1) : i < j => pos[i] + Opened(ctx[i]) <= pos[j]
    BY <1>1, <1>2, <1>4 DEF PathFrames
  <2>4. Len(saves) + 1 = pos[n] + 0 /\ pos[n] = pos[n - 1] + Opened(ctx[n - 1])
    BY <1>1, <1>2, <1>4, <1>7, NilFacts DEF PathFrames
  <2>5. pos[n] \in Nat /\ Len(saves) \in Nat
    <3>1. Len(saves) \in Nat
      BY DEF EmitterInv, ProtocolInv, ProtocolTypeOK
    <3>2. QED BY <1>1, <1>2, <1>4, <3>1 DEF PathFrames
  <2>6. Len(saves') + 1 = pos[n - 1] + Opened(ctx[n - 1])
    BY <1>6, <2>4, <2>5 DEF SameBlocks
  <2>7. QED BY <1>5, <2>1, <2>2, <2>3, <2>6 DEF PathFrames
<1>9. ASSUME NEW i \in 1..(n - 1) PROVE Carried(i, frames[i].slots, ctx[i], pos[i], own, at)'
  <2>1. PICK slots, c, k : slots = frames[i].slots /\ c = ctx[i] /\ k = pos[i]
    OBVIOUS
  <2>2. Carried(i, slots, c, k, own, at)
    BY <1>1, <1>2, <1>4, <2>1 DEF PathBlocks
  <2>3. Carried(i, slots, c, k, own, at)'
    BY <1>6, <2>2, CarriedSame
  <2>4. frames'[i].slots = slots
    BY <1>5, <2>1
  <2>5. QED BY <2>1, <2>3, <2>4 DEF Carried, FreshFor, DueFor, MetFor
<1>10. LedFor(Frame.slots, ctx[Len(frames)])'
  <2>1. LedBy(ctx[n - 1]) = {}
    BY <1>1, <1>2, <1>4 DEF PathFrames, Resting
  <2>2. QED BY <1>5, <2>1 DEF LedFor, LedBy
<1>11. ASSUME NEW b \in Live'
       PROVE  Reached(b, own, at)' \/ \E i \in 1..(n - 1) : b \in Owes(frames'[i].slots, ctx[i])
  <2>1. b \in Live
    BY <1>6, ReachedSame
  <2>2. CASE Reached(b, own, at)
    BY <1>6, <2>2, ReachedSame
  <2>3. CASE \E i \in 1..n : b \in Owes(frames[i].slots, ctx[i])
    <3>1. PICK i \in 1..n : b \in Owes(frames[i].slots, ctx[i])
      BY <2>3
    <3>2. i # n
      <4>1. Owes(frames[n].slots, Nil) = {}
        BY NilCarried
      <4>2. QED BY <1>7, <3>1, <4>1
    <3>3. i \in 1..(n - 1)
      BY <1>3, <3>2
    <3>4. QED BY <1>5, <3>1, <3>3
  <2>4. QED BY <1>1, <1>2, <2>1, <2>2, <2>3 DEF PathBlocks
<1>12. PathBlocks(ctx, pos, own, at)'
  <2>1. StackAt(own)'
    BY <1>1, <1>6, ReachedSame DEF PathBlocks
  <2>2. QED BY <1>5, <1>9, <1>10, <1>11, <2>1 DEF PathBlocks
<1>13. QED BY <1>1, <1>8, <1>12 DEF PathsInv

\* A frame of enter has no block of its own.
LEMMA UnitPath ==
  ASSUME FramesInv, Frame.todo # <<>>, Len(frames) = 1, NEW c, NEW k, NEW own, NEW at, NEW now,
         TopPath(c, k, own, at, now), saves = <<>>
  PROVE  c = Nil /\ k = 1 /\ Walks(Len(frames), Frame.node, Tail(Frame.todo), Nil)
<1>1. PICK d : Walks(Len(frames), Frame.node, Tail(Frame.todo), d) /\ c = Nil /\ d = Nil
  BY PathDue DEF TopPath
<1>2. Len(saves) + 1 = k + Opened(c) /\ k \in Nat
  BY DEF TopPath
<1>3. Len(saves) = 0
  BY EmptyFacts
<1>4. Opened(c) = 0
  BY <1>1, NilFacts
<1>5. QED BY <1>1, <1>2, <1>3, <1>4

\* A function's first block is its head.
LEMMA FirstBlockPaths ==
  ASSUME EmitterInv, TypesInv, PathsInv, FirstBlock
  PROVE  PathsInv'
<1>1. Frame.todo # <<>> /\ Frame.todo[1][1] = "first_block"
  BY DEF FirstBlock, Due
<1>2. PICK n, a, cb : n = Len(frames) /\ a = Address /\ cb = current_block
  OBVIOUS
<1>3. n = 1 /\ phase = "entered"
  <2>1. Len(frames) = 1
    BY <1>1, DueInUnit DEF EmitterInv, UnitCalls
  <2>2. phase = "entered"
    BY <1>1, <2>1, UnitFacts DEF EmitterInv, UnitCall
  <2>3. QED BY <1>2, <2>1, <2>2
<1>4. proc \in Proc /\ graph[proc] = {} /\ saves = <<>> /\ Len(stack) <= 1 /\ stack \in Seq(BlockOrNull)
  BY <1>3 DEF EmitterInv, ProtocolInv, Discipline, ProtocolTypeOK, TypeOK
<1>5. Add(a) /\ stack' = Replaced(stack, a) /\ Proceed /\ UNCHANGED <<program, saves, insts, succ, alt>>
  BY <1>2 DEF FirstBlock, entry_new_block, SameCode, codeVars2, edgeVars
<1>6. a \in Unused /\ Live' = Live \cup {a} /\ a \notin Live /\ a \in Block
  BY <1>4, <1>5, AddedLive, UnusedClean
<1>7. current_block' = a
  <2>1. a \in BlockOrNull
    BY <1>6 DEF BlockOrNull
  <2>2. stack' = Append(<<>>, a) /\ <<>> \in Seq(BlockOrNull)
    BY <1>4, <1>5, <2>1, ReplacedShort, EmptySeq
  <2>3. Top(Append(<<>>, a)) = a
    BY <2>1, <2>2, TopAppend
  <2>4. QED BY <2>2, <2>3 DEF current_block
<1>8. IsHead(a)' /\ \A b \in Live : IsHead(b) => IsHead(b)'
  <2>1. DOMAIN graph = Proc /\ DOMAIN head = Proc
    BY DEF EmitterInv, ProtocolInv, ProtocolTypeOK, TypeOK
  <2>2. /\ graph'[proc] = {a} /\ head'[proc] = a
        /\ \A p \in Proc : p # proc => graph'[p] = graph[p] /\ head'[p] = head[p]
    BY <1>4, <1>5, <2>1 DEF Add
  <2>3. IsHead(a)'
    BY <1>4, <2>2 DEF IsHead
  <2>4. ASSUME NEW b \in Live, IsHead(b) PROVE IsHead(b)'
    <3>1. PICK p \in Proc : b \in graph[p] /\ head[p] = b
      BY <2>4 DEF IsHead
    <3>2. p # proc
      BY <1>4, <3>1
    <3>3. QED BY <2>2, <3>1, <3>2 DEF IsHead
  <2>5. QED BY <2>3, <2>4
<1>9. PICK f : f = Made(Tail(Frame.todo), Frame.slots, Frame.kept)
  OBVIOUS
<1>10. /\ frames' = Continued(f) /\ Len(frames') = n
       /\ f.node = Frame.node /\ f.todo = Tail(Frame.todo) /\ f.slots = Frame.slots
  BY <1>2, <1>5, <1>9, ProceedFrame DEF EmitterInv
<1>11. ASSUME NEW c, NEW k, NEW own, NEW at, NEW now, TopPath(c, k, own, at, now)
       PROVE  \E d, mine, late, soon : NextPath(f, c, d, k, own, mine, at, late, soon)
  <2>1. c = Nil /\ k = 1 /\ Walks(n, Frame.node, f.todo, Nil)
    BY <1>1, <1>2, <1>3, <1>4, <1>10, <1>11, UnitPath DEF EmitterInv
  <2> DEFINE mine == [b \in Block |-> IF b = a THEN Current ELSE IF b = cb THEN Past ELSE own[b]]
  <2>2. mine[a] = Current /\ \A b \in Live : (b = cb => mine[b] = Past) /\ (b # cb => mine[b] = own[b])
    BY <1>6, LiveInBlock
  <2> HIDE DEF mine
  <2>3. cb \in Live => own[cb] = Current
    BY <1>2, <1>11 DEF TopPath, StackAt
  <2>4. StackAt(mine)'
    <3>1. Len(saves') = 0
      BY <1>4, <1>5, EmptyFacts
    <3>2. QED BY <1>7, <2>2, <3>1 DEF StackAt
  <2>5. PICK slots : slots = f.slots
    OBVIOUS
  <2>6. Carried(Len(frames), slots, Nil, k, mine, at)' /\ LedFor(slots, Nil)' /\ Owes(slots, Nil) = {}
    <3>1. Carried(n, slots, Nil, k, mine, at)'
      BY NilCarried
    <3>2. Carried(Len(frames), slots, Nil, k, mine, at)'
      BY <1>10, <3>1 DEF Carried
    <3>3. QED BY <3>2, NilCarried
  <2>7. Spares(k, own, mine, at, at)
    <3>1. \A b \in Live : \A i, x : own[b] = FreshAt(i, x) => mine[b] = own[b]
      BY <2>2, <2>3, PlacesDiffer
    <3>2. \A b \in Live : own[b] = Past => mine[b] = Past /\ succ'[b] = succ[b] /\ alt'[b] = alt[b]
      BY <1>5, <2>2, <2>3, PastApart
    <3>3. \A b \in Live : at[b] <= at[b]
      BY <1>11, SameRank DEF TopPath
    <3>4. \A j \in 1..Len(saves) : j < k => j <= Len(saves') /\ saves'[j] = saves[j]
      BY <1>5
    <3>5. QED BY <1>8, <3>1, <3>2, <3>3, <3>4 DEF Spares
  <2>8. Len(saves') + 1 = k + Opened(Nil)
    BY <1>4, <1>5, <2>1, NilFacts, EmptyFacts
  <2>9. Owes(Frame.slots, c) = {}
    BY <2>1, NilCarried
  <2>10. \A b \in Live' \ Live : Reached(b, mine, at)'
    BY <1>6, <1>8 DEF Reached
  <2>11. NextPath(f, c, Nil, k, own, mine, at, at, now)
    BY <1>2, <1>11, <2>1, <2>4, <2>5, <2>6, <2>7, <2>8, <2>9, <2>10 DEF NextPath, TopPath
  <2>12. QED BY <2>11
<1>12. Live \subseteq Live'
  BY <1>6
<1>13. QED BY <1>10, <1>11, <1>12, PathsStep

\* setup_code starts the code, without blocks.
LEMMA SetupPaths ==
  ASSUME EmitterInv, TypesInv, PathsInv, SetupCode
  PROVE  PathsInv'
<1>1. Frame.todo # <<>> /\ Frame.todo[1][1] = "setup_code"
  BY DEF SetupCode, Due
<1>2. PICK n : n = Len(frames)
  OBVIOUS
<1>3. n = 1 /\ phase = "no code"
  <2>1. Len(frames) = 1
    BY <1>1, DueInUnit DEF EmitterInv, UnitCalls
  <2>2. phase = "no code"
    BY <1>1, <2>1, UnitFacts, Zenon DEF EmitterInv, UnitCall
  <2>3. QED BY <1>2, <2>1, <2>2, Zenon
<1>4. saves = <<>> /\ Live = {}
  BY <1>3, Zenon DEF EmitterInv, ProtocolInv, Discipline, TypesInv
<1>5. /\ graph' = [p \in Proc |-> {}] /\ Proceed
      /\ UNCHANGED <<program, saves, insts, succ, alt>>
  BY DEF SetupCode, setup_code, SameCode, codeVars2, edgeVars
<1>6. Live' = {}
  BY <1>5 DEF Live
<1>7. PICK f : f = Made(Tail(Frame.todo), Frame.slots, Frame.kept)
  OBVIOUS
<1>8. /\ frames' = Continued(f) /\ Len(frames') = n
      /\ f.node = Frame.node /\ f.todo = Tail(Frame.todo) /\ f.slots = Frame.slots
  BY <1>2, <1>5, <1>7, ProceedFrame DEF EmitterInv
<1>9. ASSUME NEW c, NEW k, NEW own, NEW at, NEW now, TopPath(c, k, own, at, now)
      PROVE  \E d, mine, late, soon : NextPath(f, c, d, k, own, mine, at, late, soon)
  <2>1. c = Nil /\ k = 1 /\ Walks(n, Frame.node, f.todo, Nil)
    BY <1>1, <1>2, <1>3, <1>4, <1>8, <1>9, UnitPath, Zenon DEF EmitterInv
  <2>2. StackAt(own)'
    <3>1. Len(saves') = 0
      BY <1>4, <1>5, EmptyFacts
    <3>2. QED BY <1>6, <3>1 DEF StackAt
  <2>3. PICK slots : slots = f.slots
    OBVIOUS
  <2>4. Carried(Len(frames), slots, Nil, k, own, at)' /\ LedFor(slots, Nil)' /\ Owes(slots, Nil) = {}
    <3>1. Carried(n, slots, Nil, k, own, at)'
      BY NilCarried
    <3>2. Carried(Len(frames), slots, Nil, k, own, at)'
      BY <1>8, <3>1 DEF Carried
    <3>3. QED BY <3>2, NilCarried
  <2>5. Spares(k, own, own, at, at)
    BY <1>4, <1>5 DEF Spares
  <2>6. Len(saves') + 1 = k + Opened(Nil)
    BY <1>4, <1>5, <2>1, NilFacts, EmptyFacts
  <2>7. Owes(Frame.slots, c) = {}
    BY <2>1, NilCarried
  <2>8. NextPath(f, c, Nil, k, own, own, at, at, now)
    BY <1>2, <1>6, <1>9, <2>1, <2>2, <2>3, <2>4, <2>5, <2>6, <2>7 DEF NextPath, TopPath
  <2>9. QED BY <2>8
<1>10. Live \subseteq Live'
  BY <1>4
<1>11. QED BY <1>8, <1>9, <1>10, PathsStep

\* Every step of the emitter keeps the paths.
LEMMA PathsHold == EmitterInv /\ TypesInv /\ PathsInv /\ [EmitterNext]_allVars => PathsInv'
<1> SUFFICES ASSUME EmitterInv, TypesInv, PathsInv, [EmitterNext]_allVars PROVE PathsInv'
  OBVIOUS
<1>1. CASE AsideAction \/ SearchAction
  BY <1>1, AsidePaths, SearchPaths
<1>2. CASE ReadNowhere \/ UNCHANGED allVars
  BY <1>2, StillPaths
<1>3. CASE CallFunction \/ LoadGlobal \/ StoreGlobal \/ ReturnInst \/ BranchInst
  BY <1>3, InstPaths
<1>4. CASE JumpTo \/ JumpWith \/ JumpOut
  BY <1>4, JumpPaths
<1>5. CASE SetNext \/ SetElse
  BY <1>5, LinkPaths
<1>6. CASE StopIfTerm \/ Decide
  BY <1>6, StopPaths, DecidePaths
<1>7. CASE Visit \/ VisitBody \/ Return
  BY <1>7, VisitPathsStep, VisitBodyPaths, ReturnPaths
<1>8. CASE NewBasicBlock \/ SaveAndEntry \/ PopBlock \/ EntryBlock
  BY <1>8, NewBlockPaths, SavePaths, PopPaths, EntryPaths
<1>9. CASE FirstBlock \/ SetupCode
  BY <1>9, FirstBlockPaths, SetupPaths
<1>10. QED BY <1>1, <1>2, <1>3, <1>4, <1>5, <1>6, <1>7, <1>8, <1>9 DEF EmitterNext, AsideAction, SearchAction

\* At first there is no block.
LEMMA PathsStart == EmitterInit => PathsInv
<1> SUFFICES ASSUME EmitterInit PROVE PathsInv
  OBVIOUS
<1> DEFINE f == [node |-> program, todo |-> Unit(program.order), slots |-> NoSlots, kept |-> NoArg]
           ctx == [i \in {1} |-> Nil]
           pos == [i \in {1} |-> 1]
           own == [b \in Block |-> Current]
           at == [b \in Block |-> 0]
<1>1. frames = <<f>> /\ saves = <<>> /\ graph = [p \in Proc |-> {}]
  BY Zenon DEF EmitterInit, ProtocolInit, Init
<1> HIDE DEF f
<1>2. Len(frames) = 1 /\ frames[1] = f /\ Live = {} /\ Len(saves) = 0
  BY <1>1, EmptyFacts DEF Live
<1>3. ctx[1] = Nil /\ pos[1] = 1 /\ \A b \in Block : at[b] = 0
  OBVIOUS
<1> HIDE DEF ctx, pos, own, at
<1>4. PathFrames(ctx, pos)
  <2>1. \A i \in 1..1 : Walks(i, frames[i].node, frames[i].todo, ctx[i]) /\ pos[i] \in Nat \ {0}
    BY <1>3 DEF Walks
  <2>2. \A i, j \in 1..1 : ~(i < j)
    OBVIOUS
  <2>3. Len(saves) + 1 = pos[1] + Opened(ctx[1])
    BY <1>2, <1>3, NilFacts
  <2>4. QED BY <1>2, <2>1, <2>2, <2>3 DEF PathFrames
<1>5. Ranked(at, 1)
  BY <1>3 DEF Ranked
<1>6. PathBlocks(ctx, pos, own, at)
  <2>1. StackAt(own)
    BY <1>2 DEF StackAt
  <2>2. Carried(1, frames[1].slots, Nil, 1, own, at) /\ LedFor(Frame.slots, Nil)
    BY NilCarried
  <2>3. \A i \in 1..1 : Carried(i, frames[i].slots, ctx[i], pos[i], own, at)
    BY <1>3, <2>2
  <2>4. QED BY <1>2, <1>3, <2>1, <2>2, <2>3 DEF PathBlocks
<1>7. QED BY <1>4, <1>5, <1>6 DEF PathsInv

---------------------------------------------------------------------------
(* Heads.                                                                  *)

\* Every function of the code has its head, except one that was just entered.
HeadsInv == \A p \in procs : head[p] \in graph[p] \/ (phase = "entered" /\ p = proc /\ graph[p] = {})

\* The first block of a function becomes its head, a later one leaves it.
LEMMA HeadsAdded ==
  ASSUME ProtocolInv, HeadsInv, proc \in Proc, NEW b, Add(b), phase \in {"entered", "body"}, phase' = "body",
         procs' = procs
  PROVE  HeadsInv'
<1>1. DOMAIN graph = Proc /\ DOMAIN head = Proc /\ procs \subseteq Proc
  BY DEF ProtocolInv, ProtocolTypeOK, TypeOK
<1>2. CASE graph[proc] = {}
  <2>1. /\ graph'[proc] = {b} /\ head'[proc] = b
        /\ \A p \in Proc : p # proc => graph'[p] = graph[p] /\ head'[p] = head[p]
    BY <1>1, <1>2 DEF Add
  <2>2. QED BY <1>1, <2>1 DEF HeadsInv
<1>3. CASE graph[proc] # {}
  <2>1. head' = head /\ \A p \in Proc : graph[p] \subseteq graph'[p]
    BY <1>1, <1>3 DEF Add
  <2>2. QED BY <1>1, <1>3, <2>1 DEF HeadsInv
<1>4. QED BY <1>2, <1>3

\* Every step of the protocol keeps the heads.
LEMMA HeadsStep ==
  ProtocolInv /\ HeadsInv /\ [ProtocolNext]_protocolVars /\ ProtocolInv' => HeadsInv'
<1> SUFFICES ASSUME ProtocolInv, HeadsInv, [ProtocolNext]_protocolVars, ProtocolInv' PROVE HeadsInv'
  OBVIOUS
<1>1. CASE StartCode \/ TakeCode
  BY <1>1, Zenon DEF StartCode, TakeCode, setup_code, getCode, HeadsInv
<1>2. CASE \E p \in Proc : EnterFunction(p)
  <2>1. PICK p \in Proc : EnterFunction(p)
    BY <1>2
  <2>2. procs' = procs \cup {p} /\ proc' = p /\ phase' = "entered" /\ phase # "entered" /\ UNCHANGED <<graph, head>>
    BY <2>1, Zenon DEF EnterFunction, entry_function, Settled, graphVars
  <2>3. graph'[p] = {}
    BY <2>2 DEF ProtocolInv, Discipline
  <2>4. QED BY <2>2, <2>3 DEF HeadsInv
<1>3. CASE \E b \in Block : OpenBody(b)
  <2>1. PICK b \in Block : OpenBody(b)
    BY <1>3
  <2>2. Add(b) /\ phase = "entered" /\ phase' = "body" /\ procs' = procs /\ proc \in Proc
    BY <2>1 DEF OpenBody, entry_new_block, codeVars, ProtocolInv, Discipline
  <2>3. QED BY <2>2, HeadsAdded
<1>4. CASE phase = "body" /\ phase' = "body" /\ procs' = procs /\ \E b : Add(b)
  <2>1. proc \in Proc
    BY <1>4 DEF ProtocolInv, Discipline
  <2>2. QED BY <1>4, <2>1, HeadsAdded
<1>5. CASE phase # "entered" /\ UNCHANGED <<procs, graph, head>>
  BY <1>5 DEF HeadsInv
<1>6. CASE \E b \in Block : Move(b)
  <2>1. PICK b \in Block : Move(b)
    BY <1>6
  <2>2. phase = "body" /\ phase' = "body" /\ procs' = procs /\ (Add(b) \/ UNCHANGED <<graph, head>>)
    BY <2>1 DEF Move, entry_new_block, entry_block, entry_next_new, entry_else_new, codeVars, graphVars
  <2>3. QED BY <1>4, <1>5, <2>2
<1>7. CASE MoveExisting \/ Restore \/ LeaveFunction
  <2>1. phase = "body" /\ UNCHANGED <<procs, graph, head>>
    BY <1>7 DEF MoveExisting, Restore, LeaveFunction, entry_next_existing, entry_else_existing, pop_block,
                exit_function, codeVars, graphVars
  <2>2. QED BY <1>5, <2>1
<1>8. CASE Save
  <2>1. phase = "body" /\ phase' = "body" /\ procs' = procs /\ ((\E b : Add(b)) \/ UNCHANGED <<graph, head>>)
    <3>1. CASE push_block \/ (\E b \in graph[proc] : save_and_entry(b)) \/ entry_next_existing(TRUE)
                 \/ entry_else_existing(TRUE)
      BY <1>8, <3>1 DEF Save, push_block, save_and_entry, entry_next_existing, entry_else_existing, codeVars, graphVars
    <3>2. CASE \E b \in Block : entry_next_new(b, TRUE) \/ entry_else_new(b, TRUE)
      BY <1>8, <3>2 DEF Save, entry_next_new, entry_else_new, codeVars
    <3>3. QED BY <1>8, <3>1, <3>2 DEF Save
  <2>2. QED BY <1>4, <1>5, <2>1
<1>9. CASE \E b \in Block : Draw(b)
  <2>1. PICK b \in Block : Draw(b)
    BY <1>9
  <2>2. phase = "body" /\ phase' = "body" /\ procs' = procs /\ (Add(b) \/ UNCHANGED <<graph, head>>)
    BY <2>1 DEF Draw, newBasicBlock, setNext, setElse, codeVars, graphVars
  <2>3. QED BY <1>4, <1>5, <2>2
<1>10. CASE UNCHANGED protocolVars
  BY <1>10 DEF protocolVars, vars, HeadsInv
<1>11. QED BY <1>1, <1>2, <1>3, <1>6, <1>7, <1>8, <1>9, <1>10 DEF ProtocolNext

---------------------------------------------------------------------------
(* What the search finds.                                                  *)

\* When the emitter is done nothing is owed and nothing open.
LEMMA EmittedFacts ==
  ASSUME EmitterInv, PathsInv, HeadsInv, Emitted
  PROVE  /\ \A p \in procs : head[p] \in graph[p]
         /\ \E own, at : /\ \A b \in Block : at[b] \in Nat
                         /\ \A b \in Live : Reached(b, own, at)
<1>1. PICK ctx, pos, own, at, now : PathFrames(ctx, pos) /\ Ranked(at, now) /\ PathBlocks(ctx, pos, own, at)
  BY DEF PathsInv
<1>2. Len(frames) = 1 /\ Frame.todo = <<>>
  BY DEF Emitted, Frame
<1>3. ctx[1] = Nil
  BY <1>1, <1>2 DEF PathFrames, Walks
<1>4. \A b \in Live : Reached(b, own, at)
  <2>1. Owes(frames[1].slots, Nil) = {}
    BY NilCarried
  <2>2. \A b \in Live : Reached(b, own, at) \/ \E i \in 1..1 : b \in Owes(frames[i].slots, ctx[i])
    BY <1>1, <1>2 DEF PathBlocks
  <2>3. QED BY <1>3, <2>1, <2>2
<1>5. phase = "body"
  <2>1. UnitOK(program, Frame, phase)
    BY <1>2, FrameFacts DEF EmitterInv
  <2>2. PICK tr : tr[0] = phase /\ tr[Len(Frame.todo)] = "body"
    BY <2>1 DEF UnitOK, Legal
  <2>3. Len(Frame.todo) = 0
    BY <1>2, EmptyFacts
  <2>4. QED BY <2>2, <2>3
<1>6. \A p \in procs : head[p] \in graph[p]
  BY <1>5 DEF HeadsInv
<1>7. \A b \in Block : at[b] \in Nat
  BY <1>1, Zenon DEF Ranked
<1>8. QED BY <1>4, <1>6, <1>7

\* From the order in which blocks are reached the search finds them all.
LEMMA PathsFind == EmitterInv /\ PathsInv /\ HeadsInv => EveryBlockReachable
<1> SUFFICES ASSUME EmitterInv, PathsInv, HeadsInv, Emitted, NEW p \in procs
             PROVE  LET reach[n \in 0..Cardinality(Block)] ==
                          IF n = 0 THEN {head[p]} ELSE Onward(reach[n - 1])
                    IN  reach[Cardinality(Block)] = graph[p]
  BY Zenon DEF EveryBlockReachable
<1>1. /\ head[p] \in graph[p]
      /\ \E own, at : /\ \A b \in Block : at[b] \in Nat
                      /\ \A b \in Live : Reached(b, own, at)
  BY EmittedFacts
<1>2. PICK own, at : (\A b \in Block : at[b] \in Nat) /\ \A b \in Live : Reached(b, own, at)
  BY <1>1
<1>3. p \in Proc /\ graph[p] \subseteq Block /\ graph[p] \subseteq Live /\ Live \subseteq Block /\ NoBlock \notin Block
  <2>1. p \in Proc /\ graph \in [Proc -> SUBSET Block]
    BY DEF EmitterInv, ProtocolInv, ProtocolTypeOK, TypeOK
  <2>2. QED BY <2>1, LiveInBlock, ControlGraphAssumption DEF Live
<1>4. PICK G, h, fst, snd : G = graph[p] /\ h = head[p] /\ fst = succ /\ snd = alt
  OBVIOUS
<1>5. \A q \in Proc : \A b \in graph[q] : {succ[b], alt[b]} \subseteq graph[q] \cup {NoBlock}
  BY DEF EmitterInv, ProtocolInv, EdgesWithinProcedure
<1>6. ASSUME NEW q \in Proc, NEW b \in graph[p], b \in graph[q] PROVE q = p
  BY <1>3, <1>6 DEF EmitterInv, ProtocolInv, GraphsDisjoint
<1>7. ASSUME NEW b \in graph[p], b # head[p]
      PROVE  \E a \in graph[p] : at[a] < at[b] /\ b \in {succ[a], alt[a]}
  <2>1. Reached(b, own, at) /\ b # NoBlock
    BY <1>2, <1>3
  <2>2. ~IsHead(b)
    BY <1>6, <1>7 DEF IsHead
  <2>3. PICK a \in Live : at[a] < at[b] /\ b \in {succ[a], alt[a]}
    BY <2>1, <2>2 DEF Reached
  <2>4. PICK q \in Proc : a \in graph[q]
    BY DEF Live
  <2>5. b \in graph[q]
    BY <1>5, <2>1, <2>3, <2>4
  <2>6. a \in graph[p]
    BY <1>6, <2>4, <2>5
  <2>7. QED BY <2>3, <2>6
<1>8. IsFiniteSet(Block) /\ Cardinality(Block) \in Nat
  BY EmitterAssumption, FS_CardinalityType
<1> DEFINE N == Cardinality(Block)
           P(r) == r = [n \in 0..N |-> IF n = 0 THEN {head[p]} ELSE Onward(r[n - 1])]
           Q(r) == Searches(r, N, h, fst, snd)
<1>9. ASSUME NEW r PROVE P(r) <=> Q(r)
  <2>1. ASSUME NEW bs PROVE Onward(bs) = Outward(fst, snd, bs)
    BY <1>4 DEF Onward, Outward
  <2>2. [n \in 0..N |-> IF n = 0 THEN {head[p]} ELSE Onward(r[n - 1])]
          = [n \in 0..N |-> IF n = 0 THEN {h} ELSE Outward(fst, snd, r[n - 1])]
    BY <1>4, <2>1
  <2>3. QED BY <2>2 DEF Searches
<1>10. \E r : P(r)
  <2>1. \E r : Q(r)
    BY <1>8, SearchDefined
  <2> HIDE DEF P, Q
  <2>2. QED BY <1>9, <2>1
<1> DEFINE reach[n \in 0..Cardinality(Block)] == IF n = 0 THEN {head[p]} ELSE Onward(reach[n - 1])
<1>11. P(reach)
  <2>1. P(CHOOSE r : P(r))
    BY <1>10, Zenon
  <2>2. QED BY <2>1, Zenon DEF reach
<1> HIDE DEF reach
<1>12. PICK seen : seen = reach
  OBVIOUS
<1>13. Q(seen)
  <2> HIDE DEF P, Q
  <2>1. P(seen)
    BY <1>11, <1>12
  <2>2. QED BY <1>9, <2>1
<1>14. Led(G, h, fst, snd, at)
  <2>1. G \subseteq Block /\ h \in G /\ \A b \in G : {fst[b], snd[b]} \subseteq G \cup {NoBlock}
    BY <1>1, <1>3, <1>4, <1>5
  <2>2. \A b \in G : at[b] \in Nat
    BY <1>2, <1>3, <1>4, Zenon
  <2>3. \A b \in G : b # h => \E c \in G : at[c] < at[b] /\ b \in {fst[c], snd[c]}
    BY <1>4, <1>7
  <2>4. QED BY <2>1, <2>2, <2>3 DEF Led
<1> HIDE DEF P
<1>15. seen[Cardinality(Block)] = G
  <2>1. NoBlock \notin Block
    BY <1>3
  <2>2. QED BY <1>8, <1>13, <1>14, <2>1, SearchComplete
<1>16. reach[Cardinality(Block)] = graph[p]
  BY <1>4, <1>12, <1>15
<1>17. QED BY <1>16 DEF reach

\* In every run of the emitter on any programs that ends, every block of every
\* function can be reached from the function's head.
THEOREM EmittedBlocksReachable == EmitterSpec => []EveryBlockReachable
<1> DEFINE Inv == EmitterInv /\ TypesInv /\ PathsInv /\ HeadsInv
<1>1. EmitterInit => Inv
  <2>1. EmitterInit => HeadsInv
    BY Zenon DEF EmitterInit, ProtocolInit, Init, HeadsInv
  <2>2. QED BY <2>1, EmitterStart, TypesStart, PathsStart
<1>2. Inv /\ [EmitterNext]_allVars => Inv'
  <2>1. EmitterInv /\ EmitterInv' => ProtocolInv /\ ProtocolInv'
    BY DEF EmitterInv
  <2>2. QED BY <2>1, EmitterStep, TypesStep, PathsHold, HeadsStep
<1>3. Inv => EveryBlockReachable
  BY PathsFind
<1> HIDE DEF Inv
<1>4. QED BY <1>1, <1>2, <1>3, PTL DEF EmitterSpec
==============================================================================
