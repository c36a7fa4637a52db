------------------------- MODULE InterpreterProofs -------------------------
(***************************************************************************)
(* Proofs about the interpreter, for any programs and any depth of calls:  *)
(* the stack of contexts follows the calls of execute(); the register, the *)
(* frames and the contexts keep their shape; and what is evaluated answers *)
(* a value.  The last two take well-formed programs, and know what every   *)
(* frame was called for and which names its context sees.                  *)
(***************************************************************************)
EXTENDS Interpreter, AnySequences, FiniteSetTheorems, WellFoundedInduction

IsFrame(f) == f = [node |-> f.node, pc |-> f.pc, place |-> f.place] /\ f.pc \in Nat

\* How many of the first n frames own a context.
Owned(fr, n) == Cardinality({j \in 1..n : OwnsScope(fr[j])})
One(f) == IF OwnsScope(f) THEN 1 ELSE 0

\* A stack of frames that begins with enter's, which never calls itself.
StackOK(fr) ==
  /\ IsSeq(fr) /\ Len(fr) \in Nat \ {0}
  /\ \A i \in 1..Len(fr) : IsFrame(fr[i])
  /\ fr[1].node.kind = "Enter"

\* The inductive invariant.
IInv ==
  status = "running" =>
    /\ StackOK(frames)
    /\ IsSeq(scopes)
    /\ Len(scopes) = 1 + Owned(frames, Len(frames))

---------------------------------------------------------------------------
(* Counting the frames that own a context.                                 *)

\* One more frame counts one more context if it owns one.
LEMMA OwnedNext ==
  ASSUME NEW fr, NEW n \in Nat
  PROVE  Owned(fr, n) \in Nat /\ Owned(fr, n + 1) = Owned(fr, n) + One(fr[n + 1])
<1> DEFINE S == {j \in 1..n : OwnsScope(fr[j])}
           T == {j \in 1..(n + 1) : OwnsScope(fr[j])}
<1>1. IsFiniteSet(S)
  <2>1. IsFiniteSet(1..n) /\ S \subseteq 1..n
    BY FS_Interval
  <2>2. QED BY <2>1, FS_Subset
<1>2. Cardinality(S) \in Nat
  BY <1>1, FS_CardinalityType
<1>0. Owned(fr, n) = Cardinality(S) /\ Owned(fr, n + 1) = Cardinality(T)
  BY DEF Owned
<1>3. CASE OwnsScope(fr[n + 1])
  <2>1. T = S \cup {n + 1} /\ n + 1 \notin S
    BY <1>3
  <2>2. Cardinality(T) = Cardinality(S) + 1
    BY <1>1, <2>1, FS_AddElement
  <2> HIDE DEF S, T
  <2>3. QED BY <1>0, <1>2, <1>3, <2>2 DEF One
<1>4. CASE ~OwnsScope(fr[n + 1])
  <2>1. T = S
    BY <1>4
  <2> HIDE DEF S, T
  <2>2. QED BY <1>0, <1>2, <1>4, <2>1 DEF One
<1>5. QED BY <1>3, <1>4

\* Frames that are the same own the same contexts.
LEMMA OwnedSame ==
  ASSUME NEW fr, NEW gr, NEW n \in Nat, \A i \in 1..n : fr[i] = gr[i]
  PROVE  Owned(fr, n) = Owned(gr, n)
<1>1. {j \in 1..n : OwnsScope(fr[j])} = {j \in 1..n : OwnsScope(gr[j])}
  OBVIOUS
<1>2. QED BY <1>1 DEF Owned

---------------------------------------------------------------------------
(* What calling and returning do to the stack.                             *)

\* The frame on top and the ones below.
LEMMA TopFacts ==
  ASSUME StackOK(frames)
  PROVE  /\ IsFrame(Top) /\ Len(frames) \in Nat \ {0}
         /\ IsSeq(Below) /\ Len(Below) = Len(frames) - 1 /\ Len(Below) \in Nat
         /\ \A i \in 1..Len(Below) : Below[i] = frames[i]
         /\ Owned(frames, Len(frames)) = Owned(Below, Len(Below)) + One(Top)
         /\ Owned(Below, Len(Below)) \in Nat
         /\ Top.node.kind # "Enter" => StackOK(Below)
         /\ Len(Below) = 0 => Top.node.kind = "Enter"
         /\ Len(Below) # 0 => StackOK(Below)
<1>1. Len(frames) \in Nat \ {0} /\ IsSeq(frames) /\ Len(frames) # 0
  BY DEF StackOK
<1>2. /\ IsSeq(Below) /\ Len(Below) = Len(frames) - 1
      /\ \A i \in 1..(Len(frames) - 1) : Below[i] = frames[i]
  BY <1>1, FrontFacts DEF Below
<1>3. /\ Len(frames) - 1 \in Nat /\ Len(frames) - 1 + 1 = Len(frames)
      /\ Len(frames) \in 1..Len(frames)
      /\ \A i \in 1..(Len(frames) - 1) : i \in 1..Len(frames)
      /\ Len(frames) - 1 = 0 => Len(frames) = 1
      /\ Len(frames) - 1 # 0 => 1 \in 1..(Len(frames) - 1)
  BY <1>1
<1>4. IsFrame(Top)
  BY <1>3 DEF StackOK, Top
<1>5. Owned(frames, Len(frames) - 1 + 1) = Owned(frames, Len(frames) - 1) + One(frames[Len(frames) - 1 + 1])
  BY <1>3, OwnedNext
<1>6. Owned(frames, Len(frames) - 1) = Owned(Below, Len(frames) - 1)
  BY <1>2, <1>3, OwnedSame
<1>7. Owned(Below, Len(Below)) \in Nat
  BY <1>2, <1>3, OwnedNext
<1>8. Len(Below) = 0 => Top.node.kind = "Enter"
  BY <1>2, <1>3 DEF StackOK, Top
<1>9. Len(Below) # 0 => StackOK(Below)
  <2>1. ASSUME Len(Below) # 0 PROVE StackOK(Below)
    <3>1. Below[1] = frames[1] /\ Len(Below) \in Nat \ {0}
      BY <1>2, <1>3, <2>1
    <3>2. \A i \in 1..Len(Below) : IsFrame(Below[i])
      BY <1>2, <1>3 DEF StackOK
    <3>3. QED BY <1>2, <3>1, <3>2 DEF StackOK
  <2>2. QED BY <2>1
<1>10. QED BY <1>1, <1>2, <1>3, <1>4, <1>5, <1>6, <1>7, <1>8, <1>9 DEF Top

\* The frame on top goes on at pc.
LEMMA GoOnFacts ==
  ASSUME StackOK(frames), NEW pc \in Nat, NEW place
  PROVE  LET t == [node |-> Top.node, pc |-> pc, place |-> place]
             g == Append(Below, t)
         IN /\ StackOK(g) /\ Owned(g, Len(g)) = Owned(Below, Len(Below)) + One(t)
            /\ Len(g) = Len(frames)
<1> DEFINE t == [node |-> Top.node, pc |-> pc, place |-> place]
           g == Append(Below, t)
           n == Len(Below)
<1>1. IsSeq(Below) /\ n = Len(frames) - 1 /\ n \in Nat /\ Len(frames) \in Nat \ {0}
  BY TopFacts
<1>2. IsSeq(g) /\ Len(g) = n + 1 /\ g[n + 1] = t /\ \A i \in 1..n : g[i] = Below[i]
  BY <1>1, AppendFacts
<1>3. t.node = Top.node /\ IsFrame(t)
  BY DEF IsFrame
<1> HIDE DEF t, g, n
<1>4. \A i \in 1..(n + 1) : i \in 1..n \/ i = n + 1
  BY <1>1
<1>5. \A i \in 1..(n + 1) : IsFrame(g[i])
  <2>1. n # 0 => \A i \in 1..n : IsFrame(Below[i])
    BY TopFacts DEF StackOK, n
  <2>2. \A i \in 1..n : n # 0
    BY <1>1
  <2>3. QED BY <1>2, <1>3, <1>4, <2>1, <2>2
<1>6. g[1].node.kind = "Enter"
  <2>1. CASE n = 0
    <3>1. Top.node.kind = "Enter"
      BY <2>1, TopFacts DEF n
    <3>2. QED BY <1>2, <1>3, <2>1, <3>1
  <2>2. CASE n # 0
    <3>1. Below[1].node.kind = "Enter" /\ 1 \in 1..n
      BY <1>1, <2>2, TopFacts DEF n, StackOK
    <3>2. QED BY <1>2, <3>1
  <2>3. QED BY <2>1, <2>2
<1>7. StackOK(g)
  BY <1>1, <1>2, <1>5, <1>6 DEF StackOK
<1>8. Owned(g, n + 1) = Owned(Below, n) + One(t)
  <2>1. Owned(g, n + 1) = Owned(g, n) + One(g[n + 1])
    BY <1>1, OwnedNext
  <2>2. Owned(g, n) = Owned(Below, n)
    BY <1>1, <1>2, OwnedSame
  <2>3. QED BY <1>2, <2>1, <2>2
<1>9. QED BY <1>1, <1>2, <1>7, <1>8 DEF t, g, n

\* A stack with one more frame that has not begun.
LEMMA CallFacts ==
  ASSUME NEW g, StackOK(g), NEW m
  PROVE  LET h == g \o <<Frame(m, 0)>>
         IN StackOK(h) /\ Owned(h, Len(h)) = Owned(g, Len(g))
<1> DEFINE f == Frame(m, 0)
           n == Len(g)
           h == Append(g, f)
<1>1. IsSeq(g) /\ n \in Nat \ {0} /\ n \in Nat
  BY DEF StackOK
<1>2. g \o <<f>> = h
  <2> DEFINE R == {g[i] : i \in DOMAIN g} \cup {f}
  <2>1. g \in Seq(R) /\ f \in R
    BY <1>1, SeqMonotonic DEF IsSeq
  <2>2. QED BY <2>1, AppendIsConcat
<1>3. IsSeq(h) /\ Len(h) = n + 1 /\ h[n + 1] = f /\ \A i \in 1..n : h[i] = g[i]
  BY <1>1, AppendFacts
<1>4. IsFrame(f) /\ ~OwnsScope(f)
  BY DEF IsFrame, Frame, OwnsScope
<1> HIDE DEF f, n, h
<1>5. \A i \in 1..(n + 1) : i \in 1..n \/ i = n + 1
  BY <1>1
<1>6. \A i \in 1..(n + 1) : IsFrame(h[i])
  BY <1>3, <1>4, <1>5 DEF StackOK, n
<1>7. h[1].node.kind = "Enter"
  BY <1>1, <1>3 DEF StackOK
<1>8. StackOK(h)
  BY <1>1, <1>3, <1>6, <1>7 DEF StackOK
<1>9. Owned(h, n + 1) = Owned(g, n)
  <2>1. Owned(h, n + 1) = Owned(h, n) + One(h[n + 1]) /\ Owned(h, n) \in Nat
    BY <1>1, OwnedNext
  <2>2. Owned(h, n) = Owned(g, n)
    BY <1>1, <1>3, OwnedSame
  <2>3. One(h[n + 1]) = 0
    BY <1>3, <1>4 DEF One
  <2>4. QED BY <2>1, <2>2, <2>3
<1>10. StackOK(h) /\ Owned(h, Len(h)) = Owned(g, Len(g))
  BY <1>3, <1>8, <1>9 DEF n
<1>11. QED BY <1>2, <1>10 DEF f, h

\* Writing to a context.
LEMMA RewrittenFacts ==
  ASSUME NEW s, IsSeq(s), NEW u, u = [i \in DOMAIN s |-> u[i]]
  PROVE  IsSeq(u) /\ Len(u) = Len(s)
<1>1. Len(s) \in Nat /\ DOMAIN s = 1..Len(s)
  BY SeqFacts
<1>2. QED BY <1>1, FunctionIsSeq

\* setInfo writes an entry and opens or closes no context.
LEMMA SetInfoFacts ==
  ASSUME NEW s, IsSeq(s), NEW x, NEW v
  PROVE  IsSeq(setInfo(s, x, v)) /\ Len(setInfo(s, x, v)) = Len(s)
<1>1. setInfo(s, x, v) = [i \in DOMAIN s |-> setInfo(s, x, v)[i]]
  BY DEF setInfo
<1>2. QED BY <1>1, RewrittenFacts

---------------------------------------------------------------------------
(* The steps, by what they do to the two stacks.                           *)

Going(pc, place) == [node |-> Top.node, pc |-> pc, place |-> place]

\* execute() is called on a part of the node on top.
LEMMA VisitStep ==
  ASSUME IInv, status = "running", NEW pc \in Nat, NEW place, NEW n,
         frames' = Append(Below, Going(pc, place)) \o <<Frame(n, 0)>>,
         IsSeq(scopes'), Len(scopes') + One(Top) = Len(scopes) + One(Going(pc, place))
  PROVE  IInv'
<1> DEFINE t == Going(pc, place)
           g == Append(Below, t)
           h == g \o <<Frame(n, 0)>>
<1>1. StackOK(frames) /\ IsSeq(scopes) /\ Len(scopes) = 1 + Owned(frames, Len(frames))
  BY DEF IInv
<1>2. StackOK(g) /\ Owned(g, Len(g)) = Owned(Below, Len(Below)) + One(t)
  BY <1>1, GoOnFacts DEF Going
<1>3. StackOK(h) /\ Owned(h, Len(h)) = Owned(g, Len(g))
  BY <1>2, CallFacts
<1>4. /\ Owned(frames, Len(frames)) = Owned(Below, Len(Below)) + One(Top)
      /\ Owned(Below, Len(Below)) \in Nat
  BY <1>1, TopFacts
<1>5. One(t) \in Nat /\ One(Top) \in Nat /\ Len(scopes') \in Nat
  <2>1. Len(scopes') \in Nat
    BY SeqFacts
  <2> HIDE DEF t
  <2>2. QED BY <2>1 DEF One
<1> HIDE DEF t, g, h
<1>6. frames' = h /\ Len(scopes') + One(Top) = Len(scopes) + One(t)
  BY DEF t, g, h
<1>7. Len(scopes') = 1 + Owned(h, Len(h))
  <2>1. PICK k, o, q, m :
          k = Owned(Below, Len(Below)) /\ o = One(Top) /\ q = One(t) /\ m = Len(scopes')
    OBVIOUS
  <2>2. k \in Nat /\ o \in Nat /\ q \in Nat /\ m \in Nat
    BY <1>4, <1>5, <2>1
  <2>3. m + o = 1 + (k + o) + q
    BY <1>1, <1>4, <1>6, <2>1
  <2>4. m = 1 + (k + q)
    BY <2>2, <2>3
  <2>5. QED BY <1>2, <1>3, <2>1, <2>4
<1>8. QED BY <1>3, <1>6, <1>7 DEF IInv

\* execute() returns to its caller.
LEMMA AnswerStep ==
  ASSUME IInv, status = "running", Top.node.kind # "Enter", frames' = Below,
         IsSeq(scopes'), Len(scopes') + One(Top) = Len(scopes)
  PROVE  IInv'
<1>1. StackOK(frames) /\ IsSeq(scopes) /\ Len(scopes) = 1 + Owned(frames, Len(frames))
  BY DEF IInv
<1>2. /\ StackOK(Below) /\ Owned(Below, Len(Below)) \in Nat
      /\ Owned(frames, Len(frames)) = Owned(Below, Len(Below)) + One(Top)
  BY <1>1, TopFacts
<1>3. One(Top) \in Nat /\ Len(scopes') \in Nat
  <2>1. Len(scopes') \in Nat
    BY SeqFacts
  <2>2. QED BY <2>1 DEF One
<1>4. Len(scopes') = 1 + Owned(Below, Len(Below))
  BY <1>1, <1>2, <1>3
<1>5. QED BY <1>2, <1>4 DEF IInv

\* A visit or an answer that leaves the contexts as many as they were.
LEMMA VisitPlain ==
  ASSUME IInv, status = "running", NEW pc \in Nat, NEW n, Visit(pc, n), scopes' = scopes,
         One(Going(pc, Top.place)) = One(Top)
  PROVE  IInv'
<1>1. StackOK(frames) /\ IsSeq(scopes)
  BY DEF IInv
<1>2. IsFrame(Top)
  BY <1>1, TopFacts
<1>3. [Top EXCEPT !.pc = pc] = Going(pc, Top.place)
  BY <1>2 DEF IsFrame, Going
<1>4. frames' = Append(Below, Going(pc, Top.place)) \o <<Frame(n, 0)>>
  BY <1>3 DEF Visit
<1>5. QED BY <1>1, <1>4, VisitStep

\* A frame without a context of its own answers and leaves the contexts.
LEMMA AnswerPlain ==
  ASSUME IInv, status = "running", Top.node.kind # "Enter", ~OwnsScope(Top), frames' = Below,
         IsSeq(scopes'), Len(scopes') = Len(scopes)
  PROVE  IInv'
<1>1. One(Top) = 0 /\ Len(scopes') \in Nat
  BY SeqFacts DEF One
<1>2. Len(scopes') + One(Top) = Len(scopes)
  BY <1>1
<1>3. QED BY <1>2, AnswerStep

\* Two fields of a frame written at once.
LEMMA WrittenFrame ==
  ASSUME NEW f, IsFrame(f), NEW pc, NEW place
  PROVE  [f EXCEPT !.pc = pc, !.place = place] = [node |-> f.node, pc |-> pc, place |-> place]
<1>1. PICK n, q, r : f = [node |-> n, pc |-> q, place |-> r]
  BY DEF IsFrame
<1>2. f.node = n
  BY <1>1
<1> DEFINE k == [f EXCEPT !.pc = pc]
<1>3. k = [node |-> n, pc |-> pc, place |-> r]
  BY <1>1
<1>4. [f EXCEPT !.pc = pc, !.place = place] = [k EXCEPT !.place = place]
  OBVIOUS
<1> HIDE DEF k
<1>5. [k EXCEPT !.place = place] = [node |-> n, pc |-> pc, place |-> place]
  BY <1>3
<1>6. QED BY <1>2, <1>4, <1>5

\* The kinds whose frames never own a context.
LEMMA NeverOwns ==
  ASSUME Top.node.kind \notin {"Block", "Call"}, NEW pc, NEW place
  PROVE  ~OwnsScope(Top) /\ One(Going(pc, place)) = 0 /\ One(Top) = 0
  BY DEF OwnsScope, One, Going

\* Every step of the interpreter keeps the invariant.
LEMMA StepInv == IInv /\ [Next]_vars => IInv'
<1> SUFFICES ASSUME IInv, [Next]_vars PROVE IInv'
  OBVIOUS
<1>0. status = "running" => StackOK(frames) /\ IsSeq(scopes) /\ IsFrame(Top) /\ Top.pc \in Nat
                            /\ Len(scopes) \in Nat
  BY TopFacts, SeqFacts DEF IInv, IsFrame
<1>1. CASE EnterNext
  <2>1. status = "running" /\ Top.node.kind = "Enter" /\ Top.pc + 1 \in Nat /\ scopes' = scopes
        /\ Visit(Top.pc + 1, Kid(Top.pc + 1))
    BY <1>0, <1>1 DEF EnterNext
  <2>2. QED BY <2>1, NeverOwns, VisitPlain
<1>2. CASE EnterDone
  BY <1>2 DEF EnterDone, Abort, IInv
<1>3. CASE IntLiteral \/ getint \/ DeclRef \/ AndOrRight \/ IfDone \/ Break \/ Continue
           \/ ReturnNothing \/ ReturnValue
  <2>1. /\ status = "running" /\ Top.node.kind \notin {"Enter", "Block", "Call"}
        /\ frames' = Below /\ scopes' = scopes
    BY <1>3 DEF IntLiteral, getint, DeclRef, AndOrRight, IfDone, Break, Continue, ReturnNothing,
                ReturnValue, At, Answer
  <2>2. QED BY <1>0, <2>1, NeverOwns, AnswerPlain
<1>4. CASE AndOrLeft \/ VarDecl \/ If \/ While \/ Return
  <2>1. /\ status = "running" /\ Top.node.kind \notin {"Enter", "Block", "Call"}
        /\ Visit(1, Kid(1)) /\ scopes' = scopes
    BY <1>4 DEF AndOrLeft, VarDecl, If, While, Return, At
  <2>2. QED BY <2>1, NeverOwns, VisitPlain
<1>5. CASE AndOrDecide \/ IfArm \/ WhileTest \/ WhileBody
  <2>1. /\ status = "running" /\ Top.node.kind \notin {"Enter", "Block", "Call"}
        /\ scopes' = scopes
        /\ frames' = Below \/ \E pc \in {1, 2} : \E n : Visit(pc, n)
    BY <1>5 DEF AndOrDecide, IfArm, WhileTest, WhileBody, At, Answer
  <2>2. CASE frames' = Below
    BY <1>0, <2>1, <2>2, NeverOwns, AnswerPlain
  <2>3. ASSUME NEW pc \in {1, 2}, NEW n, Visit(pc, n) PROVE IInv'
    BY <2>1, <2>3, NeverOwns, VisitPlain
  <2>4. QED BY <2>1, <2>2, <2>3
<1>6. CASE CallArgument
  <2>1. /\ status = "running" /\ Top.node.kind = "Call" /\ Top.pc = 0
        /\ Visit(1, Kid(1)) /\ scopes' = scopes
    BY <1>6 DEF CallArgument, At
  <2>2. One(Going(1, Top.place)) = One(Top)
    BY <2>1 DEF One, OwnsScope, Going
  <2>3. QED BY <2>1, <2>2, VisitPlain
<1>7. CASE CallBody
  <2>1. /\ status = "running" /\ Top.node.kind = "Call" /\ Top.pc \in {0, 1}
        /\ Visit(2, Callee.body)
        /\ scopes' = Called \/ \E x, v : scopes' = setInfo(Called, x, v)
    BY <1>7 DEF CallBody, ArgumentsReady, At
  <2>2. One(Going(2, Top.place)) = 1 /\ One(Top) = 0
    BY <2>1 DEF One, OwnsScope, Going
  <2>3. IsSeq(Called) /\ Len(Called) = Len(scopes) + 1
    BY <1>0, <2>1, AppendFacts DEF Called
  <2>4. IsSeq(scopes') /\ Len(scopes') = Len(scopes) + 1
    BY <2>1, <2>3, SetInfoFacts
  <2>5. frames' = Append(Below, Going(2, Top.place)) \o <<Frame(Callee.body, 0)>>
    <3>1. [Top EXCEPT !.pc = 2] = Going(2, Top.place)
      BY <1>0, <2>1 DEF IsFrame, Going
    <3>2. QED BY <2>1, <3>1 DEF Visit
  <2>6. Len(scopes') + One(Top) = Len(scopes) + One(Going(2, Top.place))
    BY <1>0, <2>1, <2>2, <2>4
  <2>7. QED BY <2>1, <2>4, <2>5, <2>6, VisitStep
<1>8. CASE CallOverflow \/ CallWithoutResult
  BY <1>8 DEF CallOverflow, CallWithoutResult, Abort, IInv
<1>9. CASE CallDone \/ BlockDone
  <2>1. /\ status = "running" /\ Top.node.kind \in {"Call", "Block"}
        /\ OwnsScope(Top) /\ frames' = Below /\ scopes' = Popped
    BY <1>9 DEF CallDone, BlockDone, InBlock, At, Answer, OwnsScope, ScopesAfterBlock
  <2>2. One(Top) = 1
    BY <2>1 DEF One
  <2>3. Len(scopes) # 0
    <3>1. Len(scopes) = 1 + Owned(frames, Len(frames)) /\ StackOK(frames)
      BY <2>1 DEF IInv
    <3>2. Owned(frames, Len(frames)) = Owned(Below, Len(Below)) + One(Top)
          /\ Owned(Below, Len(Below)) \in Nat
      BY <3>1, TopFacts
    <3>3. QED BY <2>2, <3>1, <3>2
  <2>4. IsSeq(scopes') /\ Len(scopes') = Len(scopes) - 1
    BY <1>0, <2>1, <2>3, FrontFacts DEF Popped
  <2>5. Len(scopes') + One(Top) = Len(scopes)
    BY <1>0, <2>1, <2>2, <2>4
  <2>6. QED BY <2>1, <2>4, <2>5, AnswerStep
<1>10. CASE VarDeclSet
  <2>1. /\ status = "running" /\ Top.node.kind = "VarDecl" /\ frames' = Below
        /\ scopes' = setInfo(scopes, Top.node.name, return_value.v)
    BY <1>10 DEF VarDeclSet, At, Answer
  <2>2. IsSeq(scopes') /\ Len(scopes') = Len(scopes)
    BY <1>0, <2>1, SetInfoFacts
  <2>3. QED BY <2>1, <2>2, NeverOwns, AnswerPlain
<1>11. CASE Assign
  <2> DEFINE place == getInfo(Top.node.name)
  <2>1. /\ status = "running" /\ Top.node.kind = "Assign" /\ scopes' = scopes
        /\ frames' = Append(Below, [Top EXCEPT !.pc = 1, !.place = place]) \o <<Frame(Kid(1), 0)>>
    BY <1>11 DEF Assign, At
  <2> HIDE DEF place
  <2>2. [Top EXCEPT !.pc = 1, !.place = place] = Going(1, place)
    BY <1>0, <2>1, WrittenFrame DEF Going
  <2>3. One(Going(1, place)) = 0 /\ One(Top) = 0
    BY <2>1, NeverOwns
  <2>4. IsSeq(scopes') /\ Len(scopes') + One(Top) = Len(scopes) + One(Going(1, place))
    BY <1>0, <2>1, <2>3
  <2>5. frames' = Append(Below, Going(1, place)) \o <<Frame(Kid(1), 0)>>
    BY <2>1, <2>2
  <2>6. QED BY <2>1, <2>4, <2>5, VisitStep
<1>12. CASE AssignSet
  <2>1. /\ status = "running" /\ Top.node.kind = "Assign" /\ frames' = Below
        /\ scopes' = [scopes EXCEPT ![Top.place[1]].vals[Top.place[2]] = return_value.v]
    BY <1>12 DEF AssignSet, At, Answer
  <2>2. scopes' = [i \in DOMAIN scopes |-> scopes'[i]]
    BY <2>1
  <2>3. IsSeq(scopes') /\ Len(scopes') = Len(scopes)
    BY <1>0, <2>1, <2>2, RewrittenFacts
  <2>4. QED BY <2>1, <2>3, NeverOwns, AnswerPlain
<1>13. CASE Block
  <2>1. /\ status = "running" /\ Top.node.kind = "Block" /\ Top.pc = 0
        /\ scopes' = Nested /\ frames' = Append(Below, [Top EXCEPT !.pc = 1])
    BY <1>13 DEF Block, At
  <2>2. [Top EXCEPT !.pc = 1] = Going(1, Top.place)
    BY <1>0, <2>1 DEF IsFrame, Going
  <2>3. /\ StackOK(frames')
        /\ Owned(frames', Len(frames')) = Owned(Below, Len(Below)) + One(Going(1, Top.place))
    BY <1>0, <2>1, <2>2, GoOnFacts DEF Going
  <2>4. IsSeq(scopes') /\ Len(scopes') = Len(scopes) + 1
    BY <1>0, <2>1, AppendFacts DEF Nested
  <2>5. One(Going(1, Top.place)) = 1 /\ One(Top) = 0
    BY <2>1 DEF One, OwnsScope, Going
  <2>6. /\ Len(scopes) = 1 + Owned(frames, Len(frames))
        /\ Owned(frames, Len(frames)) = Owned(Below, Len(Below)) + One(Top)
        /\ Owned(Below, Len(Below)) \in Nat
    BY <1>0, <2>1, TopFacts DEF IInv
  <2>7. Len(scopes') = 1 + Owned(frames', Len(frames'))
    BY <2>3, <2>4, <2>5, <2>6
  <2>8. QED BY <2>3, <2>4, <2>7 DEF IInv
<1>14. CASE BlockNext
  <2>1. /\ status = "running" /\ Top.node.kind = "Block" /\ Top.pc > 0
        /\ Visit(Top.pc + 1, Kid(Top.pc)) /\ scopes' = scopes
    BY <1>14 DEF BlockNext, InBlock
  <2>2. Top.pc + 1 \in Nat /\ Top.pc + 1 > 0
    BY <1>0, <2>1
  <2>3. One(Going(Top.pc + 1, Top.place)) = One(Top)
    BY <2>1, <2>2 DEF One, OwnsScope, Going
  <2>4. QED BY <2>1, <2>2, <2>3, VisitPlain
<1>15. CASE Done \/ UNCHANGED vars
  BY <1>15 DEF Done, vars, IInv
<1>16. QED BY <1>1, <1>2, <1>3, <1>4, <1>5, <1>6, <1>7, <1>8, <1>9, <1>10, <1>11, <1>12, <1>13,
              <1>14, <1>15 DEF Next

\* The run starts with the global context alone.
LEMMA InitInv == Init => IInv
<1> SUFFICES ASSUME Init PROVE IInv
  OBVIOUS
<1> DEFINE f == Frame(Entry(program), 0)
<1>1. frames = <<f>> /\ scopes = <<Scope(0, Nothing)>>
  BY DEF Init
<1>2. IsFrame(f) /\ f.node.kind = "Enter" /\ ~OwnsScope(f)
  BY DEF IsFrame, Frame, Entry, OwnsScope
<1> HIDE DEF f
<1>3. frames = [i \in 1..1 |-> frames[i]] /\ frames[1] = f
  BY <1>1
<1>4. scopes = [i \in 1..1 |-> scopes[i]]
  BY <1>1
<1>5. IsSeq(frames) /\ Len(frames) = 1 /\ IsSeq(scopes) /\ Len(scopes) = 1
  BY <1>3, <1>4, FunctionIsSeq
<1>6. StackOK(frames)
  BY <1>2, <1>3, <1>5 DEF StackOK
<1>7. Owned(frames, 1) = 0
  <2>1. {j \in 1..1 : OwnsScope(frames[j])} = {}
    BY <1>2, <1>3
  <2>2. QED BY <2>1, FS_EmptySet DEF Owned
<1>8. QED BY <1>5, <1>6, <1>7 DEF IInv

\* However execute() leaves a block or a call (its end, a break, a continue or
\* a return from any depth), exactly its own context goes (Interpreter.cpp,
\* popCtxEnv), for any program and any depth of calls.
THEOREM ContextsFollowCalls == Spec => []ContextsBalanced
<1>1. IInv => ContextsBalanced
  BY DEF IInv, ContextsBalanced, ScopesOf, Owned
<1>2. QED BY <1>1, InitInv, StepInv, PTL DEF Spec

\* A set of numbers that is not empty has a least one.
LEMMA Least ==
  ASSUME NEW T, T \subseteq Nat, T # {}
  PROVE  \E n \in T : \A m \in T : n <= m
<1> DEFINE R == {ss \in Nat \X Nat : ss[1] < ss[2]}
<1>1. R = OpToRel(<, Nat)
  BY DEF OpToRel
<1>2. IsWellFoundedOn(R, Nat)
  BY <1>1, NatLessThanWellFounded
<1>3. PICK n \in T : \A m \in T : ~(<<m, n>> \in R)
  BY <1>2, WFMin
<1>4. \A m \in T : n <= m
  <2> SUFFICES ASSUME NEW m \in T PROVE n <= m
    OBVIOUS
  <2>1. m \in Nat /\ n \in Nat /\ ~(<<m, n>> \in R)
    BY <1>3
  <2>2. ~(m < n)
    BY <2>1
  <2>3. QED BY <2>1, <2>2
<1>5. QED BY <1>4

---------------------------------------------------------------------------
(* Contexts and the names they see.                                        *)

\* A place is that of a variable of one of the first d contexts.
PlaceOK(pl, d, s) == pl[1] \in 1..d /\ pl[2] \in DOMAIN s[pl[1]].vals

IsScope(sc) == sc = [parent |-> sc.parent, refs |-> sc.refs, vals |-> sc.vals]

ScopesOK(s) ==
  /\ IsSeq(s)
  /\ \A d \in 1..Len(s) :
       /\ IsScope(s[d]) /\ s[d].parent \in 0..(d - 1)
       /\ DOMAIN s[d].vals \subseteq DOMAIN s[d].refs
       /\ \A x \in DOMAIN s[d].vals : s[d].vals[x] \in BOOLEAN
       /\ \A x \in DOMAIN s[d].refs : PlaceOK(s[d].refs[x], d, s)

Chained(s) == IsSeq(s) /\ \A d \in 1..Len(s) : s[d].parent \in 0..(d - 1)

\* f says what the first n contexts see.
Sees(f, s, n) ==
  f = [i \in 0..n |-> IF i = 0 THEN Nothing ELSE Over(s[i].refs, f[s[i].parent])]

\* The entries of two maps, one over the other.
LEMMA OverFacts ==
  ASSUME NEW f, NEW g
  PROVE  /\ DOMAIN Over(f, g) = DOMAIN f \cup DOMAIN g
         /\ \A x \in DOMAIN f : Over(f, g)[x] = f[x]
         /\ \A x \in DOMAIN g \ DOMAIN f : Over(f, g)[x] = g[x]
  BY DEF Over

\* There is such a map for any number of contexts, by induction on it.
LEMMA SeesExists ==
  ASSUME NEW s, Chained(s), NEW n \in 0..Len(s)
  PROVE  \E f : Sees(f, s, n)
<1>1. Len(s) \in Nat
  BY SeqFacts DEF Chained
<1> DEFINE T == {k \in 0..Len(s) : ~ \E f : Sees(f, s, k)}
<1>2. SUFFICES ASSUME T # {} PROVE FALSE
  OBVIOUS
<1>3. PICK m \in T : \A k \in T : m <= k
  <2>1. T \subseteq Nat
    BY <1>1
  <2> HIDE DEF T
  <2>2. QED BY <1>2, <2>1, Least
<1>4. m # 0
  <2> DEFINE f == [i \in 0..0 |-> Nothing]
  <2>1. Sees(f, s, 0)
    BY DEF Sees
  <2>2. QED BY <1>3, <2>1
<1>5. m \in 1..Len(s) /\ m - 1 \in 0..Len(s) /\ ~(m <= m - 1)
  BY <1>1, <1>3, <1>4
<1>6. m - 1 \notin T
  BY <1>3, <1>5
<1>7. PICK f : Sees(f, s, m - 1)
  BY <1>5, <1>6
<1> DEFINE g == [i \in 0..m |-> IF i = m THEN Over(s[m].refs, f[s[m].parent]) ELSE f[i]]
<1>8. \A i \in 0..m : g[i] = IF i = 0 THEN Nothing ELSE Over(s[i].refs, g[s[i].parent])
  <2> SUFFICES ASSUME NEW i \in 0..m
               PROVE  g[i] = IF i = 0 THEN Nothing ELSE Over(s[i].refs, g[s[i].parent])
    OBVIOUS
  <2>1. CASE i = m
    <3>1. s[m].parent \in 0..(m - 1)
      BY <1>5 DEF Chained
    <3>2. g[s[m].parent] = f[s[m].parent]
      BY <1>5, <3>1
    <3>3. QED BY <1>4, <2>1, <3>2
  <2>2. CASE i # m
    <3>1. i \in 0..(m - 1) /\ g[i] = f[i]
      BY <1>5, <2>2
    <3>2. f[i] = IF i = 0 THEN Nothing ELSE Over(s[i].refs, f[s[i].parent])
      BY <1>7, <3>1 DEF Sees
    <3>3. CASE i = 0
      BY <3>1, <3>2, <3>3
    <3>4. CASE i # 0
      <4>1. i \in 1..Len(s) /\ i \in 1..(m - 1)
        BY <1>1, <1>5, <3>1, <3>4
      <4>2. s[i].parent \in 0..(i - 1)
        BY <4>1 DEF Chained
      <4>3. g[s[i].parent] = f[s[i].parent]
        BY <1>5, <4>1, <4>2
      <4>4. QED BY <3>1, <3>2, <3>4, <4>3
    <3>5. QED BY <3>3, <3>4
  <2>3. QED BY <2>1, <2>2
<1>9. Sees(g, s, m)
  <2>1. g = [i \in 0..m |-> g[i]]
    OBVIOUS
  <2> HIDE DEF g
  <2>2. QED BY <1>8, <2>1 DEF Sees
<1>10. QED BY <1>3, <1>9

\* So the recursive definition says what it seems to say.
LEMMA SeenDef ==
  ASSUME NEW s, Chained(s)
  PROVE  Sees(SeenIn(s), s, Len(s))
<1>1. Len(s) \in 0..Len(s)
  BY SeqFacts DEF Chained
<1>2. \E f : f = [i \in 0..Len(s) |-> IF i = 0 THEN Nothing ELSE Over(s[i].refs, f[s[i].parent])]
  BY <1>1, SeesExists DEF Sees
<1>3. QED BY <1>2 DEF SeenIn, Sees

\* What the context on a chain sees is its names and those its parent sees.
LEMMA SeenFacts ==
  ASSUME NEW s, Chained(s)
  PROVE  /\ SeenIn(s)[0] = Nothing
         /\ \A d \in 1..Len(s) :
              /\ SeenIn(s)[d] = Over(s[d].refs, SeenIn(s)[s[d].parent])
              /\ DOMAIN SeenIn(s)[d] = DOMAIN s[d].refs \cup DOMAIN SeenIn(s)[s[d].parent]
<1>1. Sees(SeenIn(s), s, Len(s)) /\ Len(s) \in Nat
  BY SeenDef, SeqFacts DEF Chained
<1>2. SeenIn(s)[0] = Nothing
  <2>1. 0 \in 0..Len(s)
    BY <1>1
  <2>2. QED BY <1>1, <2>1 DEF Sees
<1>3. ASSUME NEW d \in 1..Len(s)
      PROVE  SeenIn(s)[d] = Over(s[d].refs, SeenIn(s)[s[d].parent])
  <2>1. d \in 0..Len(s) /\ d # 0
    BY <1>1
  <2>2. QED BY <1>1, <2>1 DEF Sees
<1>4. ASSUME NEW d \in 1..Len(s)
      PROVE  DOMAIN SeenIn(s)[d] = DOMAIN s[d].refs \cup DOMAIN SeenIn(s)[s[d].parent]
  <2>1. SeenIn(s)[d] = Over(s[d].refs, SeenIn(s)[s[d].parent])
    BY <1>3
  <2> DEFINE f == s[d].refs
             g == SeenIn(s)[s[d].parent]
  <2> HIDE DEF f, g
  <2>2. DOMAIN Over(f, g) = DOMAIN f \cup DOMAIN g
    BY OverFacts, Zenon
  <2>3. QED BY <2>1, <2>2, Zenon DEF f, g
<1>5. QED BY <1>2, <1>3, <1>4

\* Contexts that are the same see the same.
LEMMA SeenSame ==
  ASSUME NEW s, Chained(s), NEW u, Chained(u), NEW n \in 0..Len(s), n <= Len(u),
         \A d \in 1..n : s[d].refs = u[d].refs /\ s[d].parent = u[d].parent
  PROVE  \A d \in 0..n : SeenIn(s)[d] = SeenIn(u)[d]
<1>1. Len(s) \in Nat /\ Len(u) \in Nat
  BY SeqFacts DEF Chained
<1> DEFINE T == {d \in 0..n : SeenIn(s)[d] # SeenIn(u)[d]}
<1>2. SUFFICES ASSUME T # {} PROVE FALSE
  OBVIOUS
<1>3. PICK m \in T : \A k \in T : m <= k
  <2>1. T \subseteq Nat
    BY <1>1
  <2> HIDE DEF T
  <2>2. QED BY <1>2, <2>1, Least
<1>4. m # 0
  BY <1>3, SeenFacts
<1>5. m \in 1..n /\ m \in 1..Len(s) /\ m \in 1..Len(u)
  BY <1>1, <1>3, <1>4
<1>6. s[m].parent \in 0..(m - 1)
  BY <1>5 DEF Chained
<1>7. s[m].parent \in 0..n /\ ~(m <= s[m].parent)
  BY <1>5, <1>6
<1>8. SeenIn(s)[s[m].parent] = SeenIn(u)[s[m].parent]
  BY <1>3, <1>7
<1>9. SeenIn(s)[m] = SeenIn(u)[m]
  BY <1>5, <1>8, SeenFacts
<1>10. QED BY <1>3, <1>9

\* Every place that a context sees holds a variable.
LEMMA SeenPlaces ==
  ASSUME NEW s, ScopesOK(s), NEW d \in 1..Len(s), NEW x \in DOMAIN SeenIn(s)[d]
  PROVE  PlaceOK(SeenIn(s)[d][x], d, s)
<1>1. Chained(s) /\ Len(s) \in Nat
  BY SeqFacts DEF ScopesOK, Chained
<1> DEFINE Bad(k) == \E y \in DOMAIN SeenIn(s)[k] : ~PlaceOK(SeenIn(s)[k][y], k, s)
           T == {k \in 1..Len(s) : Bad(k)}
<1>2. SUFFICES ASSUME T # {} PROVE FALSE
  OBVIOUS
<1>3. PICK m \in T : \A k \in T : m <= k
  <2>1. T \subseteq Nat
    BY <1>1
  <2> HIDE DEF T
  <2>2. QED BY <1>2, <2>1, Least
<1>4. PICK y \in DOMAIN SeenIn(s)[m] : ~PlaceOK(SeenIn(s)[m][y], m, s)
  BY <1>3
<1> DEFINE q == s[m].parent
<1>5. /\ SeenIn(s)[m] = Over(s[m].refs, SeenIn(s)[q])
      /\ DOMAIN SeenIn(s)[m] = DOMAIN s[m].refs \cup DOMAIN SeenIn(s)[q]
      /\ SeenIn(s)[0] = Nothing
  BY <1>1, <1>3, SeenFacts
<1>6. y \notin DOMAIN s[m].refs
  <2>1. y \in DOMAIN s[m].refs => SeenIn(s)[m][y] = s[m].refs[y]
    BY <1>5 DEF Over
  <2>2. QED BY <1>3, <1>4, <2>1 DEF ScopesOK
<1>7. y \in DOMAIN SeenIn(s)[q] /\ SeenIn(s)[m][y] = SeenIn(s)[q][y]
  BY <1>4, <1>5, <1>6 DEF Over
<1>8. q # 0
  BY <1>5, <1>7, EmptyFacts, SeqFacts DEF Nothing
<1>9. q \in 0..(m - 1)
  BY <1>3 DEF ScopesOK
<1>10. q \in 1..Len(s) /\ ~(m <= q)
  BY <1>1, <1>3, <1>8, <1>9
<1>11. PlaceOK(SeenIn(s)[q][y], q, s)
  BY <1>3, <1>7, <1>10
<1>12. PlaceOK(SeenIn(s)[q][y], m, s)
  BY <1>1, <1>9, <1>10, <1>11 DEF PlaceOK
<1>13. QED BY <1>4, <1>7, <1>12

\* u has the first k contexts of s, which see at least what they saw.
Keeps(s, u, k) ==
  /\ \A d \in 1..k : DOMAIN SeenIn(s)[d] \subseteq DOMAIN SeenIn(u)[d]
  /\ DOMAIN s[1].refs \subseteq DOMAIN u[1].refs

\* Contexts that are in order are chained to the first.
LEMMA ChainedFacts ==
  ASSUME NEW s, ScopesOK(s)
  PROVE  Chained(s) /\ IsSeq(s) /\ Len(s) \in Nat /\ DOMAIN s = 1..Len(s)
  BY SeqFacts DEF ScopesOK, Chained

\* Contexts with the same chains and names see the same.
LEMMA SameKeeps ==
  ASSUME NEW s, ScopesOK(s), NEW u, ScopesOK(u), NEW k \in Nat, 1 <= k, k <= Len(s), k <= Len(u),
         \A d \in 1..k : s[d].refs = u[d].refs /\ s[d].parent = u[d].parent
  PROVE  Keeps(s, u, k) /\ \A d \in 0..k : SeenIn(u)[d] = SeenIn(s)[d]
<1>1. Chained(s) /\ Chained(u) /\ Len(s) \in Nat /\ k \in 0..Len(s) /\ 1 \in 1..k
      /\ \A d \in 1..k : d \in 0..k
  BY ChainedFacts
<1>2. \A d \in 0..k : SeenIn(s)[d] = SeenIn(u)[d]
  BY <1>1, SeenSame
<1>3. QED BY <1>1, <1>2 DEF Keeps

\* A context is opened.
LEMMA OpenedFacts ==
  ASSUME NEW s, ScopesOK(s), Len(s) # 0, NEW q \in 0..Len(s), NEW refs,
         \A x \in DOMAIN refs : PlaceOK(refs[x], Len(s), s)
  PROVE  LET u == Append(s, Scope(q, refs)) IN
         /\ ScopesOK(u) /\ Len(u) = Len(s) + 1 /\ Keeps(s, u, Len(s))
         /\ DOMAIN SeenIn(u)[Len(u)] = DOMAIN refs \cup DOMAIN SeenIn(s)[q]
<1> DEFINE n == Len(s)
           sc == Scope(q, refs)
           u == Append(s, sc)
<1>1. Chained(s) /\ IsSeq(s) /\ n \in Nat /\ n # 0
  BY ChainedFacts
<1>2. IsSeq(u) /\ Len(u) = n + 1 /\ u[n + 1] = sc /\ \A d \in 1..n : u[d] = s[d]
  BY <1>1, AppendFacts
<1>3. IsScope(sc) /\ sc.parent = q /\ sc.refs = refs /\ DOMAIN sc.vals = {}
  BY EmptyFacts, SeqFacts DEF IsScope, Scope, Nothing
<1> HIDE DEF u, sc
<1>4. \A pl, d : d \in 1..n /\ PlaceOK(pl, d, s) => PlaceOK(pl, d, u)
  BY <1>1, <1>2 DEF PlaceOK
<1>5. \A pl : PlaceOK(pl, n, s) => PlaceOK(pl, n + 1, u)
  BY <1>1, <1>2 DEF PlaceOK
<1>6. ASSUME NEW d \in 1..Len(u)
      PROVE  /\ IsScope(u[d]) /\ u[d].parent \in 0..(d - 1)
             /\ DOMAIN u[d].vals \subseteq DOMAIN u[d].refs
             /\ \A x \in DOMAIN u[d].vals : u[d].vals[x] \in BOOLEAN
             /\ \A x \in DOMAIN u[d].refs : PlaceOK(u[d].refs[x], d, u)
  <2>1. CASE d \in 1..n
    <3>1. u[d] = s[d]
      BY <1>2, <2>1
    <3>2. QED BY <1>4, <2>1, <3>1 DEF ScopesOK
  <2>2. CASE d = n + 1
    <3>1. u[d] = sc /\ d - 1 = n
      BY <1>1, <1>2, <2>2
    <3>2. \A x \in DOMAIN refs : PlaceOK(refs[x], d, u)
      BY <1>5, <2>2
    <3>3. QED BY <1>3, <3>1, <3>2
  <2>3. QED BY <1>1, <1>2, <2>1, <2>2
<1>7. ScopesOK(u)
  BY <1>2, <1>6 DEF ScopesOK
<1>8. Keeps(s, u, n) /\ \A d \in 0..n : SeenIn(u)[d] = SeenIn(s)[d]
  <2>1. \A d \in 1..n : s[d].refs = u[d].refs /\ s[d].parent = u[d].parent
    BY <1>2
  <2>2. 1 <= n /\ n <= n /\ n <= Len(u)
    BY <1>1, <1>2
  <2>3. QED BY <1>1, <1>7, <2>1, <2>2, SameKeeps
<1>9. DOMAIN SeenIn(u)[n + 1] = DOMAIN refs \cup DOMAIN SeenIn(s)[q]
  <2>1. DOMAIN SeenIn(u)[n + 1] = DOMAIN u[n + 1].refs \cup DOMAIN SeenIn(u)[u[n + 1].parent]
    <3>1. Chained(u) /\ n + 1 \in 1..Len(u)
      BY <1>1, <1>2, <1>7, ChainedFacts
    <3>2. QED BY <3>1, SeenFacts
  <2>2. QED BY <1>2, <1>3, <1>8, <2>1
<1>10. QED BY <1>2, <1>7, <1>8, <1>9 DEF u, sc, n

\* An entry is put into the context on top.
LEMMA DeclaredFacts ==
  ASSUME NEW s, ScopesOK(s), Len(s) # 0, NEW x, NEW v \in BOOLEAN
  PROVE  LET u == setInfo(s, x, v) IN
         /\ ScopesOK(u) /\ Len(u) = Len(s) /\ Keeps(s, u, Len(s))
         /\ DOMAIN SeenIn(u)[Len(s)] = {x} \cup DOMAIN SeenIn(s)[Len(s)]
<1> DEFINE n == Len(s)
           u == setInfo(s, x, v)
<1>1. Chained(s) /\ IsSeq(s) /\ n \in Nat /\ n # 0 /\ n \in 1..n /\ DOMAIN s = 1..n
  BY ChainedFacts
<1>2. IsSeq(u) /\ Len(u) = n
  BY <1>1, SetInfoFacts
<1>3. \A d \in 1..n : d # n => u[d] = s[d]
  BY <1>1 DEF setInfo
<1>4. u[n] = [parent |-> s[n].parent, refs |-> Put(s[n].refs, x, <<n, x>>),
              vals |-> Put(s[n].vals, x, v)]
  BY <1>1 DEF setInfo
<1> HIDE DEF u
<1>5. /\ u[n].parent = s[n].parent /\ u[n].refs = Put(s[n].refs, x, <<n, x>>)
      /\ u[n].vals = Put(s[n].vals, x, v) /\ IsScope(u[n])
  BY <1>4 DEF IsScope
<1> HIDE DEF n
<1>14. /\ DOMAIN u[n].refs = {x} \cup DOMAIN s[n].refs /\ u[n].refs[x] = <<n, x>>
       /\ \A y \in DOMAIN s[n].refs : y # x => u[n].refs[y] = s[n].refs[y]
  <2> DEFINE R == s[n].refs
             r == <<n, x>>
  <2>1. u[n].refs = Put(R, x, r)
    BY <1>5
  <2> HIDE DEF R, r
  <2>2. DOMAIN Put(R, x, r) = {x} \cup DOMAIN R
    BY DEF Put
  <2>4. Put(R, x, r)[x] = r
    BY DEF Put
  <2>5. \A y \in DOMAIN R : y # x => Put(R, x, r)[y] = R[y]
    BY DEF Put
  <2>3. QED BY <2>1, <2>2, <2>4, <2>5, Zenon DEF R, r
<1>15. /\ DOMAIN u[n].vals = {x} \cup DOMAIN s[n].vals /\ u[n].vals[x] = v
       /\ \A y \in DOMAIN s[n].vals : y # x => u[n].vals[y] = s[n].vals[y]
  <2> DEFINE V == s[n].vals
  <2>1. u[n].vals = Put(V, x, v)
    BY <1>5
  <2> HIDE DEF V
  <2>2. DOMAIN Put(V, x, v) = {x} \cup DOMAIN V
    BY DEF Put
  <2>4. Put(V, x, v)[x] = v
    BY DEF Put
  <2>5. \A y \in DOMAIN V : y # x => Put(V, x, v)[y] = V[y]
    BY DEF Put
  <2>3. QED BY <2>1, <2>2, <2>4, <2>5, Zenon DEF V
<1>6. \A d \in 1..n : DOMAIN s[d].vals \subseteq DOMAIN u[d].vals
  <2> SUFFICES ASSUME NEW d \in 1..n PROVE DOMAIN s[d].vals \subseteq DOMAIN u[d].vals
    OBVIOUS
  <2>1. CASE d = n
    BY <1>15, <2>1
  <2>2. QED BY <1>3, <2>1
<1>7. \A pl, d : d \in 1..n /\ PlaceOK(pl, d, s) => PlaceOK(pl, d, u)
  <2> SUFFICES ASSUME NEW pl, NEW d \in 1..n, PlaceOK(pl, d, s) PROVE PlaceOK(pl, d, u)
    OBVIOUS
  <2>1. pl[1] \in 1..d /\ pl[2] \in DOMAIN s[pl[1]].vals
    BY DEF PlaceOK
  <2>2. pl[1] \in 1..n
    BY <1>1, <2>1
  <2>3. QED BY <1>6, <2>1, <2>2 DEF PlaceOK
<1>8. ASSUME NEW d \in 1..n
      PROVE  /\ IsScope(u[d]) /\ u[d].parent \in 0..(d - 1)
             /\ DOMAIN u[d].vals \subseteq DOMAIN u[d].refs
             /\ \A y \in DOMAIN u[d].vals : u[d].vals[y] \in BOOLEAN
             /\ \A y \in DOMAIN u[d].refs : PlaceOK(u[d].refs[y], d, u)
  <2>0. /\ IsScope(s[d]) /\ s[d].parent \in 0..(d - 1)
        /\ DOMAIN s[d].vals \subseteq DOMAIN s[d].refs
        /\ \A y \in DOMAIN s[d].vals : s[d].vals[y] \in BOOLEAN
        /\ \A y \in DOMAIN s[d].refs : PlaceOK(s[d].refs[y], d, s)
    BY DEF ScopesOK, n
  <2>1. CASE d # n
    <3>1. u[d] = s[d]
      BY <1>3, <2>1
    <3>2. QED BY <1>7, <2>0, <3>1
  <2>2. CASE d = n
    <3> DEFINE R == s[n].refs
               V == s[n].vals
               r == <<n, x>>
    <3>1. /\ DOMAIN u[n].refs = {x} \cup DOMAIN R /\ u[n].refs[x] = r
          /\ \A y \in DOMAIN R : y # x => u[n].refs[y] = R[y]
      BY <1>14
    <3>2. /\ DOMAIN u[n].vals = {x} \cup DOMAIN V /\ u[n].vals[x] = v
          /\ \A y \in DOMAIN V : y # x => u[n].vals[y] = V[y]
      BY <1>15
    <3>3. PlaceOK(r, n, u)
      <4>1. r[1] = n /\ r[2] = x
        OBVIOUS
      <4>2. QED BY <1>1, <3>2, <4>1 DEF PlaceOK
    <3> HIDE DEF r
    <3>4. \A y \in DOMAIN u[n].refs : PlaceOK(u[n].refs[y], n, u)
      <4> SUFFICES ASSUME NEW y \in DOMAIN u[n].refs PROVE PlaceOK(u[n].refs[y], n, u)
        OBVIOUS
      <4>1. CASE y = x
        BY <3>1, <3>3, <4>1
      <4>2. CASE y # x
        <5>1. y \in DOMAIN R /\ u[n].refs[y] = R[y]
          BY <3>1, <4>2
        <5>2. PlaceOK(R[y], n, s)
          BY <2>0, <2>2, <5>1
        <5>3. QED BY <1>1, <1>7, <5>1, <5>2
      <4>3. QED BY <4>1, <4>2
    <3>5. \A y \in DOMAIN u[n].vals : u[n].vals[y] \in BOOLEAN
      BY <2>0, <2>2, <3>2
    <3>6. DOMAIN u[n].vals \subseteq DOMAIN u[n].refs
      BY <2>0, <2>2, <3>1, <3>2
    <3>7. IsScope(u[n]) /\ u[n].parent \in 0..(n - 1)
      BY <1>5, <2>0, <2>2
    <3>8. QED BY <2>2, <3>4, <3>5, <3>6, <3>7
  <2>3. QED BY <2>1, <2>2
<1>9. ScopesOK(u) /\ Chained(u)
  <2>1. ScopesOK(u)
    BY <1>2, <1>8 DEF ScopesOK
  <2>2. QED BY <2>1, ChainedFacts
<1>10. \A d \in 0..(n - 1) : SeenIn(s)[d] = SeenIn(u)[d]
  <2>1. n - 1 \in 0..Len(s) /\ n - 1 <= Len(u)
    BY <1>1, <1>2 DEF n
  <2>2. \A d \in 1..(n - 1) : d \in 1..n /\ d # n
    BY <1>1
  <2>3. \A d \in 1..(n - 1) : s[d].refs = u[d].refs /\ s[d].parent = u[d].parent
    BY <1>3, <2>2
  <2>4. QED BY <1>1, <1>9, <2>1, <2>3, SeenSame
<1>11. DOMAIN SeenIn(u)[n] = {x} \cup DOMAIN SeenIn(s)[n]
  <2>1. n \in 1..Len(s) /\ n \in 1..Len(u)
    BY <1>1, <1>2 DEF n
  <2>2. /\ DOMAIN SeenIn(s)[n] = DOMAIN s[n].refs \cup DOMAIN SeenIn(s)[s[n].parent]
        /\ DOMAIN SeenIn(u)[n] = DOMAIN u[n].refs \cup DOMAIN SeenIn(u)[u[n].parent]
    BY <1>1, <1>9, <2>1, SeenFacts
  <2>3. SeenIn(u)[u[n].parent] = SeenIn(s)[s[n].parent]
    BY <1>5, <1>1, <1>8, <1>10
  <2>4. QED BY <1>14, <2>2, <2>3
<1>12. Keeps(s, u, n)
  <2>1. DOMAIN s[1].refs \subseteq DOMAIN u[1].refs
    <3>1. 1 = n \/ (1 \in 1..n /\ 1 # n)
      BY <1>1
    <3>2. QED BY <1>3, <1>14, <3>1
  <2>2. ASSUME NEW d \in 1..n PROVE DOMAIN SeenIn(s)[d] \subseteq DOMAIN SeenIn(u)[d]
    <3>1. d = n \/ d \in 0..(n - 1)
      BY <1>1
    <3>2. QED BY <1>10, <1>11, <3>1
  <2>3. QED BY <2>1, <2>2 DEF Keeps
<1>13. QED BY <1>2, <1>9, <1>11, <1>12 DEF u, n

\* A variable of context e is assigned.
Stored(s, e, y, v) == [s EXCEPT ![e].vals[y] = v]

\* An assignment leaves what the contexts see.
LEMMA StoredFacts ==
  ASSUME NEW s, ScopesOK(s), Len(s) # 0, NEW e, NEW y, NEW v \in BOOLEAN
  PROVE  LET u == Stored(s, e, y, v) IN
         ScopesOK(u) /\ Len(u) = Len(s) /\ Keeps(s, u, Len(s))
<1> DEFINE n == Len(s)
           u == Stored(s, e, y, v)
<1>1. IsSeq(s) /\ n \in Nat /\ n # 0 /\ DOMAIN s = 1..n
  BY ChainedFacts
<1>2. u = [d \in DOMAIN s |-> u[d]]
  BY DEF Stored
<1>3. IsSeq(u) /\ Len(u) = n
  BY <1>1, <1>2, RewrittenFacts
<1>4. \A d \in 1..n : u[d] = IF d = e THEN [s[d] EXCEPT !.vals = [@ EXCEPT ![y] = v]] ELSE s[d]
  BY <1>1 DEF Stored
<1> HIDE DEF u
<1>5. ASSUME NEW d \in 1..n
      PROVE  /\ IsScope(u[d]) /\ u[d].parent = s[d].parent /\ u[d].refs = s[d].refs
             /\ DOMAIN u[d].vals = DOMAIN s[d].vals
             /\ \A x \in DOMAIN u[d].vals : u[d].vals[x] \in BOOLEAN
  <2>1. IsScope(s[d]) /\ \A x \in DOMAIN s[d].vals : s[d].vals[x] \in BOOLEAN
    BY DEF ScopesOK
  <2>2. CASE d = e
    <3> DEFINE w == [s[d].vals EXCEPT ![y] = v]
    <3>1. DOMAIN w = DOMAIN s[d].vals /\ \A x \in DOMAIN w : w[x] \in BOOLEAN
      BY <2>1
    <3>2. u[d] = [s[d] EXCEPT !.vals = w]
      BY <1>4, <2>2
    <3> HIDE DEF w
    <3>3. PICK sc : sc = s[d] /\ sc = [parent |-> sc.parent, refs |-> sc.refs, vals |-> sc.vals]
      BY <2>1 DEF IsScope
    <3>4. u[d] = [parent |-> sc.parent, refs |-> sc.refs, vals |-> w]
      BY <3>2, <3>3
    <3>5. u[d].parent = sc.parent /\ u[d].refs = sc.refs /\ u[d].vals = w /\ IsScope(u[d])
      BY <3>4 DEF IsScope
    <3>6. QED BY <3>1, <3>3, <3>5
  <2>3. CASE d # e
    BY <1>4, <2>1, <2>3
  <2>4. QED BY <2>2, <2>3
<1>6. \A pl, d : d \in 1..n /\ PlaceOK(pl, d, s) => PlaceOK(pl, d, u)
  <2> SUFFICES ASSUME NEW pl, NEW d \in 1..n, PlaceOK(pl, d, s) PROVE PlaceOK(pl, d, u)
    OBVIOUS
  <2>1. pl[1] \in 1..d /\ pl[2] \in DOMAIN s[pl[1]].vals
    BY DEF PlaceOK
  <2>2. pl[1] \in 1..n
    BY <1>1, <2>1
  <2>3. QED BY <1>5, <2>1, <2>2 DEF PlaceOK
<1>7. ScopesOK(u)
  <2>1. ASSUME NEW d \in 1..n
        PROVE  /\ u[d].parent \in 0..(d - 1)
               /\ DOMAIN u[d].vals \subseteq DOMAIN u[d].refs
               /\ \A x \in DOMAIN u[d].refs : PlaceOK(u[d].refs[x], d, u)
    <3>1. /\ s[d].parent \in 0..(d - 1)
          /\ DOMAIN s[d].vals \subseteq DOMAIN s[d].refs
          /\ \A x \in DOMAIN s[d].refs : PlaceOK(s[d].refs[x], d, s)
      BY DEF ScopesOK
    <3>2. QED BY <1>5, <1>6, <3>1
  <2>2. QED BY <1>3, <1>5, <2>1 DEF ScopesOK
<1>8. Keeps(s, u, n)
  <2>1. \A d \in 1..n : s[d].refs = u[d].refs /\ s[d].parent = u[d].parent
    BY <1>5
  <2>2. 1 <= n /\ n <= n /\ n <= Len(u)
    BY <1>1, <1>3
  <2>3. QED BY <1>1, <1>7, <2>1, <2>2, SameKeeps
<1>9. QED BY <1>3, <1>7, <1>8 DEF u, n

\* The context on top goes.
LEMMA PoppedFacts ==
  ASSUME NEW s, ScopesOK(s), Len(s) # 0
  PROVE  LET u == SubSeq(s, 1, Len(s) - 1) IN
         /\ ScopesOK(u) /\ Len(u) = Len(s) - 1
         /\ Len(u) # 0 => Keeps(s, u, Len(u))
<1> DEFINE n == Len(s)
           u == SubSeq(s, 1, n - 1)
<1>1. IsSeq(s) /\ n \in Nat /\ n # 0 /\ n - 1 \in Nat
  BY ChainedFacts
<1>2. IsSeq(u) /\ Len(u) = n - 1 /\ \A d \in 1..(n - 1) : u[d] = s[d] /\ d \in 1..n
  BY <1>1, FrontFacts
<1> HIDE DEF u
<1>3. \A pl, d : d \in 1..(n - 1) /\ PlaceOK(pl, d, s) => PlaceOK(pl, d, u)
  <2> SUFFICES ASSUME NEW pl, NEW d \in 1..(n - 1), PlaceOK(pl, d, s) PROVE PlaceOK(pl, d, u)
    OBVIOUS
  <2>1. pl[1] \in 1..d /\ pl[2] \in DOMAIN s[pl[1]].vals
    BY DEF PlaceOK
  <2>2. pl[1] \in 1..(n - 1)
    BY <1>1, <2>1
  <2>3. QED BY <1>2, <2>1, <2>2 DEF PlaceOK
<1>4. ScopesOK(u)
  <2>1. ASSUME NEW d \in 1..Len(u)
        PROVE  /\ IsScope(u[d]) /\ u[d].parent \in 0..(d - 1)
               /\ DOMAIN u[d].vals \subseteq DOMAIN u[d].refs
               /\ \A x \in DOMAIN u[d].vals : u[d].vals[x] \in BOOLEAN
               /\ \A x \in DOMAIN u[d].refs : PlaceOK(u[d].refs[x], d, u)
    <3>1. u[d] = s[d] /\ d \in 1..n /\ d \in 1..(n - 1)
      BY <1>2
    <3>2. QED BY <1>3, <3>1 DEF ScopesOK
  <2>2. QED BY <1>2, <2>1 DEF ScopesOK
<1>5. ASSUME Len(u) # 0 PROVE Keeps(s, u, Len(u))
  <2>1. Len(u) \in Nat /\ 1 <= Len(u) /\ Len(u) <= Len(s) /\ Len(u) <= Len(u)
    BY <1>1, <1>2, <1>5
  <2>2. \A d \in 1..Len(u) : s[d].refs = u[d].refs /\ s[d].parent = u[d].parent
    BY <1>2
  <2>3. QED BY <1>4, <2>1, <2>2, SameKeeps
<1>6. QED BY <1>2, <1>4, <1>5 DEF u, n

---------------------------------------------------------------------------
(* What the frames were called for.                                        *)

Answers == {None, Breaking, Continuing} \cup {Value(v) : v \in BOOLEAN}
             \cup {Returned(v) : v \in BOOLEAN \cup {NoValue}}

\* What may be answered where asks are asked.
Answering(r, asks) ==
  /\ r \in Answers
  /\ "value" \in asks => r.is = "value"
  /\ r.is \in {"break", "continue"} => "loop" \in asks
  /\ r.is = "return" /\ "result" \in asks => r.v # NoValue

\* What frame f, of which asks are asked, asks of the part it visited last.
Asked(p, f, asks) ==
  IF f.node.kind = "Enter" THEN (IF f.pc < Len(f.node.kids) THEN {"constant"} ELSE {"result"})
  ELSE IF f.node.kind = "Call" /\ f.pc = 2 THEN BodyAsks(p.funcs[f.node.name])
  ELSE AskedOf(f.node.kind, f.pc, asks)

\* Frames that visit their parts in turn, and the part visited last.
Lists(f) == f.node.kind \in {"Enter", "Block"}
Reached(f) == IF f.node.kind = "Enter" THEN f.pc ELSE f.pc - 1

PcOK(f) ==
  /\ f.node.kind = "Enter" => f.pc \in 0..Len(f.node.kids)
  /\ f.node.kind = "Block" => f.pc \in 0..(Len(f.node.kids) + 1)
  /\ f.node.kind \in {"And", "Or", "Call", "If", "While"} => f.pc \in 0..2
  /\ f.node.kind \in {"VarDecl", "Assign", "Return"} => f.pc \in 0..1
  /\ f.node.kind \in {"IntLiteral", "getint", "DeclRef", "Break", "Continue"} => f.pc = 0

\* The names that frame f relies on when its first parts, all but the last
\* `open' of those visited, are done.
Relied(f, names, open) ==
  IF f.node.kind = "Call" /\ f.pc = 2 THEN {}
  ELSE IF Lists(f) THEN names \cup Declared(f.node.kids, Reached(f) - open) ELSE names

Depth(fr, i) == 1 + Owned(fr, i)

\* Frame i was called for a[i], where the names nm[i] are declared.
Stacked(p, fr, a, nm) ==
  /\ fr[1].node = Entry(p) /\ a[1] = {} /\ nm[1] = {}
  /\ \A i \in 1..Len(fr) : PcOK(fr[i])
  /\ \A i \in 2..Len(fr) : <<fr[i].node, a[i], nm[i]>> \in Nodes[p]
  /\ \A i \in 1..(Len(fr) - 1) :
       /\ fr[i].pc > 0
       /\ a[i + 1] = Asked(p, fr[i], a[i])
       /\ Lists(fr[i]) => fr[i + 1].node = fr[i].node.kids[Reached(fr[i])]

\* The contexts see the names the frames rely on.
Named(p, fr, a, nm, s) ==
  /\ \A i \in 1..(Len(fr) - 1) : Relied(fr[i], nm[i], 1) \subseteq DOMAIN SeenIn(s)[Depth(fr, i)]
  /\ Relied(fr[Len(fr)], nm[Len(fr)], 0) \subseteq DOMAIN SeenIn(s)[Depth(fr, Len(fr))]
  /\ \A i \in 2..Len(fr) : "constant" \notin a[i] => Globals(p) \subseteq DOMAIN s[1].refs

\* The register holds what the frame on top may find there.
Returning(p, f, asks, r) ==
  IF f.pc = 0 THEN "value" \in asks \/ Answering(r, asks) ELSE Answering(r, Asked(p, f, asks))

Typed == \E a, nm : /\ Stacked(program, frames, a, nm)
                    /\ Named(program, frames, a, nm, scopes)
                    /\ Returning(program, Top, a[Len(frames)], return_value)

TypesInv ==
  /\ TypeOK
  /\ ScopesOK(scopes)
  /\ status = "running" => Typed

---------------------------------------------------------------------------
(* Well-formed programs.                                                   *)

\* A node of a program and its parts.
LEMMA NodeFacts ==
  ASSUME NEW p \in Programs, NEW n, NEW asks, NEW names, <<n, asks, names>> \in Nodes[p]
  PROVE  /\ Fits(p, n, asks, names)
         /\ IsSeq(n.kids) /\ Len(n.kids) \in Nat /\ DOMAIN n.kids = 1..Len(n.kids)
         /\ \A i \in 1..Len(n.kids) :
              <<n.kids[i], AskedOf(n.kind, i, asks), NamesAt(n, i, names)>> \in Nodes[p]
<1> DEFINE nd == <<n, asks, names>>
<1>1. nd[1] = n /\ nd[2] = asks /\ nd[3] = names
  OBVIOUS
<1>2. /\ Fits(p, nd[1], nd[2], nd[3])
      /\ \A i \in DOMAIN nd[1].kids :
           <<nd[1].kids[i], AskedOf(nd[1].kind, i, nd[2]), NamesAt(nd[1], i, nd[3])>> \in Nodes[p]
  <2> HIDE DEF nd
  <2>1. nd \in Nodes[p]
    BY DEF nd
  <2>2. QED BY <2>1, ProgramsAssumption DEF WellFormed
<1> HIDE DEF nd
<1>3. Fits(p, n, asks, names)
  BY <1>1, <1>2
<1>4. IsSeq(n.kids)
  BY <1>3 DEF Fits, IsSeq
<1>5. Len(n.kids) \in Nat /\ DOMAIN n.kids = 1..Len(n.kids)
  BY <1>4, SeqFacts
<1>6. QED BY <1>1, <1>2, <1>3, <1>4, <1>5

\* The parts of enter's node: globals and main.
LEMMA EntryFacts ==
  ASSUME NEW p \in Programs
  PROVE  LET n == Entry(p) IN
         /\ IsSeq(n.kids) /\ Len(n.kids) = Len(p.globals) + 1 /\ Len(p.globals) \in Nat
         /\ \A i \in 1..Len(p.globals) :
              <<n.kids[i], {"constant"}, Declared(n.kids, i - 1)>> \in Nodes[p]
         /\ <<n.kids[Len(n.kids)], {"result"}, Globals(p)>> \in Nodes[p]
         /\ Declared(n.kids, Len(p.globals)) = Globals(p)
<1> DEFINE gs == p.globals
           ks == Append(gs, p.main)
           n == Len(gs)
<1>1. /\ IsSeq(gs) /\ <<p.main, {"result"}, Globals(p)>> \in Nodes[p]
      /\ \A i \in DOMAIN gs : <<gs[i], {"constant"}, Declared(gs, i - 1)>> \in Nodes[p]
  BY ProgramsAssumption DEF WellFormed, IsSeq
<1>2. n \in Nat /\ DOMAIN gs = 1..n
  BY <1>1, SeqFacts
<1>3. IsSeq(ks) /\ Len(ks) = n + 1 /\ ks[n + 1] = p.main /\ \A i \in 1..n : ks[i] = gs[i]
  BY <1>1, AppendFacts
<1>4. Entry(p).kids = ks
  BY DEF Entry
<1> HIDE DEF ks
<1>5. \A k \in 0..n : Declared(ks, k) = Declared(gs, k)
  <2> SUFFICES ASSUME NEW k \in 0..n PROVE Declared(ks, k) = Declared(gs, k)
    OBVIOUS
  <2>1. \A i \in 1..k : ks[i] = gs[i]
    BY <1>2, <1>3
  <2>2. QED BY <2>1 DEF Declared
<1>6. \A i \in 1..n : <<ks[i], {"constant"}, Declared(ks, i - 1)>> \in Nodes[p]
  <2> SUFFICES ASSUME NEW i \in 1..n
               PROVE  <<ks[i], {"constant"}, Declared(ks, i - 1)>> \in Nodes[p]
    OBVIOUS
  <2>1. i - 1 \in 0..n
    BY <1>2
  <2>2. ks[i] = gs[i] /\ Declared(ks, i - 1) = Declared(gs, i - 1)
    BY <1>3, <1>5, <2>1
  <2>3. QED BY <1>1, <1>2, <2>2
<1>7. Declared(ks, n) = Globals(p)
  <2>1. n \in 0..n
    BY <1>2
  <2>2. QED BY <1>5, <2>1 DEF Globals
<1>8. QED BY <1>1, <1>2, <1>3, <1>4, <1>6, <1>7

\* More frames count at least as many contexts.
LEMMA OwnedGrows ==
  ASSUME NEW fr, NEW i \in Nat, NEW j \in Nat, i <= j
  PROVE  Owned(fr, i) <= Owned(fr, j) /\ Owned(fr, i) \in Nat /\ Owned(fr, j) \in Nat
<1> DEFINE S == {k \in 1..i : OwnsScope(fr[k])}
           T == {k \in 1..j : OwnsScope(fr[k])}
<1>1. S \subseteq T
  OBVIOUS
<1>2. IsFiniteSet(T)
  <2>1. IsFiniteSet(1..j) /\ T \subseteq 1..j
    BY FS_Interval
  <2> HIDE DEF T
  <2>2. QED BY <2>1, FS_Subset
<1>3. Cardinality(S) <= Cardinality(T)
  <2> HIDE DEF S, T
  <2>1. QED BY <1>1, <1>2, FS_Subset
<1>4. Owned(fr, i) \in Nat /\ Owned(fr, j) \in Nat
  BY OwnedNext
<1>5. QED BY <1>3, <1>4 DEF Owned

\* One part more is done.
LEMMA DeclaredNext ==
  ASSUME NEW ns, NEW k \in Int, NEW x \in Declared(ns, k)
  PROVE  x \in Declared(ns, k - 1) \/ (ns[k].kind = "VarDecl" /\ x = ns[k].name)
<1>1. PICK j \in 1..k : ns[j].kind = "VarDecl" /\ x = ns[j].name
  BY DEF Declared
<1>2. CASE j = k
  BY <1>1, <1>2
<1>3. CASE j # k
  <2>1. j \in 1..(k - 1)
    BY <1>3
  <2>2. QED BY <1>1, <2>1 DEF Declared
<1>4. QED BY <1>2, <1>3

\* Frames that stay are as deep as they were.
LEMMA DepthSame ==
  ASSUME NEW fr, NEW g, NEW n \in Nat, \A i \in 1..n : g[i] = fr[i]
  PROVE  Depth(g, n) = Depth(fr, n)
<1>1. Owned(g, n) = Owned(fr, n)
  BY OwnedSame
<1>2. QED BY <1>1 DEF Depth

\* The depths grow to the top.
LEMMA DepthGrows ==
  ASSUME NEW fr, NEW i \in Nat, NEW k \in Nat, i <= k
  PROVE  Depth(fr, i) \in 1..Depth(fr, k)
<1>1. Owned(fr, i) <= Owned(fr, k) /\ Owned(fr, i) \in Nat /\ Owned(fr, k) \in Nat
  BY OwnedGrows
<1>2. QED BY <1>1 DEF Depth

\* The frame on top goes on at t and visits node n, whose names are declared:
\* fr and s become g and u.
Pushed(p, fr, a, nm, s, t, n, names, g, u) ==
  /\ StackOK(fr) /\ Stacked(p, fr, a, nm) /\ Named(p, fr, a, nm, s)
  /\ t.node = fr[Len(fr)].node /\ t.pc > 0 /\ PcOK(t)
  /\ Lists(t) => n = t.node.kids[Reached(t)]
  /\ <<n, Asked(p, t, a[Len(fr)]), names>> \in Nodes[p]
  /\ Len(g) = Len(fr) + 1 /\ g[Len(fr)] = t /\ g[Len(fr) + 1] = Frame(n, 0)
  /\ \A i \in 1..(Len(fr) - 1) : g[i] = fr[i]
  /\ Keeps(s, u, Depth(fr, Len(fr)))
  /\ names \subseteq DOMAIN SeenIn(u)[Depth(g, Len(fr) + 1)]
  /\ Relied(t, nm[Len(fr)], 1) \subseteq DOMAIN SeenIn(u)[Depth(g, Len(fr))]
  /\ "constant" \notin Asked(p, t, a[Len(fr)]) => Globals(p) \subseteq DOMAIN u[1].refs

\* Then the new frame was called for what is asked of n.
LEMMA PushTyped ==
  ASSUME NEW p \in Programs, NEW fr, NEW a, NEW nm, NEW s, NEW t, NEW n, NEW names, NEW g, NEW u,
         Pushed(p, fr, a, nm, s, t, n, names, g, u)
  PROVE  \E b, m : /\ Stacked(p, g, b, m) /\ Named(p, g, b, m, u)
                   /\ b[Len(g)] = Asked(p, t, a[Len(fr)])
<1> USE DEF Pushed
<1> DEFINE l == Len(fr)
           asks == Asked(p, t, a[l])
           b == [i \in 1..(l + 1) |-> IF i = l + 1 THEN asks ELSE a[i]]
           m == [i \in 1..(l + 1) |-> IF i = l + 1 THEN names ELSE nm[i]]
           f == Frame(n, 0)
<1>1. l \in Nat \ {0} /\ l - 1 \in Nat /\ ~(l = l + 1) /\ l \in 1..l /\ l + 1 - 1 = l
  BY DEF StackOK
<1> HIDE DEF l
<1>2. /\ b[l + 1] = asks /\ m[l + 1] = names
      /\ \A i \in 1..l : b[i] = a[i] /\ m[i] = nm[i]
  <2>1. \A i \in 1..l : i \in 1..(l + 1) /\ i # l + 1
    BY <1>1
  <2>2. l + 1 \in 1..(l + 1)
    BY <1>1
  <2>3. QED BY <2>1, <2>2
<1> HIDE DEF b, m, asks
<1>3. /\ \A i \in 1..(l + 1) : i \in 1..(l - 1) \/ i = l \/ i = l + 1
      /\ \A i \in 1..l : i \in 1..(l - 1) \/ i = l
      /\ \A i \in 1..(l - 1) : i \in 1..l /\ i + 1 \in 1..l
      /\ \A i \in 2..(l + 1) : i \in 2..l \/ i = l + 1
      /\ \A i \in 2..l : i \in 1..l
  BY <1>1
<1>4. g[l] = t /\ g[l + 1] = f /\ Len(g) = l + 1 /\ \A i \in 1..(l - 1) : g[i] = fr[i]
  BY DEF l
<1>5. f.node = n /\ f.pc = 0
  BY DEF Frame
<1> HIDE DEF f
<1>6. Fits(p, n, asks, names) /\ Len(n.kids) \in Nat
  BY NodeFacts DEF asks, l
<1>7. n.kind \in Expressions \cup Statements /\ n.kind # "Enter" /\ PcOK(f)
  <2>1. n.kind \in Expressions \cup Statements /\ n.kind # "Enter"
    BY <1>6 DEF Fits, Expressions, Statements
  <2>2. QED BY <1>5, <1>6, <2>1 DEF PcOK
<1>8. \A i \in 1..l : g[i].node = fr[i].node
  BY <1>3, <1>4 DEF l
<1>9. Stacked(p, g, b, m)
  <2>1. g[1].node = Entry(p) /\ b[1] = {} /\ m[1] = {}
    <3>1. 1 \in 1..l
      BY <1>1
    <3>2. QED BY <1>2, <1>8, <3>1 DEF Stacked
  <2>2. \A i \in 1..(l + 1) : PcOK(g[i])
    <3>1. \A i \in 1..(l - 1) : PcOK(g[i])
      BY <1>3, <1>4 DEF Stacked, l
    <3>2. QED BY <1>3, <1>4, <1>7, <3>1
  <2>3. \A i \in 2..(l + 1) : <<g[i].node, b[i], m[i]>> \in Nodes[p]
    <3>1. ASSUME NEW i \in 2..l PROVE <<g[i].node, b[i], m[i]>> \in Nodes[p]
      <4>1. g[i].node = fr[i].node /\ b[i] = a[i] /\ m[i] = nm[i]
        BY <1>2, <1>3, <1>8
      <4>2. <<fr[i].node, a[i], nm[i]>> \in Nodes[p]
        BY DEF Stacked, l
      <4>3. QED BY <4>1, <4>2
    <3>2. <<g[l + 1].node, b[l + 1], m[l + 1]>> \in Nodes[p]
      BY <1>2, <1>4, <1>5 DEF asks, l
    <3>3. QED BY <1>3, <3>1, <3>2
  <2>4. ASSUME NEW i \in 1..l
        PROVE  /\ g[i].pc > 0 /\ b[i + 1] = Asked(p, g[i], b[i])
               /\ Lists(g[i]) => g[i + 1].node = g[i].node.kids[Reached(g[i])]
    <3>1. CASE i \in 1..(l - 1)
      <4>1. g[i] = fr[i] /\ b[i] = a[i] /\ b[i + 1] = a[i + 1] /\ g[i + 1].node = fr[i + 1].node
        BY <1>2, <1>3, <1>4, <1>8, <3>1
      <4>2. /\ fr[i].pc > 0 /\ a[i + 1] = Asked(p, fr[i], a[i])
            /\ Lists(fr[i]) => fr[i + 1].node = fr[i].node.kids[Reached(fr[i])]
        BY <3>1 DEF Stacked, l
      <4>3. QED BY <4>1, <4>2
    <3>2. CASE i = l
      <4>1. g[i] = t /\ b[i + 1] = asks /\ b[i] = a[l] /\ g[i + 1].node = n
        BY <1>1, <1>2, <1>4, <1>5, <3>2
      <4>2. QED BY <4>1 DEF asks, l
    <3>3. QED BY <1>3, <3>1, <3>2
  <2>5. QED BY <1>1, <1>4, <2>1, <2>2, <2>3, <2>4 DEF Stacked
<1>10. Named(p, g, b, m, u)
  <2>1. ASSUME NEW i \in 1..l
        PROVE  Relied(g[i], m[i], 1) \subseteq DOMAIN SeenIn(u)[Depth(g, i)]
    <3>1. CASE i \in 1..(l - 1)
      <4>1. g[i] = fr[i] /\ m[i] = nm[i]
        BY <1>2, <1>3, <1>4, <3>1
      <4>2. Relied(fr[i], nm[i], 1) \subseteq DOMAIN SeenIn(s)[Depth(fr, i)]
        BY <3>1 DEF Named, l
      <4>3. Depth(g, i) = Depth(fr, i) /\ Depth(fr, i) \in 1..Depth(fr, l)
        <5>1. i \in Nat /\ l \in Nat /\ i <= l /\ \A j \in 1..i : g[j] = fr[j]
          BY <1>1, <1>4, <3>1
        <5>2. QED BY <5>1, DepthSame, DepthGrows
      <4>4. DOMAIN SeenIn(s)[Depth(fr, i)] \subseteq DOMAIN SeenIn(u)[Depth(fr, i)]
        BY <4>3 DEF Keeps, l
      <4>5. QED BY <4>1, <4>2, <4>3, <4>4
    <3>2. CASE i = l
      <4>1. g[i] = t /\ m[i] = nm[l]
        BY <1>1, <1>2, <1>4, <3>2
      <4>2. QED BY <3>2, <4>1 DEF l
    <3>3. QED BY <1>3, <3>1, <3>2
  <2>2. Relied(g[l + 1], m[l + 1], 0) \subseteq DOMAIN SeenIn(u)[Depth(g, l + 1)]
    <3>1. Relied(f, names, 0) \subseteq names
      <4>1. Declared(n.kids, 0 - 1 - 0) = {}
        BY DEF Declared
      <4>2. QED BY <1>5, <1>7, <4>1 DEF Relied, Lists, Reached
    <3>2. QED BY <1>2, <1>4, <3>1 DEF l
  <2>3. ASSUME NEW i \in 2..(l + 1), "constant" \notin b[i]
        PROVE  Globals(p) \subseteq DOMAIN u[1].refs
    <3>1. CASE i \in 2..l
      <4>1. b[i] = a[i]
        BY <1>2, <1>3, <3>1
      <4>2. Globals(p) \subseteq DOMAIN s[1].refs
        BY <2>3, <3>1, <4>1 DEF Named, l
      <4>3. QED BY <4>2 DEF Keeps
    <3>2. CASE i = l + 1
      BY <1>2, <2>3, <3>2 DEF asks, l
    <3>3. QED BY <1>3, <3>1, <3>2
  <2>4. QED BY <1>1, <1>4, <2>1, <2>2, <2>3 DEF Named
<1>11. b[Len(g)] = asks
  BY <1>2, <1>4
<1>12. QED BY <1>9, <1>10, <1>11 DEF asks, l

\* The frame on top answers: fr and s become g and u.
Left(p, fr, a, nm, s, g, u) ==
  /\ StackOK(fr) /\ Stacked(p, fr, a, nm) /\ Named(p, fr, a, nm, s)
  /\ Len(g) = Len(fr) - 1 /\ Len(g) # 0 /\ \A i \in 1..Len(g) : g[i] = fr[i]
  /\ Keeps(s, u, Depth(fr, Len(g)))
  /\ fr[Len(fr)].node.kind = "VarDecl" =>
       fr[Len(fr)].node.name \in DOMAIN SeenIn(u)[Depth(g, Len(g))]

\* Its caller asked for the answer and goes on.
LEMMA PopTyped ==
  ASSUME NEW p, NEW fr, NEW a, NEW nm, NEW s, NEW g, NEW u, Left(p, fr, a, nm, s, g, u)
  PROVE  /\ Stacked(p, g, a, nm) /\ Named(p, g, a, nm, u)
         /\ g[Len(g)].pc > 0 /\ a[Len(fr)] = Asked(p, g[Len(g)], a[Len(g)])
<1> USE DEF Left
<1> DEFINE l == Len(g)
<1>1. l \in Nat /\ l # 0 /\ l - 1 \in Nat /\ Len(fr) = l + 1 /\ l <= l /\ l - 1 <= l /\ l \in 1..l
      /\ 1 \in 1..l
  BY DEF StackOK
<1>2. \A i \in 1..l : g[i] = fr[i]
  OBVIOUS
<1> HIDE DEF l
<1>3. /\ \A i \in 1..l : i \in 1..(l + 1) /\ i + 1 \in 1..(l + 1) /\ i \in 1..(Len(fr) - 1)
      /\ \A i \in 2..l : i \in 1..l /\ i \in 2..(l + 1)
      /\ \A i \in 1..(l - 1) : i \in 1..l /\ i + 1 \in 1..l
  BY <1>1
<1>4. \A i \in 1..l : /\ fr[i].pc > 0 /\ a[i + 1] = Asked(p, fr[i], a[i])
                      /\ Lists(fr[i]) => fr[i + 1].node = fr[i].node.kids[Reached(fr[i])]
  BY <1>3 DEF Stacked
<1>5. Stacked(p, g, a, nm)
  <2>1. g[1].node = Entry(p) /\ a[1] = {} /\ nm[1] = {}
    BY <1>1, <1>2 DEF Stacked
  <2>2. \A i \in 1..l : PcOK(g[i])
    BY <1>1, <1>2, <1>3 DEF Stacked
  <2>3. \A i \in 2..l : <<g[i].node, a[i], nm[i]>> \in Nodes[p]
    BY <1>1, <1>2, <1>3 DEF Stacked
  <2>4. \A i \in 1..(l - 1) : /\ g[i].pc > 0 /\ a[i + 1] = Asked(p, g[i], a[i])
                              /\ Lists(g[i]) => g[i + 1].node = g[i].node.kids[Reached(g[i])]
    BY <1>2, <1>3, <1>4
  <2>5. QED BY <2>1, <2>2, <2>3, <2>4 DEF Stacked, l
<1>6. \A i \in 1..l : /\ Depth(g, i) = Depth(fr, i) /\ Depth(fr, i) \in 1..Depth(fr, l)
  <2> SUFFICES ASSUME NEW i \in 1..l
               PROVE  Depth(g, i) = Depth(fr, i) /\ Depth(fr, i) \in 1..Depth(fr, l)
    OBVIOUS
  <2>1. i \in Nat /\ l \in Nat /\ i <= l /\ \A j \in 1..i : g[j] = fr[j]
    BY <1>1, <1>2
  <2>2. QED BY <2>1, DepthSame, DepthGrows
<1>7. \A i \in 1..l : Relied(fr[i], nm[i], 1) \subseteq DOMAIN SeenIn(u)[Depth(g, i)]
  <2> SUFFICES ASSUME NEW i \in 1..l
               PROVE  Relied(fr[i], nm[i], 1) \subseteq DOMAIN SeenIn(u)[Depth(g, i)]
    OBVIOUS
  <2>1. Relied(fr[i], nm[i], 1) \subseteq DOMAIN SeenIn(s)[Depth(fr, i)]
    BY <1>3 DEF Named
  <2>2. DOMAIN SeenIn(s)[Depth(fr, i)] \subseteq DOMAIN SeenIn(u)[Depth(fr, i)]
    BY <1>6 DEF Keeps, l
  <2>3. QED BY <1>6, <2>1, <2>2
<1>8. Relied(g[l], nm[l], 0) \subseteq DOMAIN SeenIn(u)[Depth(g, l)]
  <2> DEFINE f == fr[l]
             k == Reached(f)
  <2>1. g[l] = f /\ fr[l + 1].node.kind = "VarDecl" =>
          fr[l + 1].node.name \in DOMAIN SeenIn(u)[Depth(g, l)]
    BY <1>1 DEF l
  <2>2. PcOK(f) /\ (Lists(f) => fr[l + 1].node = f.node.kids[k])
    BY <1>1, <1>3, <1>4 DEF Stacked
  <2>3. Lists(f) => k \in Int
    BY <2>2 DEF PcOK, Lists, Reached
  <2>4. Relied(f, nm[l], 1) \subseteq DOMAIN SeenIn(u)[Depth(g, l)]
    BY <1>1, <1>7
  <2>5. g[l] = f
    BY <1>1, <1>2
  <2>6. ASSUME NEW x \in Relied(f, nm[l], 0) PROVE x \in DOMAIN SeenIn(u)[Depth(g, l)]
    <3>1. CASE Lists(f) /\ ~(f.node.kind = "Call" /\ f.pc = 2)
      <4>1. x \in nm[l] \/ x \in Declared(f.node.kids, k - 0)
        BY <2>6, <3>1 DEF Relied
      <4>2. k - 0 = k
        BY <2>3, <3>1
      <4>3. x \in nm[l] \/ x \in Declared(f.node.kids, k - 1)
            \/ (f.node.kids[k].kind = "VarDecl" /\ x = f.node.kids[k].name)
        BY <2>3, <3>1, <4>1, <4>2, DeclaredNext
      <4>4. nm[l] \cup Declared(f.node.kids, k - 1) \subseteq DOMAIN SeenIn(u)[Depth(g, l)]
        BY <2>4, <3>1 DEF Relied
      <4>5. QED BY <2>1, <2>2, <2>5, <3>1, <4>3, <4>4
    <3>2. CASE ~(Lists(f) /\ ~(f.node.kind = "Call" /\ f.pc = 2))
      <4>1. Relied(f, nm[l], 0) = Relied(f, nm[l], 1)
        BY <3>2 DEF Relied
      <4>2. QED BY <2>4, <2>6, <4>1
    <3>3. QED BY <3>1, <3>2
  <2>7. QED BY <2>5, <2>6
<1>9. Named(p, g, a, nm, u)
  <2>1. \A i \in 1..(l - 1) : Relied(g[i], nm[i], 1) \subseteq DOMAIN SeenIn(u)[Depth(g, i)]
    BY <1>2, <1>3, <1>7
  <2>2. ASSUME NEW i \in 2..l, "constant" \notin a[i] PROVE Globals(p) \subseteq DOMAIN u[1].refs
    <3>1. i \in 2..Len(fr)
      BY <1>1, <1>3
    <3>2. Globals(p) \subseteq DOMAIN s[1].refs
      BY <2>2, <3>1 DEF Named
    <3>3. QED BY <3>2 DEF Keeps
  <2>3. QED BY <1>8, <2>1, <2>2 DEF Named, l
<1>10. QED BY <1>1, <1>2, <1>4, <1>5, <1>9 DEF l

\* The frame on top goes on at t: fr and s become g and u.
Stayed(p, fr, a, nm, s, t, g, u) ==
  /\ StackOK(fr) /\ Stacked(p, fr, a, nm) /\ Named(p, fr, a, nm, s)
  /\ t.node = fr[Len(fr)].node /\ PcOK(t)
  /\ Len(g) = Len(fr) /\ g[Len(fr)] = t /\ \A i \in 1..(Len(fr) - 1) : g[i] = fr[i]
  /\ Keeps(s, u, Depth(fr, Len(fr)))
  /\ Relied(t, nm[Len(fr)], 0) \subseteq DOMAIN SeenIn(u)[Depth(g, Len(fr))]

\* It is still asked for the same.
LEMMA StayTyped ==
  ASSUME NEW p, NEW fr, NEW a, NEW nm, NEW s, NEW t, NEW g, NEW u,
         Stayed(p, fr, a, nm, s, t, g, u)
  PROVE  Stacked(p, g, a, nm) /\ Named(p, g, a, nm, u)
<1> USE DEF Stayed
<1> DEFINE l == Len(fr)
<1>1. /\ l \in Nat /\ l # 0 /\ l - 1 \in Nat /\ l - 1 <= l /\ l \in 1..l /\ 1 \in 1..l
      /\ \A i \in 1..l : (i \in 1..(l - 1) \/ i = l)
      /\ \A i \in 1..(l - 1) : i \in 1..l /\ i + 1 \in 1..l
      /\ \A i \in 2..l : i \in 1..l
  BY DEF StackOK
<1>2. g[l] = t /\ Len(g) = l /\ \A i \in 1..(l - 1) : g[i] = fr[i]
  OBVIOUS
<1> HIDE DEF l
<1>3. \A i \in 1..l : g[i].node = fr[i].node
  BY <1>1, <1>2 DEF l
<1>4. Stacked(p, g, a, nm)
  <2>1. g[1].node = Entry(p) /\ a[1] = {} /\ nm[1] = {}
    BY <1>1, <1>3 DEF Stacked
  <2>2. \A i \in 1..l : PcOK(g[i])
    BY <1>1, <1>2 DEF Stacked, l
  <2>3. \A i \in 2..l : <<g[i].node, a[i], nm[i]>> \in Nodes[p]
    BY <1>1, <1>3 DEF Stacked, l
  <2>4. \A i \in 1..(l - 1) : /\ g[i].pc > 0 /\ a[i + 1] = Asked(p, g[i], a[i])
                              /\ Lists(g[i]) => g[i + 1].node = g[i].node.kids[Reached(g[i])]
    BY <1>1, <1>2, <1>3 DEF Stacked, l
  <2>5. QED BY <1>2, <2>1, <2>2, <2>3, <2>4 DEF Stacked
<1>5. Named(p, g, a, nm, u)
  <2>1. ASSUME NEW i \in 1..(l - 1)
        PROVE  Relied(g[i], nm[i], 1) \subseteq DOMAIN SeenIn(u)[Depth(g, i)]
    <3>1. Relied(fr[i], nm[i], 1) \subseteq DOMAIN SeenIn(s)[Depth(fr, i)]
      BY DEF Named, l
    <3>2. Depth(g, i) = Depth(fr, i) /\ Depth(fr, i) \in 1..Depth(fr, l)
      <4>1. i \in Nat /\ l \in Nat /\ i <= l /\ \A j \in 1..i : g[j] = fr[j]
        BY <1>1, <1>2
      <4>2. QED BY <4>1, DepthSame, DepthGrows
    <3>3. DOMAIN SeenIn(s)[Depth(fr, i)] \subseteq DOMAIN SeenIn(u)[Depth(fr, i)]
      BY <3>2 DEF Keeps, l
    <3>4. g[i] = fr[i]
      BY <1>2
    <3>5. QED BY <3>1, <3>2, <3>3, <3>4
  <2>2. ASSUME NEW i \in 2..l, "constant" \notin a[i] PROVE Globals(p) \subseteq DOMAIN u[1].refs
    <3>1. Globals(p) \subseteq DOMAIN s[1].refs
      BY <2>2 DEF Named, l
    <3>2. QED BY <3>1 DEF Keeps
  <2>3. QED BY <1>2, <2>1, <2>2 DEF Named, l
<1>6. QED BY <1>4, <1>5

---------------------------------------------------------------------------
(* Where the interpreter is.                                               *)

\* The invariant at a state whose frames were called for a and nm.
LEMMA HereFacts ==
  ASSUME TypesInv, IInv, status = "running", NEW a, NEW nm,
         Stacked(program, frames, a, nm), Named(program, frames, a, nm, scopes)
  PROVE  LET l == Len(frames) IN
         /\ StackOK(frames) /\ IsFrame(Top) /\ ScopesOK(scopes) /\ program \in Programs
         /\ return_value \in Answers
         /\ Len(scopes) = Depth(frames, l) /\ Len(scopes) # 0 /\ Len(scopes) \in Nat
         /\ PcOK(Top)
         /\ Top.node.kind = "Enter" =>
              l = 1 /\ Top.node = Entry(program) /\ a[l] = {} /\ nm[l] = {}
         /\ Top.node.kind # "Enter" =>
              /\ <<Top.node, a[l], nm[l]>> \in Nodes[program]
              /\ "constant" \notin a[l] => Globals(program) \subseteq DOMAIN scopes[1].refs
         /\ Relied(Top, nm[l], 0) \subseteq DOMAIN SeenIn(scopes)[Len(scopes)]
<1> DEFINE l == Len(frames)
<1>1. StackOK(frames) /\ ScopesOK(scopes) /\ program \in Programs /\ return_value \in Answers
  BY DEF IInv, TypesInv, TypeOK, Answers
<1>2. IsFrame(Top) /\ l \in Nat \ {0}
  BY <1>1, TopFacts
<1>3. Len(scopes) = Depth(frames, l)
  BY DEF IInv, Depth
<1>4. Owned(frames, l) \in Nat
  BY <1>2, OwnedNext
<1>5. Len(scopes) # 0 /\ Len(scopes) \in Nat
  BY <1>3, <1>4 DEF Depth
<1>0. Top = frames[l]
  BY DEF Top
<1> HIDE DEF l
<1>6. l \in 1..l /\ (l # 1 => l \in 2..l) /\ Top = frames[l]
  BY <1>0, <1>2
<1>7. PcOK(Top)
  BY <1>6 DEF Stacked, l
<1>8. l = 1 => Top.node = Entry(program) /\ a[l] = {} /\ nm[l] = {} /\ Top.node.kind = "Enter"
  <2>1. Entry(program).kind = "Enter"
    BY DEF Entry
  <2>2. frames[1].node = Entry(program) /\ a[1] = {} /\ nm[1] = {}
    BY DEF Stacked
  <2>3. QED BY <1>6, <2>1, <2>2
<1>9. l # 1 => <<Top.node, a[l], nm[l]>> \in Nodes[program]
  BY <1>6 DEF Stacked, l
<1>10. l # 1 => Top.node.kind # "Enter"
  <2>1. l # 1 => Fits(program, Top.node, a[l], nm[l])
    BY <1>1, <1>9, NodeFacts
  <2>2. QED BY <2>1 DEF Fits, Expressions, Statements
<1>11. l # 1 /\ "constant" \notin a[l] => Globals(program) \subseteq DOMAIN scopes[1].refs
  BY <1>6 DEF Named, l
<1>12. Relied(Top, nm[l], 0) \subseteq DOMAIN SeenIn(scopes)[Len(scopes)]
  BY <1>3, <1>6 DEF Named, l
<1>13. QED BY <1>1, <1>2, <1>3, <1>5, <1>7, <1>8, <1>9, <1>10, <1>11, <1>12 DEF l

\* Such frames have the shape TypeOK asks for.
LEMMA FramesTyped ==
  ASSUME NEW p \in Programs, NEW fr, StackOK(fr), NEW a, NEW nm, Stacked(p, fr, a, nm),
         NEW i \in DOMAIN fr
  PROVE  /\ fr[i].node.kind \in Kinds
         /\ fr[i].pc \in 0..(Len(fr[i].node.kids) + 2)
         /\ fr[i].pc = 0 => i = Len(fr)
<1>1. Len(fr) \in Nat /\ i \in 1..Len(fr)
  BY SeqFacts DEF StackOK
<1>2. PcOK(fr[i]) /\ (i # Len(fr) => fr[i].pc > 0)
  <2>1. i # Len(fr) => i \in 1..(Len(fr) - 1)
    BY <1>1
  <2>2. QED BY <1>1, <2>1 DEF Stacked
<1>3. fr[i].node.kind \in Kinds /\ Len(fr[i].node.kids) \in Nat
  <2>1. CASE i = 1
    <3>1. fr[i].node = Entry(p)
      BY <2>1 DEF Stacked
    <3>2. Len(Entry(p).kids) \in Nat
      <4> DEFINE ks == Entry(p).kids
      <4>1. Len(ks) = Len(p.globals) + 1 /\ Len(p.globals) \in Nat
        BY EntryFacts
      <4> HIDE DEF ks
      <4>2. Len(ks) \in Nat
        BY <4>1
      <4>3. QED BY <4>2 DEF ks
    <3>3. Entry(p).kind = "Enter"
      BY DEF Entry
    <3>4. QED BY <3>1, <3>2, <3>3 DEF Kinds
  <2>2. CASE i # 1
    <3>1. <<fr[i].node, a[i], nm[i]>> \in Nodes[p]
      <4>1. i \in 2..Len(fr)
        BY <1>1, <2>2
      <4>2. QED BY <4>1 DEF Stacked
    <3>2. Fits(p, fr[i].node, a[i], nm[i]) /\ Len(fr[i].node.kids) \in Nat
      BY <3>1, NodeFacts
    <3>3. QED BY <3>2 DEF Fits, Kinds
  <2>3. QED BY <2>1, <2>2
<1>4. fr[i].pc \in 0..(Len(fr[i].node.kids) + 2)
  BY <1>2, <1>3 DEF PcOK, Kinds, Expressions, Statements
<1>5. QED BY <1>1, <1>2, <1>3, <1>4

\* A state that is typed is of the right shape.
LEMMA TypedShape ==
  IInv /\ program \in Programs /\ return_value \in Answers /\ ScopesOK(scopes)
    /\ status = "running" /\ Typed => TypesInv
<1> SUFFICES ASSUME IInv, program \in Programs, return_value \in Answers, ScopesOK(scopes),
                    status = "running", Typed
             PROVE  TypesInv
  OBVIOUS
<1>1. StackOK(frames)
  BY DEF IInv
<1>2. PICK a, nm : Stacked(program, frames, a, nm)
  BY DEF Typed
<1>3. \A i \in DOMAIN frames :
        /\ frames[i].node.kind \in Kinds
        /\ frames[i].pc \in 0..(Len(frames[i].node.kids) + 2)
        /\ frames[i].pc = 0 => i = Len(frames)
  BY <1>1, <1>2, FramesTyped
<1>4. DOMAIN scopes = 1..Len(scopes)
  BY ChainedFacts
<1>5. \A d \in DOMAIN scopes :
        /\ scopes[d].parent \in 0..(d - 1)
        /\ DOMAIN scopes[d].vals \subseteq DOMAIN scopes[d].refs
        /\ \A x \in DOMAIN scopes[d].vals : scopes[d].vals[x] \in BOOLEAN
  BY <1>4 DEF ScopesOK
<1>6. TypeOK
  BY <1>3, <1>5 DEF TypeOK, Answers
<1>7. QED BY <1>6 DEF TypesInv

---------------------------------------------------------------------------
(* Answers.                                                                *)

\* A value answers whatever is asked.
LEMMA ValueAnswers ==
  ASSUME NEW v \in BOOLEAN, NEW asks
  PROVE  Answering(Value(v), asks) /\ Value(v) \in Answers
  BY DEF Answering, Answers, Value

\* An answer that is a value has one.
LEMMA ValueFacts ==
  ASSUME NEW r \in Answers, r.is = "value"
  PROVE  r.v \in BOOLEAN /\ r = Value(r.v)
  BY DEF Answers, Value, None, Breaking, Continuing, Returned

\* Nothing, and the transfers, where no value is asked.
LEMMA OtherAnswers ==
  ASSUME NEW asks, "value" \notin asks
  PROVE  /\ Answering(None, asks) /\ None \in Answers
         /\ "loop" \in asks => Answering(Breaking, asks) /\ Answering(Continuing, asks)
         /\ "result" \notin asks => Answering(Returned(NoValue), asks)
         /\ \A v \in BOOLEAN : Answering(Returned(v), asks)
<1>1. /\ None \in Answers /\ Breaking \in Answers /\ Continuing \in Answers
      /\ \A v \in BOOLEAN \cup {NoValue} : Returned(v) \in Answers
  BY DEF Answers
<1>2. \A v \in BOOLEAN : v # NoValue
  BY ProgramsAssumption
<1>3. /\ None.is = "none" /\ Breaking.is = "break" /\ Continuing.is = "continue"
      /\ \A v : Returned(v).is = "return" /\ Returned(v).v = v
  BY DEF None, Breaking, Continuing, Returned
<1>4. QED BY <1>1, <1>2, <1>3 DEF Answering

\* A return has a value or NoValue.
LEMMA ReturnFacts ==
  ASSUME NEW r \in Answers, r.is = "return", r.v # NoValue
  PROVE  r.v \in BOOLEAN
  BY DEF Answers, Value, None, Breaking, Continuing, Returned

\* Only values, and only expressions answer them.
LEMMA StatementAsks ==
  ASSUME NEW p \in Programs, NEW n, NEW asks, NEW names, <<n, asks, names>> \in Nodes[p],
         n.kind \in Statements
  PROVE  "value" \notin asks
<1>1. Fits(p, n, asks, names)
  BY NodeFacts
<1>2. QED BY <1>1 DEF Fits, Expressions, Statements

---------------------------------------------------------------------------
(* Visits and returns keep what the frames were called for.                *)

\* What is kept twice is kept.
LEMMA KeepsTrans ==
  ASSUME NEW s, NEW u, NEW w, NEW k, Keeps(s, u, k), NEW n, 1..k \subseteq 1..n, Keeps(u, w, n)
  PROVE  Keeps(s, w, k)
  BY DEF Keeps

\* execute() is called on node n.
LEMMA VisitTyped ==
  ASSUME TypesInv, IInv, IInv', status = "running", program' = program, status' = status,
         NEW a, NEW nm, Stacked(program, frames, a, nm), Named(program, frames, a, nm, scopes),
         NEW t, t.node = Top.node, t.pc > 0, PcOK(t),
         NEW n, frames' = Append(Below, t) \o <<Frame(n, 0)>>, Lists(t) => n = t.node.kids[Reached(t)],
         NEW asks, asks = Asked(program, t, a[Len(frames)]),
         NEW names, <<n, asks, names>> \in Nodes[program],
         ScopesOK(scopes'), Keeps(scopes, scopes', Len(scopes)),
         names \cup Relied(t, nm[Len(frames)], 1) \subseteq DOMAIN SeenIn(scopes')[Len(scopes')],
         "constant" \notin asks => Globals(program) \subseteq DOMAIN scopes'[1].refs,
         return_value' \in Answers, "value" \in asks \/ Answering(return_value', asks)
  PROVE  TypesInv'
<1> DEFINE l == Len(frames)
           h == Append(Below, t)
           f == Frame(n, 0)
<1>1. /\ StackOK(frames) /\ program \in Programs /\ Len(scopes) = Depth(frames, l)
      /\ l \in Nat \ {0}
  BY HereFacts DEF StackOK
<1>2. IsSeq(Below) /\ Len(Below) = l - 1 /\ l - 1 \in Nat /\ \A i \in 1..(l - 1) : Below[i] = frames[i]
  BY <1>1, TopFacts
<1>3. IsSeq(h) /\ Len(h) = l /\ h[l] = t /\ \A i \in 1..(l - 1) : h[i] = frames[i]
  <2>1. /\ IsSeq(h) /\ Len(h) = Len(Below) + 1 /\ h[Len(Below) + 1] = t
        /\ \A i \in 1..Len(Below) : h[i] = Below[i]
    BY <1>2, AppendFacts
  <2> HIDE DEF h
  <2>2. Len(Below) + 1 = l
    BY <1>1, <1>2
  <2>3. QED BY <1>2, <2>1, <2>2
<1> HIDE DEF h, f, l
<1>4. frames' = Append(h, f)
  <2> DEFINE R == {h[i] : i \in DOMAIN h} \cup {f}
  <2>1. h \in Seq(R) /\ f \in R
    BY <1>3, SeqMonotonic DEF IsSeq
  <2>2. h \o <<f>> = Append(h, f)
    BY <2>1, AppendIsConcat
  <2>3. QED BY <2>2 DEF h, f
<1>5. PICK g : g = frames'
  OBVIOUS
<1>6. /\ Len(g) = l + 1 /\ g[l] = t /\ g[l + 1] = f /\ \A i \in 1..(l - 1) : g[i] = frames[i]
  <2>1. /\ Len(g) = Len(h) + 1 /\ g[Len(h) + 1] = f /\ \A i \in 1..Len(h) : g[i] = h[i]
    BY <1>3, <1>4, <1>5, AppendFacts
  <2>2. l \in 1..l /\ \A i \in 1..(l - 1) : i \in 1..l
    BY <1>1
  <2>3. QED BY <1>3, <2>1, <2>2
<1>7. Depth(g, l + 1) = Depth(g, l) /\ Depth(g, l + 1) = Len(scopes')
  <2>1. Owned(g, l + 1) = Owned(g, l) + One(g[l + 1]) /\ Owned(g, l) \in Nat
    BY <1>1, OwnedNext
  <2>2. One(g[l + 1]) = 0
    BY <1>6 DEF One, OwnsScope, f, Frame
  <2>3. Len(scopes') = 1 + Owned(g, Len(g))
    BY <1>5 DEF IInv
  <2>4. QED BY <1>6, <2>1, <2>2, <2>3 DEF Depth
<1>8. PICK u, s : u = scopes' /\ s = scopes
  OBVIOUS
<1>9. \E b, m : /\ Stacked(program, g, b, m) /\ Named(program, g, b, m, u)
                /\ b[Len(g)] = Asked(program, t, a[Len(frames)])
  <2>1. PICK fr : fr = frames
    OBVIOUS
  <2>2. PICK p : p = program
    OBVIOUS
  <2>3. t.node = fr[Len(fr)].node
    BY <2>1 DEF Top
  <2>4. /\ StackOK(fr) /\ p \in Programs /\ Stacked(p, fr, a, nm) /\ Named(p, fr, a, nm, s)
        /\ <<n, Asked(p, t, a[Len(fr)]), names>> \in Nodes[p]
    BY <1>1, <1>8, <2>1, <2>2
  <2>5. /\ Len(g) = Len(fr) + 1 /\ g[Len(fr)] = t /\ g[Len(fr) + 1] = Frame(n, 0)
        /\ \A i \in 1..(Len(fr) - 1) : g[i] = fr[i]
    BY <1>6, <2>1 DEF l, f
  <2>6. /\ Keeps(s, u, Depth(fr, Len(fr)))
        /\ names \subseteq DOMAIN SeenIn(u)[Depth(g, Len(fr) + 1)]
        /\ Relied(t, nm[Len(fr)], 1) \subseteq DOMAIN SeenIn(u)[Depth(g, Len(fr))]
    BY <1>1, <1>7, <1>8, <2>1 DEF l
  <2>7. "constant" \notin Asked(p, t, a[Len(fr)]) => Globals(p) \subseteq DOMAIN u[1].refs
    BY <1>8, <2>1, <2>2
  <2>8. \E b, m : /\ Stacked(p, g, b, m) /\ Named(p, g, b, m, u)
                  /\ b[Len(g)] = Asked(p, t, a[Len(fr)])
    <3>1. Pushed(p, fr, a, nm, s, t, n, names, g, u)
      BY <2>3, <2>4, <2>5, <2>6, <2>7 DEF Pushed
    <3>2. QED BY <2>4, <3>1, PushTyped
  <2>9. QED BY <2>1, <2>2, <2>8
<1>10. PICK b, m : Stacked(program, g, b, m) /\ Named(program, g, b, m, u) /\ b[Len(g)] = asks
  BY <1>9
<1>11. Returning(program, g[Len(g)], b[Len(g)], return_value')
  BY <1>6, <1>10 DEF Returning, f, Frame
<1>12. Typed'
  <2>1. Top' = g[Len(g)]
    BY <1>5 DEF Top
  <2>2. QED BY <1>5, <1>8, <1>10, <1>11, <2>1 DEF Typed
<1>13. (IInv /\ program \in Programs /\ return_value \in Answers /\ ScopesOK(scopes)
           /\ status = "running" /\ Typed)'
  BY <1>1, <1>12
<1>14. QED BY <1>13, TypedShape, PTL

\* A part is visited for what its node asks of it.
LEMMA PartTyped ==
  ASSUME TypesInv, IInv, IInv', status = "running",
         program' = program, status' = status, scopes' = scopes,
         NEW a, NEW nm, Stacked(program, frames, a, nm), Named(program, frames, a, nm, scopes),
         Top.node.kind # "Enter", ~(Top.node.kind = "Call" /\ Top.pc = 2),
         NEW t, t.node = Top.node, t.pc > 0, PcOK(t), ~(t.node.kind = "Call" /\ t.pc = 2),
         NEW i \in 1..Len(Top.node.kids), frames' = Append(Below, t) \o <<Frame(Top.node.kids[i], 0)>>,
         Top.node.kind = "Block" => t.pc = Top.pc + 1 /\ i = Top.pc,
         NEW asks, asks = AskedOf(Top.node.kind, i, a[Len(frames)]),
         AskedOf(Top.node.kind, t.pc, a[Len(frames)]) = asks,
         return_value' \in Answers, "value" \in asks \/ Answering(return_value', asks)
  PROVE  TypesInv'
<1> DEFINE l == Len(frames)
           n == Top.node
           names == NamesAt(n, i, nm[l])
<1>1. /\ ScopesOK(scopes) /\ program \in Programs /\ Len(scopes) \in Nat
      /\ <<n, a[l], nm[l]>> \in Nodes[program]
      /\ "constant" \notin a[l] => Globals(program) \subseteq DOMAIN scopes[1].refs
      /\ Relied(Top, nm[l], 0) \subseteq DOMAIN SeenIn(scopes)[Len(scopes)]
      /\ IsFrame(Top) /\ PcOK(Top)
  BY HereFacts
<1>2. <<n.kids[i], asks, names>> \in Nodes[program]
  BY <1>1, NodeFacts
<1>3. asks = Asked(program, t, a[l])
  BY DEF Asked
<1>4. Lists(t) => Reached(t) = i
  <2>1. Lists(t) => Top.node.kind = "Block"
    BY DEF Lists
  <2>2. Top.pc \in Nat
    BY <1>1 DEF IsFrame
  <2>3. QED BY <2>1, <2>2 DEF Reached
<1>5. names \cup Relied(t, nm[l], 1) \subseteq Relied(Top, nm[l], 0)
  <2>1. CASE n.kind = "Block"
    <3>1. Relied(t, nm[l], 1) = nm[l] \cup Declared(n.kids, i - 1)
      BY <1>4, <2>1 DEF Relied, Lists
    <3>2. names = nm[l] \cup Declared(n.kids, i - 1)
      BY <2>1 DEF NamesAt
    <3>3. Relied(Top, nm[l], 0) = nm[l] \cup Declared(n.kids, i - 1 - 0)
      BY <2>1 DEF Relied, Lists, Reached
    <3>4. i - 1 - 0 = i - 1
      OBVIOUS
    <3>5. QED BY <3>1, <3>2, <3>3, <3>4
  <2>2. CASE n.kind # "Block"
    BY <2>2 DEF Relied, Lists, NamesAt
  <2>3. QED BY <2>1, <2>2
<1>6. Keeps(scopes, scopes', Len(scopes))
  BY DEF Keeps
<1>7. "constant" \in a[l] => "constant" \in asks
  BY DEF AskedOf
<1> HIDE DEF names, l, n
<1>8. names \cup Relied(t, nm[l], 1) \subseteq DOMAIN SeenIn(scopes')[Len(scopes')]
  BY <1>1, <1>5
<1>9. "constant" \notin asks => Globals(program) \subseteq DOMAIN scopes'[1].refs
  BY <1>1, <1>7
<1>10. /\ ScopesOK(scopes') /\ <<Top.node.kids[i], asks, names>> \in Nodes[program]
       /\ Lists(t) => Top.node.kids[i] = t.node.kids[Reached(t)]
  BY <1>1, <1>2, <1>4 DEF n
<1>11. QED BY <1>3, <1>6, <1>8, <1>9, <1>10, VisitTyped DEF l

\* execute() returns to its caller.
LEMMA AnswerTyped ==
  ASSUME TypesInv, IInv, IInv', status = "running", program' = program, status' = status,
         NEW a, NEW nm, Stacked(program, frames, a, nm), Named(program, frames, a, nm, scopes),
         Top.node.kind # "Enter", frames' = Below,
         ScopesOK(scopes'), Keeps(scopes, scopes', Len(scopes')),
         Top.node.kind = "VarDecl" => Top.node.name \in DOMAIN SeenIn(scopes')[Len(scopes')],
         Answering(return_value', a[Len(frames)])
  PROVE  TypesInv'
<1> DEFINE l == Len(frames)
<1>1. /\ StackOK(frames) /\ program \in Programs
  BY HereFacts
<1>2. PICK g : g = frames'
  OBVIOUS
<1>3. PICK u, s : u = scopes' /\ s = scopes
  OBVIOUS
<1>4. PICK fr : fr = frames
  OBVIOUS
<1>5. PICK p : p = program
  OBVIOUS
<1>6. StackOK(g) /\ Len(u) = Depth(g, Len(g))
  BY <1>2, <1>3 DEF IInv, Depth
<1>7. Len(g) = Len(fr) - 1 /\ \A i \in 1..Len(g) : g[i] = fr[i]
  BY <1>1, <1>2, <1>4, TopFacts
<1>8. Len(g) \in Nat /\ Len(g) # 0
  BY <1>6 DEF StackOK
<1>9. Depth(g, Len(g)) = Depth(fr, Len(g))
  BY <1>7, <1>8, DepthSame
<1>10. Keeps(s, u, Depth(fr, Len(g)))
  BY <1>3, <1>6, <1>9
<1>11. fr[Len(fr)].node.kind = "VarDecl" =>
         fr[Len(fr)].node.name \in DOMAIN SeenIn(u)[Depth(g, Len(g))]
  BY <1>3, <1>4, <1>6 DEF Top
<1>12. StackOK(fr) /\ Stacked(p, fr, a, nm) /\ Named(p, fr, a, nm, s)
  BY <1>1, <1>3, <1>4, <1>5
<1>13. /\ Stacked(p, g, a, nm) /\ Named(p, g, a, nm, u)
       /\ g[Len(g)].pc > 0 /\ a[Len(fr)] = Asked(p, g[Len(g)], a[Len(g)])
  <2>1. Left(p, fr, a, nm, s, g, u)
    BY <1>7, <1>8, <1>10, <1>11, <1>12 DEF Left
  <2>2. QED BY <2>1, PopTyped
<1>14. Returning(program, g[Len(g)], a[Len(g)], return_value')
  <2>1. g[Len(g)].pc # 0
    <3>1. PcOK(g[Len(g)]) /\ IsFrame(g[Len(g)])
      BY <1>6, <1>8, <1>13 DEF Stacked, StackOK
    <3>2. QED BY <1>13, <3>1 DEF IsFrame
  <2>2. QED BY <1>4, <1>5, <1>13, <2>1 DEF Returning
<1>15. Typed'
  <2>1. Top' = g[Len(g)]
    BY <1>2 DEF Top
  <2>2. QED BY <1>2, <1>3, <1>5, <1>13, <1>14, <2>1 DEF Typed
<1>16. return_value' \in Answers
  BY DEF Answering
<1>17. (IInv /\ program \in Programs /\ return_value \in Answers /\ ScopesOK(scopes)
           /\ status = "running" /\ Typed)'
  BY <1>1, <1>15, <1>16
<1>18. QED BY <1>17, TypedShape, PTL

---------------------------------------------------------------------------
(* The steps of the interpreter.                                           *)

\* The interpreter runs, and its frames were called for a and nm.
Here(a, nm) ==
  /\ TypesInv /\ IInv /\ status = "running"
  /\ Stacked(program, frames, a, nm) /\ Named(program, frames, a, nm, scopes)
  /\ Returning(program, Top, a[Len(frames)], return_value)

\* How many parts a node has.
LEMMA ArityFacts ==
  ASSUME NEW p \in Programs, NEW n, NEW asks, NEW names, <<n, asks, names>> \in Nodes[p]
  PROVE  /\ n.kind \in {"And", "Or", "While"} => Len(n.kids) = 2
         /\ n.kind \in {"VarDecl", "Assign"} => Len(n.kids) = 1
         /\ n.kind = "If" => Len(n.kids) \in {2, 3}
         /\ n.kind \in {"Call", "Return"} => Len(n.kids) \in {0, 1} /\ (n.kids # <<>> => Len(n.kids) = 1)
<1>1. Len(n.kids) \in Arities(n.kind) /\ IsSeq(n.kids)
  BY NodeFacts DEF Fits
<1>2. n.kids # <<>> => Len(n.kids) # 0
  BY <1>1, EmptyFacts
<1>3. n.kind \in {"And", "Or", "While"} => Len(n.kids) = 2
  BY <1>1 DEF Arities
<1>4. n.kind \in {"VarDecl", "Assign"} => Len(n.kids) = 1
  BY <1>1 DEF Arities
<1>5. n.kind = "If" => Len(n.kids) \in {2, 3}
  BY <1>1 DEF Arities
<1>6. n.kind \in {"Call", "Return"} => Len(n.kids) \in {0, 1}
  BY <1>1 DEF Arities
<1>7. QED BY <1>2, <1>3, <1>4, <1>5, <1>6

\* A visit, in the form of the lemmas above.
LEMMA VisitIs ==
  ASSUME IsFrame(Top), NEW pc, NEW n, Visit(pc, n)
  PROVE  frames' = Append(Below, Going(pc, Top.place)) \o <<Frame(n, 0)>>
<1>1. [Top EXCEPT !.pc = pc] = Going(pc, Top.place)
  BY DEF IsFrame, Going
<1>2. QED BY <1>1 DEF Visit

\* The first part is evaluated.
LEMMA EvaluatedTyped ==
  ASSUME NEW a, NEW nm, Here(a, nm), IInv', UNCHANGED <<program, return_value, scopes, status>>,
         Top.node.kind \in {"And", "Or", "Call", "VarDecl", "Assign", "If", "While", "Return"},
         ~(Top.node.kind = "Call" /\ Top.pc = 2),
         1 \in 1..Len(Top.node.kids),
         NEW place, frames' = Append(Below, Going(1, place)) \o <<Frame(Kid(1), 0)>>
  PROVE  TypesInv'
<1> DEFINE t == Going(1, place)
           asks == AskedOf(Top.node.kind, 1, a[Len(frames)])
<1>1. /\ TypesInv /\ IInv /\ status = "running"
      /\ Stacked(program, frames, a, nm) /\ Named(program, frames, a, nm, scopes)
  BY DEF Here
<1>2. return_value \in Answers
  BY <1>1, HereFacts
<1>3. t.node = Top.node /\ t.pc = 1 /\ PcOK(t)
  BY DEF Going, PcOK
<1>4. "value" \in asks
  BY DEF AskedOf, IsEvaluated
<1>5. frames' = Append(Below, t) \o <<Frame(Top.node.kids[1], 0)>>
  BY DEF Kid
<1> HIDE DEF t
<1>6. AskedOf(Top.node.kind, t.pc, a[Len(frames)]) = asks
  BY <1>3
<1> HIDE DEF asks
<1>7. asks = AskedOf(Top.node.kind, 1, a[Len(frames)])
  BY DEF asks
<1>8. Top.node.kind # "Enter" /\ Top.node.kind # "Block" /\ ~(t.node.kind = "Call" /\ t.pc = 2) /\ t.pc > 0
  BY <1>3
<1>9. program' = program /\ status' = status /\ scopes' = scopes /\ return_value' \in Answers
  BY <1>2
<1>10. QED BY <1>1, <1>3, <1>4, <1>5, <1>6, <1>7, <1>8, <1>9, PartTyped

\* AndOrLeft, CallArgument, VarDecl, Assign, If, While and Return evaluate one.
LEMMA FirstTyped ==
  ASSUME NEW a, NEW nm, Here(a, nm), IInv',
         AndOrLeft \/ CallArgument \/ VarDecl \/ Assign \/ If \/ While \/ Return
  PROVE  TypesInv'
<1>1. /\ IsFrame(Top) /\ program \in Programs
      /\ Top.node.kind # "Enter" => <<Top.node, a[Len(frames)], nm[Len(frames)]>> \in Nodes[program]
  BY HereFacts DEF Here
<1>2. /\ UNCHANGED <<program, return_value, scopes, status>> /\ Top.pc = 0
      /\ Top.node.kind \in {"And", "Or", "Call", "VarDecl", "Assign", "If", "While", "Return"}
      /\ Top.node.kind \in {"Call", "Return"} => Top.node.kids # <<>>
      /\ Visit(1, Kid(1)) \/ Assign
  BY DEF AndOrLeft, CallArgument, VarDecl, Assign, If, While, Return, At, HasArgument
<1>3. 1 \in 1..Len(Top.node.kids)
  <2>1. <<Top.node, a[Len(frames)], nm[Len(frames)]>> \in Nodes[program]
    BY <1>1, <1>2
  <2> DEFINE n == Top.node
             asks == a[Len(frames)]
             names == nm[Len(frames)]
  <2> HIDE DEF n, asks, names
  <2>2. /\ n.kind \in {"And", "Or", "While"} => Len(n.kids) = 2
        /\ n.kind \in {"VarDecl", "Assign"} => Len(n.kids) = 1
        /\ n.kind = "If" => Len(n.kids) \in {2, 3}
        /\ n.kind \in {"Call", "Return"} => (n.kids # <<>> => Len(n.kids) = 1)
    <3>1. <<n, asks, names>> \in Nodes[program]
      BY <2>1 DEF n, asks, names
    <3>2. QED BY <1>1, <3>1, ArityFacts
  <2>5. /\ n.kind \in {"And", "Or", "Call", "VarDecl", "Assign", "If", "While", "Return"}
        /\ n.kind \in {"Call", "Return"} => n.kids # <<>>
    BY <1>2 DEF n
  <2>3. Len(n.kids) \in {1, 2, 3}
    <3>1. CASE n.kind \in {"And", "Or", "While"}
      BY <2>2, <3>1
    <3>2. CASE n.kind \in {"VarDecl", "Assign"}
      BY <2>2, <3>2
    <3>3. CASE n.kind = "If"
      BY <2>2, <3>3
    <3>4. CASE n.kind \in {"Call", "Return"}
      BY <2>2, <2>5, <3>4
    <3>5. QED BY <2>5, <3>1, <3>2, <3>3, <3>4
  <2>4. 1 \in 1..Len(n.kids)
    BY <2>3
  <2>6. QED BY <2>4 DEF n
<1>4. \E place : frames' = Append(Below, Going(1, place)) \o <<Frame(Kid(1), 0)>>
  <2>1. CASE Visit(1, Kid(1))
    BY <1>1, <2>1, VisitIs
  <2>2. CASE Assign
    <3> DEFINE place == getInfo(Top.node.name)
    <3>1. frames' = Append(Below, [Top EXCEPT !.pc = 1, !.place = place]) \o <<Frame(Kid(1), 0)>>
      BY <2>2 DEF Assign
    <3> HIDE DEF place
    <3>2. [Top EXCEPT !.pc = 1, !.place = place] = Going(1, place)
      BY <1>1, WrittenFrame DEF Going
    <3>3. QED BY <3>1, <3>2
  <2>3. QED BY <1>2, <2>1, <2>2
<1>5. PICK place : frames' = Append(Below, Going(1, place)) \o <<Frame(Kid(1), 0)>>
  BY <1>4
<1>6. QED BY <1>2, <1>3, <1>5, EvaluatedTyped

\* A part is visited with an empty register.
LEMMA ClearedTyped ==
  ASSUME NEW a, NEW nm, Here(a, nm), IInv', UNCHANGED <<program, scopes, status>>,
         return_value' = None,
         Top.node.kind \in {"And", "Or", "If", "While", "Block"},
         NEW i \in 1..Len(Top.node.kids), NEW pc \in Nat, pc > 0, PcOK(Going(pc, Top.place)),
         Visit(pc, Top.node.kids[i]),
         Top.node.kind = "Block" => pc = Top.pc + 1 /\ i = Top.pc,
         IsEvaluated(Top.node.kind, i) <=> IsEvaluated(Top.node.kind, pc)
  PROVE  TypesInv'
<1> DEFINE t == Going(pc, Top.place)
           l == Len(frames)
           asks == AskedOf(Top.node.kind, i, a[l])
<1>1. /\ TypesInv /\ IInv /\ status = "running"
      /\ Stacked(program, frames, a, nm) /\ Named(program, frames, a, nm, scopes)
  BY DEF Here
<1>2. IsFrame(Top) /\ program \in Programs /\ <<Top.node, a[l], nm[l]>> \in Nodes[program]
  BY <1>1, HereFacts
<1>3. t.node = Top.node /\ t.pc = pc /\ PcOK(t)
  BY DEF Going
<1>4. frames' = Append(Below, t) \o <<Frame(Top.node.kids[i], 0)>>
  BY <1>2, VisitIs
<1> HIDE DEF t
<1>5. AskedOf(Top.node.kind, t.pc, a[l]) = asks
  BY <1>3 DEF AskedOf
<1>6. "value" \in asks \/ Answering(return_value', asks)
  <2>1. CASE Top.node.kind \in {"And", "Or"}
    BY <2>1 DEF AskedOf, IsEvaluated
  <2>2. CASE Top.node.kind \in {"If", "While", "Block"}
    <3>1. Top.node.kind \in Statements
      BY <2>2 DEF Statements
    <3>2. "value" \notin a[l]
      BY <1>2, <3>1, StatementAsks
    <3>3. "value" \notin asks \/ "value" \in asks
      OBVIOUS
    <3>4. QED BY <3>3, OtherAnswers
  <2>3. QED BY <2>1, <2>2
<1>7. None \in Answers
  BY DEF Answers
<1> HIDE DEF asks
<1>8. asks = AskedOf(Top.node.kind, i, a[l])
  BY DEF asks
<1>9. Top.node.kind # "Enter" /\ ~(t.node.kind = "Call" /\ t.pc = 2) /\ t.pc > 0
      /\ ~(Top.node.kind = "Call" /\ Top.pc = 2)
      /\ (Top.node.kind = "Block" => t.pc = Top.pc + 1 /\ i = Top.pc)
  BY <1>3
<1>10. program' = program /\ status' = status /\ scopes' = scopes /\ return_value' \in Answers
  BY <1>7
<1>11. QED BY <1>1, <1>3, <1>4, <1>5, <1>6, <1>8, <1>9, <1>10, PartTyped

\* The visits of AndOrDecide, IfArm, WhileTest, WhileBody and BlockNext.
LEMMA SecondTyped ==
  ASSUME NEW a, NEW nm, Here(a, nm), IInv', frames' # Below,
         AndOrDecide \/ IfArm \/ WhileTest \/ WhileBody \/ BlockNext
  PROVE  TypesInv'
<1> DEFINE n == Top.node
           m == Len(n.kids)
<1>1. /\ IsFrame(Top) /\ program \in Programs /\ PcOK(Top)
      /\ Top.node.kind # "Enter" => <<n, a[Len(frames)], nm[Len(frames)]>> \in Nodes[program]
  BY HereFacts DEF Here
<1>2. Top.node.kind # "Enter" =>
        /\ DOMAIN n.kids = 1..m /\ m \in Nat
        /\ n.kind \in {"And", "Or", "While"} => m = 2
  BY <1>1, NodeFacts, ArityFacts
<1>3. CASE AndOrDecide
  <2>1. /\ UNCHANGED <<program, scopes, status>> /\ n.kind \in {"And", "Or"}
        /\ Visit(2, n.kids[2]) /\ return_value' = None
    BY <1>3 DEF AndOrDecide, At, Answer, Kid
  <2>2. 2 \in 1..m /\ 2 \in Nat
    BY <1>2, <2>1
  <2>3. PcOK(Going(2, Top.place))
    BY <2>1 DEF PcOK, Going
  <2>4. QED BY <2>1, <2>2, <2>3, ClearedTyped
<1>4. CASE IfArm
  <2>1. PICK i \in {2, 3} : /\ UNCHANGED <<program, scopes, status>> /\ n.kind = "If" /\ i \in DOMAIN n.kids
                            /\ Visit(2, n.kids[i]) /\ return_value' = None
    BY <1>4 DEF IfArm, At, Answer, Kid
  <2>2. i \in 1..m /\ 2 \in Nat
    BY <1>2, <2>1
  <2>3. PcOK(Going(2, Top.place))
    BY <2>1 DEF PcOK, Going
  <2>4. IsEvaluated(n.kind, i) <=> IsEvaluated(n.kind, 2)
    BY <2>1 DEF IsEvaluated
  <2>5. QED BY <2>1, <2>2, <2>3, <2>4, ClearedTyped
<1>5. CASE WhileTest \/ WhileBody
  <2>1. /\ UNCHANGED <<program, scopes, status>> /\ n.kind = "While" /\ return_value' = None
        /\ \E i \in {1, 2} : Visit(i, n.kids[i])
    BY <1>5 DEF WhileTest, WhileBody, At, Answer, Kid
  <2>2. PICK i \in {1, 2} : Visit(i, n.kids[i])
    BY <2>1
  <2>3. i \in 1..m /\ i \in Nat /\ i > 0
    BY <1>2, <2>1
  <2>4. PcOK(Going(i, Top.place))
    BY <2>1 DEF PcOK, Going
  <2>5. QED BY <2>1, <2>2, <2>3, <2>4, ClearedTyped
<1>6. CASE BlockNext
  <2>1. /\ UNCHANGED <<program, scopes, status>> /\ n.kind = "Block" /\ return_value' = None
        /\ Top.pc > 0 /\ ~(Top.pc > m) /\ Visit(Top.pc + 1, n.kids[Top.pc])
    BY <1>6 DEF BlockNext, InBlock, BlockEnds, Kid
  <2>2. Top.pc \in Nat
    BY <1>1 DEF IsFrame
  <2>3. PICK i : i = Top.pc
    OBVIOUS
  <2>4. i \in 1..m /\ i + 1 \in Nat /\ i + 1 > 0
    BY <1>2, <2>1, <2>2, <2>3
  <2>5. PcOK(Going(i + 1, Top.place))
    BY <1>2, <2>1, <2>4 DEF PcOK, Going
  <2>6. IsEvaluated(n.kind, i) <=> IsEvaluated(n.kind, i + 1)
    BY <2>1 DEF IsEvaluated
  <2>7. QED BY <2>1, <2>3, <2>4, <2>5, <2>6, ClearedTyped
<1>7. QED BY <1>3, <1>4, <1>5, <1>6

\* A frame that has no answer to take yet, or takes none.
Fresh(f) == f.pc = 0 \/ (f.node.kind = "Enter" /\ f.pc < Len(f.node.kids))

\* No transfer is under way when a visit begins.
Calm == status = "running" /\ Fresh(Top) => return_value.is \in {"none", "value"}

\* enter visits a global or main.
LEMMA EnterTyped ==
  ASSUME NEW a, NEW nm, Here(a, nm), Calm, IInv', EnterNext
  PROVE  TypesInv'
<1> DEFINE i == Top.pc + 1
           t == Going(i, Top.place)
           l == Len(frames)
           p == program
           n == Top.node.kids[i]
           asks == Asked(p, t, a[l])
           names == Declared(Top.node.kids, i - 1)
<1>1. /\ TypesInv /\ IInv /\ status = "running"
      /\ Stacked(program, frames, a, nm) /\ Named(program, frames, a, nm, scopes)
      /\ Returning(program, Top, a[l], return_value)
  BY DEF Here
<1>2. /\ UNCHANGED <<program, return_value, scopes, status>> /\ Top.node.kind = "Enter"
      /\ Top.pc < Len(Top.node.kids) /\ Visit(i, n)
  BY DEF EnterNext, Kid
<1>3. /\ IsFrame(Top) /\ p \in Programs /\ PcOK(Top) /\ ScopesOK(scopes) /\ return_value \in Answers
      /\ Top.node = Entry(p) /\ a[l] = {} /\ nm[l] = {}
      /\ Relied(Top, nm[l], 0) \subseteq DOMAIN SeenIn(scopes)[Len(scopes)]
  BY <1>1, <1>2, HereFacts
<1>4. Top.pc \in Nat
  BY <1>3 DEF IsFrame
<1>5. /\ Len(Top.node.kids) = Len(p.globals) + 1 /\ Len(p.globals) \in Nat
      /\ \A j \in 1..Len(p.globals) :
           <<Top.node.kids[j], {"constant"}, Declared(Top.node.kids, j - 1)>> \in Nodes[p]
      /\ <<Top.node.kids[Len(Top.node.kids)], {"result"}, Globals(p)>> \in Nodes[p]
      /\ Declared(Top.node.kids, Len(p.globals)) = Globals(p)
  BY <1>3, EntryFacts
<1>6. i \in 1..Len(Top.node.kids) /\ i - 1 = Top.pc /\ i > 0 /\ i - 1 - 0 = i - 1 /\ i \in Nat
  <2>1. PICK k, pc : k = Len(Top.node.kids) /\ pc = Top.pc
    OBVIOUS
  <2>2. k \in Nat /\ pc \in Nat /\ pc < k
    BY <1>2, <1>4, <1>5, <2>1
  <2>3. i = pc + 1
    BY <2>1
  <2> HIDE DEF i
  <2>4. i \in 1..k /\ i - 1 = pc /\ i > 0 /\ i - 1 - 0 = i - 1 /\ i \in Nat
    BY <2>2, <2>3
  <2>5. QED BY <2>1, <2>4
<1>7. t.node = Top.node /\ t.pc = i
  BY DEF Going
<1>8. frames' = Append(Below, t) \o <<Frame(n, 0)>>
  BY <1>2, <1>3, VisitIs
<1> HIDE DEF t, i
<1>22. PcOK(t)
  <2>1. i \in 0..Len(Top.node.kids)
    BY <1>6
  <2>2. t.node.kind = "Enter" /\ t.pc \in 0..Len(t.node.kids)
    BY <1>2, <1>7, <2>1
  <2>3. QED BY <2>2 DEF PcOK
<1>9. asks = IF i < Len(Top.node.kids) THEN {"constant"} ELSE {"result"}
  BY <1>2, <1>7 DEF Asked
<1>10. <<n, asks, names>> \in Nodes[p]
  <2>1. CASE i < Len(Top.node.kids)
    <3>1. i \in 1..Len(p.globals)
      BY <1>5, <1>6, <2>1
    <3>2. QED BY <1>5, <1>9, <2>1, <3>1
  <2>2. CASE ~(i < Len(Top.node.kids))
    <3>1. i = Len(Top.node.kids) /\ i - 1 = Len(p.globals)
      BY <1>5, <1>6, <2>2
    <3>2. QED BY <1>5, <1>9, <2>2, <3>1
  <2>3. QED BY <2>1, <2>2
<1>11. Lists(t) /\ Reached(t) = i /\ Lists(Top) /\ Reached(Top) = i - 1
  BY <1>2, <1>6, <1>7 DEF Lists, Reached
<1>12. Relied(t, nm[l], 1) = names /\ Relied(Top, nm[l], 0) = names
  BY <1>2, <1>3, <1>6, <1>7, <1>11 DEF Relied
<1>13. "constant" \notin asks => Globals(p) = names
  <2>1. "constant" \notin asks => ~(i < Len(Top.node.kids))
    BY <1>9
  <2>2. ~(i < Len(Top.node.kids)) => i - 1 = Len(p.globals)
    BY <1>5, <1>6
  <2>3. QED BY <1>5, <2>1, <2>2
<1>14. Answering(return_value, asks)
  <2>1. return_value.is \in {"none", "value"}
    BY <1>1, <1>2 DEF Calm, Fresh
  <2>2. asks \in {{"result"}, {"constant"}}
    BY <1>9
  <2>3. QED BY <1>3, <2>1, <2>2 DEF Answering
<1> HIDE DEF asks, names, n
<1>15. asks = Asked(program, t, a[l])
  BY DEF asks
<1>16. names \cup Relied(t, nm[l], 1) \subseteq DOMAIN SeenIn(scopes')[Len(scopes')]
  BY <1>2, <1>3, <1>12
<1>17. "constant" \notin asks => Globals(program) \subseteq DOMAIN scopes'[1].refs
  <2>1. l = 1 /\ Len(scopes) = Depth(frames, l)
    BY <1>1, <1>2, HereFacts DEF l
  <2>2. Len(scopes) = 1
    <3>1. Owned(frames, 0 + 1) = Owned(frames, 0) + One(frames[0 + 1])
      BY OwnedNext
    <3>2. Owned(frames, 0) = 0
      BY FS_EmptySet DEF Owned
    <3>3. One(frames[1]) = 0
      BY <1>2, <2>1 DEF One, OwnsScope, Top, l
    <3>4. QED BY <2>1, <3>1, <3>2, <3>3 DEF Depth
  <2>3. DOMAIN SeenIn(scopes)[1] = DOMAIN scopes[1].refs
    <3>1. Chained(scopes) /\ 1 \in 1..Len(scopes) /\ 1 - 1 = 0
      BY <1>3, <2>2, ChainedFacts
    <3>2. scopes[1].parent = 0
      BY <3>1 DEF Chained
    <3>3. /\ DOMAIN SeenIn(scopes)[1] = DOMAIN scopes[1].refs \cup DOMAIN SeenIn(scopes)[scopes[1].parent]
          /\ SeenIn(scopes)[0] = Nothing
      BY <3>1, SeenFacts
    <3>4. DOMAIN Nothing = {}
      BY EmptyFacts, SeqFacts DEF Nothing
    <3>5. QED BY <3>2, <3>3, <3>4
  <2>4. QED BY <1>2, <1>3, <1>12, <1>13, <2>2, <2>3
<1>18. Keeps(scopes, scopes', Len(scopes))
  BY <1>2 DEF Keeps
<1>19. /\ program' = program /\ status' = status /\ ScopesOK(scopes') /\ return_value' \in Answers
       /\ "value" \in asks \/ Answering(return_value', asks)
  BY <1>2, <1>3, <1>14
<1>20. t.node = Top.node /\ t.pc > 0 /\ (Lists(t) => n = t.node.kids[Reached(t)])
  BY <1>6, <1>7, <1>11 DEF n
<1>21. QED BY <1>1, <1>8, <1>22, <1>10, <1>15, <1>16, <1>17, <1>18, <1>19, <1>20, VisitTyped DEF l

\* What a call may rely on.
LEMMA CalleeFacts ==
  ASSUME NEW p \in Programs, NEW n, NEW asks, NEW names, <<n, asks, names>> \in Nodes[p],
         n.kind = "Call"
  PROVE  LET f == p.funcs[n.name] IN
         /\ "constant" \notin asks
         /\ "value" \in asks => f.result # "void"
         /\ <<f.body, BodyAsks(f), Globals(p) \cup Params(f)>> \in Nodes[p]
         /\ n.kids = <<>> => Params(f) = {}
<1> DEFINE f == p.funcs[n.name]
<1>1. Fits(p, n, asks, names) /\ IsSeq(n.kids)
  BY NodeFacts
<1>2. CallFits(p, n, asks)
  BY <1>1 DEF Fits
<1>3. <<f.body, BodyAsks(f), Globals(p) \cup Params(f)>> \in Nodes[p]
  BY <1>2, ProgramsAssumption DEF CallFits, WellFormed
<1>4. ASSUME n.kids = <<>> PROVE Params(f) = {}
  <2>1. Cardinality(Params(f)) = 0
    BY <1>2, <1>4, EmptyFacts DEF CallFits
  <2>2. IsFiniteSet(Params(f))
    BY FS_EmptySet, FS_Singleton DEF Params
  <2> HIDE DEF f
  <2>3. QED BY <2>1, <2>2, FS_EmptySet
<1>5. QED BY <1>2, <1>3, <1>4 DEF CallFits

\* A call's context sees the globals and its parameter.
LEMMA CalledTyped ==
  ASSUME NEW s, ScopesOK(s), Len(s) # 0, NEW x, NEW v \in BOOLEAN
  PROVE  LET u == Append(s, Scope(0, s[1].refs))
             w == setInfo(u, x, v)
         IN /\ ScopesOK(u) /\ Keeps(s, u, Len(s)) /\ DOMAIN SeenIn(u)[Len(u)] = DOMAIN s[1].refs
            /\ ScopesOK(w) /\ Keeps(s, w, Len(s)) /\ DOMAIN SeenIn(w)[Len(w)] = {x} \cup DOMAIN s[1].refs
<1> DEFINE n == Len(s)
           refs == s[1].refs
           u == Append(s, Scope(0, refs))
           w == setInfo(u, x, v)
<1>1. Chained(s) /\ n \in Nat /\ n # 0
  BY ChainedFacts
<1>2. \A y \in DOMAIN refs : PlaceOK(refs[y], n, s)
  <2>1. 1 \in 1..n /\ 1..1 \subseteq 1..n
    BY <1>1
  <2>2. \A y \in DOMAIN refs : PlaceOK(refs[y], 1, s)
    BY <2>1 DEF ScopesOK
  <2> HIDE DEF refs
  <2>3. QED BY <2>1, <2>2 DEF PlaceOK
<1>3. 0 \in 0..n
  BY <1>1
<1> HIDE DEF refs
<1>4. /\ ScopesOK(u) /\ Len(u) = n + 1 /\ Keeps(s, u, n)
      /\ DOMAIN SeenIn(u)[Len(u)] = DOMAIN refs \cup DOMAIN SeenIn(s)[0]
  BY <1>1, <1>2, <1>3, OpenedFacts
<1>5. DOMAIN SeenIn(s)[0] = {}
  <2>1. SeenIn(s)[0] = Nothing
    BY <1>1, SeenFacts
  <2>2. QED BY <2>1, EmptyFacts, SeqFacts DEF Nothing
<1> HIDE DEF u
<1>6. Len(u) # 0 /\ 1..n \subseteq 1..Len(u)
  BY <1>1, <1>4
<1>7. /\ ScopesOK(w) /\ Len(w) = Len(u) /\ Keeps(u, w, Len(u))
      /\ DOMAIN SeenIn(w)[Len(u)] = {x} \cup DOMAIN SeenIn(u)[Len(u)]
  BY <1>4, <1>6, DeclaredFacts
<1> HIDE DEF w
<1>8. Keeps(s, w, n)
  BY <1>4, <1>6, <1>7, KeepsTrans
<1>9. QED BY <1>4, <1>5, <1>7, <1>8 DEF u, w, refs, n

\* The body of a function is visited in a context of its own.
LEMMA CallBodyTyped ==
  ASSUME NEW a, NEW nm, Here(a, nm), IInv', CallBody
  PROVE  TypesInv'
<1> DEFINE t == Going(2, Top.place)
           l == Len(frames)
           f == program.funcs[Top.node.name]
           asks == BodyAsks(f)
           names == Globals(program) \cup Params(f)
<1>1. /\ TypesInv /\ IInv /\ status = "running"
      /\ Stacked(program, frames, a, nm) /\ Named(program, frames, a, nm, scopes)
      /\ Returning(program, Top, a[l], return_value)
  BY DEF Here
<1>2. /\ UNCHANGED <<program, status>> /\ Top.node.kind = "Call" /\ Visit(2, f.body)
      /\ return_value' = None
      /\ Top.node.kids # <<>> => /\ Top.pc = 1
                                 /\ scopes' = setInfo(Called, f.param, return_value.v)
      /\ Top.node.kids = <<>> => scopes' = Called
  BY DEF CallBody, ArgumentsReady, HasArgument, At, Callee
<1>3. /\ IsFrame(Top) /\ program \in Programs /\ ScopesOK(scopes) /\ Len(scopes) # 0
      /\ return_value \in Answers
      /\ <<Top.node, a[l], nm[l]>> \in Nodes[program]
      /\ "constant" \notin a[l] => Globals(program) \subseteq DOMAIN scopes[1].refs
  BY <1>1, <1>2, HereFacts
<1>4. /\ "constant" \notin a[l]
      /\ <<f.body, asks, names>> \in Nodes[program]
      /\ Top.node.kids = <<>> => Params(f) = {}
  BY <1>2, <1>3, CalleeFacts
<1>5. t.node = Top.node /\ t.pc = 2 /\ PcOK(t) /\ t.pc > 0 /\ ~Lists(t)
  BY <1>2 DEF Going, PcOK, Lists
<1>6. frames' = Append(Below, t) \o <<Frame(f.body, 0)>>
  BY <1>2, <1>3, VisitIs
<1> HIDE DEF t
<1>7. asks = Asked(program, t, a[l]) /\ Relied(t, nm[l], 1) = {}
  BY <1>2, <1>5 DEF Asked, Relied
<1>8. Params(f) \subseteq {f.param}
  BY DEF Params
<1>9. /\ ScopesOK(scopes') /\ Keeps(scopes, scopes', Len(scopes))
      /\ names \subseteq DOMAIN SeenIn(scopes')[Len(scopes')]
  <2>1. CASE Top.node.kids = <<>>
    <3>1. TRUE \in BOOLEAN
      OBVIOUS
    <3>2. /\ ScopesOK(Called) /\ Keeps(scopes, Called, Len(scopes))
          /\ DOMAIN SeenIn(Called)[Len(Called)] = DOMAIN scopes[1].refs
      BY <1>3, <3>1, CalledTyped DEF Called
    <3>3. QED BY <1>2, <1>3, <1>4, <2>1, <3>2
  <2>2. CASE Top.node.kids # <<>>
    <3> DEFINE v == return_value.v
               w == setInfo(Called, f.param, v)
    <3>1. v \in BOOLEAN
      <4>1. Answering(return_value, Asked(program, Top, a[l]))
        BY <1>1, <1>2, <2>2 DEF Returning
      <4>2. "value" \in Asked(program, Top, a[l])
        BY <1>2, <2>2 DEF Asked, AskedOf, IsEvaluated
      <4>3. return_value.is = "value"
        BY <4>1, <4>2 DEF Answering
      <4>4. QED BY <1>3, <4>3, ValueFacts
    <3> HIDE DEF v
    <3>2. /\ ScopesOK(w) /\ Keeps(scopes, w, Len(scopes))
          /\ DOMAIN SeenIn(w)[Len(w)] = {f.param} \cup DOMAIN scopes[1].refs
      BY <1>3, <3>1, CalledTyped DEF Called
    <3>3. scopes' = w
      BY <1>2, <2>2 DEF v
    <3> HIDE DEF w
    <3>4. QED BY <1>3, <1>4, <1>8, <3>2, <3>3
  <2>3. QED BY <2>1, <2>2
<1>10. Globals(program) \subseteq DOMAIN scopes'[1].refs
  BY <1>3, <1>4, <1>9 DEF Keeps
<1>11. None \in Answers /\ Answering(None, asks)
  <2>1. "value" \notin asks
    BY DEF BodyAsks
  <2>2. QED BY <2>1, OtherAnswers
<1> HIDE DEF asks, names, f, l
<1>12. /\ program' = program /\ status' = status /\ return_value' \in Answers
       /\ "value" \in asks \/ Answering(return_value', asks)
  BY <1>2, <1>11
<1>13. names \cup Relied(t, nm[l], 1) \subseteq DOMAIN SeenIn(scopes')[Len(scopes')]
  BY <1>7, <1>9
<1>14. QED BY <1>1, <1>4, <1>5, <1>6, <1>7, <1>9, <1>10, <1>12, <1>13, VisitTyped DEF l

\* A block opens its context.
LEMMA BlockTyped ==
  ASSUME NEW a, NEW nm, Here(a, nm), IInv', Block
  PROVE  TypesInv'
<1> DEFINE t == Going(1, Top.place)
           l == Len(frames)
<1>1. /\ TypesInv /\ IInv /\ status = "running"
      /\ Stacked(program, frames, a, nm) /\ Named(program, frames, a, nm, scopes)
      /\ Returning(program, Top, a[l], return_value)
  BY DEF Here
<1>2. /\ UNCHANGED <<program, return_value, status>> /\ Top.node.kind = "Block" /\ Top.pc = 0
      /\ scopes' = Nested /\ frames' = Append(Below, [Top EXCEPT !.pc = 1])
  BY DEF Block, At
<1>3. /\ StackOK(frames) /\ IsFrame(Top) /\ program \in Programs /\ ScopesOK(scopes)
      /\ Len(scopes) = Depth(frames, l) /\ Len(scopes) # 0 /\ Len(scopes) \in Nat
      /\ return_value \in Answers
      /\ <<Top.node, a[l], nm[l]>> \in Nodes[program]
      /\ Relied(Top, nm[l], 0) \subseteq DOMAIN SeenIn(scopes)[Len(scopes)]
  BY <1>1, <1>2, HereFacts
<1>4. t.node = Top.node /\ t.pc = 1
  BY DEF Going
<1>5. frames' = Append(Below, t)
  BY <1>2, <1>3 DEF IsFrame, Going
<1>6. Len(Top.node.kids) \in Nat
  BY <1>3, NodeFacts
<1>7. PcOK(t)
  <2>1. t.node.kind = "Block" /\ t.pc \in 0..(Len(t.node.kids) + 1)
    BY <1>2, <1>4, <1>6
  <2>2. QED BY <2>1 DEF PcOK
<1>8. PICK g : g = frames'
  OBVIOUS
<1>9. IsSeq(Below) /\ Len(Below) = l - 1 /\ l \in Nat \ {0} /\ \A i \in 1..(l - 1) : Below[i] = frames[i]
  BY <1>3, TopFacts
<1> HIDE DEF t
<1>10. Len(g) = l /\ g[l] = t /\ \A i \in 1..(l - 1) : g[i] = frames[i]
  <2>1. /\ Len(g) = Len(Below) + 1 /\ g[Len(Below) + 1] = t
        /\ \A i \in 1..Len(Below) : g[i] = Below[i]
    BY <1>5, <1>8, <1>9, AppendFacts
  <2>2. Len(Below) + 1 = l
    BY <1>9
  <2>3. QED BY <1>9, <2>1, <2>2
<1>11. /\ ScopesOK(scopes') /\ Keeps(scopes, scopes', Len(scopes))
       /\ DOMAIN SeenIn(scopes)[Len(scopes)] \subseteq DOMAIN SeenIn(scopes')[Len(scopes')]
  <2>1. Len(scopes) \in 0..Len(scopes) /\ \A x \in DOMAIN Nothing : PlaceOK(Nothing[x], Len(scopes), scopes)
    BY <1>3, EmptyFacts, SeqFacts DEF Nothing
  <2>2. /\ ScopesOK(Nested) /\ Keeps(scopes, Nested, Len(scopes))
        /\ DOMAIN SeenIn(Nested)[Len(Nested)] = DOMAIN Nothing \cup DOMAIN SeenIn(scopes)[Len(scopes)]
    BY <1>3, <2>1, OpenedFacts DEF Nested
  <2>3. QED BY <1>2, <2>2
<1>12. Len(scopes') = Depth(g, l)
  BY <1>1, <1>2, <1>8, <1>10 DEF IInv, Depth
<1>13. Relied(t, nm[l], 0) \subseteq Relied(Top, nm[l], 0)
  <2>1. /\ Relied(t, nm[l], 0) = nm[l] \cup Declared(Top.node.kids, 1 - 1 - 0)
        /\ Relied(Top, nm[l], 0) = nm[l] \cup Declared(Top.node.kids, 0 - 1 - 0)
    BY <1>2, <1>4 DEF Relied, Lists, Reached
  <2>2. Declared(Top.node.kids, 1 - 1 - 0) = {}
    BY DEF Declared
  <2>3. QED BY <2>1, <2>2
<1>14. PICK u, s : u = scopes' /\ s = scopes
  OBVIOUS
<1>15. Stacked(program, g, a, nm) /\ Named(program, g, a, nm, u)
  <2>1. PICK fr, p : fr = frames /\ p = program
    OBVIOUS
  <2>2. t.node = fr[Len(fr)].node
    BY <1>4, <2>1 DEF Top
  <2>3. Relied(t, nm[Len(fr)], 0) \subseteq DOMAIN SeenIn(u)[Depth(g, Len(fr))]
    BY <1>3, <1>11, <1>12, <1>13, <1>14, <2>1
  <2>4. Keeps(s, u, Depth(fr, Len(fr)))
    BY <1>3, <1>11, <1>14, <2>1
  <2>5. StackOK(fr) /\ Stacked(p, fr, a, nm) /\ Named(p, fr, a, nm, s)
    BY <1>1, <1>3, <1>14, <2>1
  <2>6. Len(g) = Len(fr) /\ g[Len(fr)] = t /\ \A i \in 1..(Len(fr) - 1) : g[i] = fr[i]
    BY <1>10, <2>1
  <2>7. Stayed(p, fr, a, nm, s, t, g, u)
    BY <1>7, <2>2, <2>3, <2>4, <2>5, <2>6 DEF Stayed
  <2>8. Stacked(p, g, a, nm) /\ Named(p, g, a, nm, u)
    BY <2>7, StayTyped
  <2>9. QED BY <2>1, <2>8
<1>16. Returning(program, g[Len(g)], a[Len(g)], return_value')
  <2>1. "value" \notin a[l]
    BY <1>2, <1>3, StatementAsks DEF Statements
  <2>2. Answering(return_value, a[l])
    BY <1>1, <1>2, <2>1 DEF Returning
  <2>3. Asked(program, t, a[l]) = a[l]
    BY <1>2, <1>4 DEF Asked, AskedOf, IsEvaluated
  <2>4. QED BY <1>2, <1>4, <1>10, <2>2, <2>3 DEF Returning
<1>17. Typed'
  <2>1. Top' = g[Len(g)]
    BY <1>8 DEF Top
  <2>2. program' = program
    BY <1>2
  <2>3. QED BY <1>8, <1>14, <1>15, <1>16, <2>1, <2>2 DEF Typed
<1>18. (IInv /\ program \in Programs /\ return_value \in Answers /\ ScopesOK(scopes)
           /\ status = "running" /\ Typed)'
  BY <1>1, <1>2, <1>3, <1>11, <1>17
<1>19. QED BY <1>18, TypedShape, PTL

\* A visit is no return.
LEMMA VisitLonger ==
  ASSUME StackOK(frames), NEW pc, NEW n, Visit(pc, n)
  PROVE  frames' # Below
<1> DEFINE t == [Top EXCEPT !.pc = pc]
           h == Append(Below, t)
           e == <<Frame(n, 0)>>
<1>1. IsSeq(Below) /\ Len(Below) \in Nat
  BY TopFacts
<1>2. IsSeq(h) /\ Len(h) = Len(Below) + 1
  BY <1>1, AppendFacts
<1>3. IsSeq(e) /\ Len(e) = 1
  <2>1. e = [i \in 1..1 |-> e[i]]
    OBVIOUS
  <2> HIDE DEF e
  <2>2. QED BY <2>1, FunctionIsSeq
<1>4. frames' = h \o e
  BY DEF Visit
<1> HIDE DEF h, e
<1>5. Len(frames') = Len(Below) + 1 + 1
  <2>1. Len(h \o e) = Len(h) + Len(e)
    BY <1>2, <1>3, ConcatFacts
  <2>2. QED BY <1>2, <1>3, <1>4, <2>1
<1>6. QED BY <1>1, <1>5

\* A frame answers and leaves the contexts alone.
LEMMA AnswerSame ==
  ASSUME NEW a, NEW nm, Here(a, nm), IInv', UNCHANGED <<program, scopes, status>>, frames' = Below,
         Top.node.kind \notin {"Enter", "VarDecl"}, Answering(return_value', a[Len(frames)])
  PROVE  TypesInv'
<1>1. /\ TypesInv /\ IInv /\ status = "running"
      /\ Stacked(program, frames, a, nm) /\ Named(program, frames, a, nm, scopes)
  BY DEF Here
<1>2. ScopesOK(scopes)
  BY <1>1, HereFacts
<1>3. ScopesOK(scopes') /\ Keeps(scopes, scopes', Len(scopes'))
  BY <1>2 DEF Keeps
<1>4. QED BY <1>1, <1>3, AnswerTyped

\* A value that was asked for is one.
LEMMA AskedValue ==
  ASSUME NEW a, NEW nm, Here(a, nm), Top.pc # 0,
         "value" \in Asked(program, Top, a[Len(frames)])
  PROVE  _isValue /\ return_value.v \in BOOLEAN /\ return_value = Value(return_value.v)
<1>1. Answering(return_value, Asked(program, Top, a[Len(frames)]))
  BY DEF Here, Returning
<1>2. return_value \in Answers /\ return_value.is = "value"
  BY <1>1 DEF Answering
<1>3. QED BY <1>2, ValueFacts DEF _isValue

\* Expressions answer a value.
LEMMA ExpressionTyped ==
  ASSUME NEW a, NEW nm, Here(a, nm), IInv', frames' = Below,
         IntLiteral \/ getint \/ DeclRef \/ AndOrDecide \/ AndOrRight
  PROVE  TypesInv'
<1>1. /\ TypesInv /\ IInv /\ status = "running"
      /\ Stacked(program, frames, a, nm) /\ Named(program, frames, a, nm, scopes)
  BY DEF Here
<1>2. /\ StackOK(frames) /\ ScopesOK(scopes) /\ program \in Programs /\ Len(scopes) # 0 /\ Len(scopes) \in Nat
      /\ Relied(Top, nm[Len(frames)], 0) \subseteq DOMAIN SeenIn(scopes)[Len(scopes)]
      /\ Top.node.kind # "Enter" => <<Top.node, a[Len(frames)], nm[Len(frames)]>> \in Nodes[program]
  BY <1>1, HereFacts
<1>3. /\ UNCHANGED <<program, scopes, status>>
      /\ Top.node.kind \in {"IntLiteral", "getint", "DeclRef", "And", "Or"}
  BY DEF IntLiteral, getint, DeclRef, AndOrDecide, AndOrRight, At
<1>4. \E v \in BOOLEAN : return_value' = Value(v)
  <2>1. CASE IntLiteral \/ getint
    BY <2>1 DEF IntLiteral, getint, Answer
  <2>2. CASE DeclRef
    <3> DEFINE x == Top.node.name
               place == SeenIn(scopes)[Len(scopes)][x]
    <3>1. Top.node.kind = "DeclRef" /\ return_value' = Value(ValueAt(place))
      BY <2>2 DEF DeclRef, At, Answer, getInfo, Visible
    <3>2. x \in nm[Len(frames)]
      <4>1. Fits(program, Top.node, a[Len(frames)], nm[Len(frames)])
        BY <1>2, <3>1, NodeFacts
      <4>2. QED BY <3>1, <4>1 DEF Fits
    <3>3. x \in DOMAIN SeenIn(scopes)[Len(scopes)]
      BY <1>2, <3>1, <3>2 DEF Relied, Lists
    <3>4. PlaceOK(place, Len(scopes), scopes)
      <4>1. Len(scopes) \in 1..Len(scopes)
        BY <1>2
      <4>2. QED BY <1>2, <3>3, <4>1, SeenPlaces
    <3> HIDE DEF place
    <3>5. ValueAt(place) \in BOOLEAN
      BY <1>2, <3>4 DEF PlaceOK, ValueAt, ScopesOK
    <3>6. QED BY <3>1, <3>5
  <2>3. CASE AndOrDecide \/ AndOrRight
    <3>1. return_value' = return_value /\ Top.pc # 0 /\ Top.node.kind \in {"And", "Or"}
      BY <1>2, <2>3, VisitLonger DEF AndOrDecide, AndOrRight, At, Answer
    <3>2. "value" \in Asked(program, Top, a[Len(frames)])
      BY <3>1 DEF Asked, AskedOf, IsEvaluated
    <3>3. QED BY <3>1, <3>2, AskedValue
  <2>4. QED BY <2>1, <2>2, <2>3
<1>5. Answering(return_value', a[Len(frames)])
  BY <1>4, ValueAnswers
<1>6. QED BY <1>3, <1>5, AnswerSame

\* Statements answer nothing or a transfer.
LEMMA StatementTyped ==
  ASSUME NEW a, NEW nm, Here(a, nm), IInv', frames' = Below,
         IfArm \/ IfDone \/ WhileTest \/ WhileBody \/ Break \/ Continue \/ ReturnNothing \/ ReturnValue
  PROVE  TypesInv'
<1> DEFINE asks == a[Len(frames)]
<1>1. /\ TypesInv /\ IInv /\ status = "running"
      /\ Stacked(program, frames, a, nm) /\ Named(program, frames, a, nm, scopes)
      /\ Returning(program, Top, asks, return_value)
  BY DEF Here
<1>2. /\ StackOK(frames) /\ program \in Programs
      /\ Top.node.kind # "Enter" => <<Top.node, asks, nm[Len(frames)]>> \in Nodes[program]
  BY <1>1, HereFacts
<1>3. /\ UNCHANGED <<program, scopes, status>>
      /\ Top.node.kind \in {"If", "While", "Break", "Continue", "Return"}
  BY DEF IfArm, IfDone, WhileTest, WhileBody, Break, Continue, ReturnNothing, ReturnValue, At
<1>4. Fits(program, Top.node, asks, nm[Len(frames)]) /\ "value" \notin asks
  BY <1>2, <1>3, NodeFacts, StatementAsks DEF Statements
<1>5. /\ Answering(None, asks)
      /\ "loop" \in asks => Answering(Breaking, asks) /\ Answering(Continuing, asks)
      /\ "result" \notin asks => Answering(Returned(NoValue), asks)
      /\ \A v \in BOOLEAN : Answering(Returned(v), asks)
  BY <1>4, OtherAnswers
<1>6. Answering(return_value', asks)
  <2>1. CASE IfArm \/ WhileTest
    <3>1. return_value' = None
      BY <1>2, <2>1 DEF IfArm, WhileTest, At, Answer
    <3>2. QED BY <1>5, <3>1
  <2>2. CASE IfDone
    <3>1. return_value' = return_value /\ Top.pc = 2 /\ Top.node.kind = "If"
      BY <2>2 DEF IfDone, At, Answer
    <3>2. Asked(program, Top, asks) = asks
      BY <3>1 DEF Asked, AskedOf, IsEvaluated
    <3>3. QED BY <1>1, <3>1, <3>2 DEF Returning
  <2>3. CASE WhileBody
    <3>1. return_value' \in {None, return_value} /\ Top.pc = 2 /\ Top.node.kind = "While"
          /\ (return_value' = None \/ return_value.is = "return")
      BY <1>2, <2>3, VisitLonger DEF WhileBody, WhileAnswer, At, Answer
    <3>2. Asked(program, Top, asks) = asks \cup {"loop"}
      BY <3>1 DEF Asked, AskedOf, IsEvaluated
    <3>3. Answering(return_value, asks \cup {"loop"})
      BY <1>1, <3>1, <3>2 DEF Returning
    <3>4. return_value.is = "return" => Answering(return_value, asks)
      BY <1>4, <3>3 DEF Answering
    <3>5. QED BY <1>5, <3>1, <3>4
  <2>4. CASE Break \/ Continue
    <3>1. return_value' \in {Breaking, Continuing} /\ Top.node.kind \in {"Break", "Continue"}
      BY <2>4 DEF Break, Continue, At, Answer
    <3>2. "loop" \in asks
      BY <1>4, <3>1 DEF Fits
    <3>3. QED BY <1>5, <3>1, <3>2
  <2>5. CASE ReturnNothing
    <3>1. return_value' = Returned(NoValue) /\ Top.node.kind = "Return" /\ Top.node.kids = <<>>
      BY <2>5 DEF ReturnNothing, At, Answer
    <3>2. "result" \notin asks
      BY <1>4, <3>1 DEF Fits
    <3>3. QED BY <1>5, <3>1, <3>2
  <2>6. CASE ReturnValue
    <3>1. return_value' = Returned(return_value.v) /\ Top.node.kind = "Return" /\ Top.pc = 1
      BY <2>6 DEF ReturnValue, At, Answer
    <3>2. "value" \in Asked(program, Top, asks)
      BY <3>1 DEF Asked, AskedOf, IsEvaluated
    <3>3. return_value.v \in BOOLEAN
      BY <3>1, <3>2, AskedValue
    <3>4. QED BY <1>5, <3>1, <3>3
  <2>7. QED BY <2>1, <2>2, <2>3, <2>4, <2>5, <2>6
<1>7. QED BY <1>3, <1>6, AnswerSame

\* A call or a block gives its context back.
LEMMA LeaveTyped ==
  ASSUME NEW a, NEW nm, Here(a, nm), IInv', CallDone \/ BlockDone
  PROVE  TypesInv'
<1> DEFINE asks == a[Len(frames)]
           n == Top.node
<1>1. /\ TypesInv /\ IInv /\ status = "running"
      /\ Stacked(program, frames, a, nm) /\ Named(program, frames, a, nm, scopes)
      /\ Returning(program, Top, asks, return_value)
  BY DEF Here
<1>2. /\ ScopesOK(scopes) /\ Len(scopes) # 0 /\ program \in Programs /\ return_value \in Answers
      /\ n.kind # "Enter" => <<n, asks, nm[Len(frames)]>> \in Nodes[program]
  BY <1>1, HereFacts
<1>3. /\ UNCHANGED <<program, status>> /\ frames' = Below /\ scopes' = Popped
      /\ n.kind \in {"Call", "Block"} /\ Top.pc # 0
  BY DEF CallDone, BlockDone, InBlock, At, Answer, ScopesAfterBlock
<1>4. ScopesOK(scopes') /\ Keeps(scopes, scopes', Len(scopes'))
  <2>1. ScopesOK(Popped) /\ (Len(Popped) # 0 => Keeps(scopes, Popped, Len(Popped)))
    BY <1>2, PoppedFacts DEF Popped
  <2>2. Len(scopes') # 0
    <3>1. StackOK(frames') /\ Len(scopes') = 1 + Owned(frames', Len(frames'))
      BY <1>1, <1>3 DEF IInv
    <3>2. Owned(frames', Len(frames')) \in Nat
      BY <3>1, OwnedNext DEF StackOK
    <3>3. QED BY <3>1, <3>2
  <2>3. QED BY <1>3, <2>1, <2>2
<1>5. Answering(return_value', asks)
  <2>1. CASE CallDone
    <3> DEFINE f == program.funcs[n.name]
               r == return_value
    <3>1. /\ n.kind = "Call" /\ Top.pc = 2 /\ (_isCFD \/ f.result = "void")
          /\ return_value' = CallAnswer(r)
      BY <2>1 DEF CallDone, At, Answer, Callee
    <3>2. "value" \in asks => f.result # "void"
      BY <1>2, <3>1, CalleeFacts
    <3>3. Answering(r, BodyAsks(f))
      BY <1>1, <3>1 DEF Returning, Asked
    <3> HIDE DEF f
    <3>4. CASE r.is = "return" /\ r.v # NoValue
      <4>1. r.v \in BOOLEAN
        BY <1>2, <3>4, ReturnFacts
      <4>2. return_value' = Value(r.v)
        BY <3>1, <3>4 DEF CallAnswer
      <4>3. QED BY <4>1, <4>2, ValueAnswers
    <3>5. CASE ~(r.is = "return" /\ r.v # NoValue)
      <4>1. return_value' = None
        BY <3>1, <3>5 DEF CallAnswer
      <4>2. f.result # "void" => r.is \notin {"none", "value", "break", "continue"}
        <5>1. f.result # "void" => BodyAsks(f) = {"result"} /\ r.is # "none" /\ r.is # "value"
          BY <3>1 DEF BodyAsks, _isCFD, _isNone, _isValue
        <5>2. QED BY <3>3, <5>1 DEF Answering
      <4>3. r.is \in {"none", "value", "break", "continue", "return"}
        BY <1>2 DEF Answers, None, Breaking, Continuing, Value, Returned
      <4>4. f.result # "void" => BodyAsks(f) = {"result"} /\ r.is = "return" /\ r.v = NoValue
        BY <3>5, <4>2, <4>3 DEF BodyAsks
      <4>5. f.result = "void"
        BY <3>3, <4>4 DEF Answering
      <4>6. QED BY <3>2, <4>1, <4>5, OtherAnswers
    <3>6. QED BY <3>4, <3>5
  <2>2. CASE BlockDone
    <3>1. n.kind = "Block" /\ return_value' \in {None, return_value}
      BY <2>2 DEF BlockDone, InBlock, Answer
    <3>2. "value" \notin asks
      BY <1>2, <3>1, StatementAsks DEF Statements
    <3>3. Asked(program, Top, asks) = asks
      BY <3>1 DEF Asked, AskedOf, IsEvaluated
    <3>4. Answering(return_value, asks)
      BY <1>1, <1>3, <3>3 DEF Returning
    <3>5. QED BY <3>1, <3>2, <3>4, OtherAnswers
  <2>3. QED BY <2>1, <2>2
<1>6. n.kind # "Enter" /\ n.kind # "VarDecl"
  BY <1>3
<1>7. QED BY <1>1, <1>3, <1>4, <1>5, <1>6, AnswerTyped

\* A declaration or an assignment writes what it evaluated.
LEMMA WriteTyped ==
  ASSUME NEW a, NEW nm, Here(a, nm), IInv', VarDeclSet \/ AssignSet
  PROVE  TypesInv'
<1> DEFINE asks == a[Len(frames)]
           n == Top.node
           v == return_value.v
<1>1. /\ TypesInv /\ IInv /\ status = "running"
      /\ Stacked(program, frames, a, nm) /\ Named(program, frames, a, nm, scopes)
      /\ Returning(program, Top, asks, return_value)
  BY DEF Here
<1>2. /\ ScopesOK(scopes) /\ Len(scopes) # 0 /\ program \in Programs
      /\ n.kind # "Enter" => <<n, asks, nm[Len(frames)]>> \in Nodes[program]
  BY <1>1, HereFacts
<1>3. /\ UNCHANGED <<program, status>> /\ frames' = Below /\ return_value' = None
      /\ n.kind \in {"VarDecl", "Assign"} /\ Top.pc = 1
      /\ \/ scopes' = setInfo(scopes, n.name, v)
         \/ n.kind = "Assign" /\ \E e, y : scopes' = [scopes EXCEPT ![e].vals[y] = v]
  BY DEF VarDeclSet, AssignSet, At, Answer
<1>4. v \in BOOLEAN
  <2>1. "value" \in Asked(program, Top, asks)
    BY <1>3 DEF Asked, AskedOf, IsEvaluated
  <2>2. QED BY <1>3, <2>1, AskedValue
<1> HIDE DEF v
<1>5. /\ ScopesOK(scopes') /\ Keeps(scopes, scopes', Len(scopes'))
      /\ n.kind = "VarDecl" => n.name \in DOMAIN SeenIn(scopes')[Len(scopes')]
  <2>1. CASE scopes' = setInfo(scopes, n.name, v)
    <3> DEFINE u == setInfo(scopes, n.name, v)
    <3>1. /\ ScopesOK(u) /\ Len(u) = Len(scopes) /\ Keeps(scopes, u, Len(scopes))
          /\ DOMAIN SeenIn(u)[Len(scopes)] = {n.name} \cup DOMAIN SeenIn(scopes)[Len(scopes)]
      BY <1>2, <1>4, DeclaredFacts
    <3> HIDE DEF u
    <3>2. scopes' = u
      BY <2>1 DEF u
    <3>3. QED BY <3>1, <3>2
  <2>2. ASSUME n.kind = "Assign", NEW e, NEW y, scopes' = [scopes EXCEPT ![e].vals[y] = v]
        PROVE  ScopesOK(scopes') /\ Keeps(scopes, scopes', Len(scopes'))
    <3> DEFINE u == Stored(scopes, e, y, v)
    <3>1. ScopesOK(u) /\ Len(u) = Len(scopes) /\ Keeps(scopes, u, Len(scopes))
      BY <1>2, <1>4, StoredFacts
    <3>2. scopes' = u
      BY <2>2 DEF Stored
    <3> HIDE DEF u
    <3>3. QED BY <3>1, <3>2
  <2>3. n.kind = "Assign" => ~(n.kind = "VarDecl")
    OBVIOUS
  <2>4. QED BY <1>3, <2>1, <2>2, <2>3
<1>6. Answering(return_value', asks)
  <2>1. "value" \notin asks
    BY <1>2, <1>3, StatementAsks DEF Statements
  <2>2. QED BY <1>3, <2>1, OtherAnswers
<1>7. n.kind # "Enter"
  BY <1>3
<1>8. QED BY <1>1, <1>3, <1>5, <1>6, <1>7, AnswerTyped

\* Nothing runs any more.
LEMMA StoppedTyped ==
  ASSUME TypesInv, program' = program, return_value' = return_value, status' \in {"exited", "aborted"},
         frames' \in {frames, <<>>}, ScopesOK(scopes')
  PROVE  TypesInv'
<1>1. /\ program \in Programs /\ return_value \in Answers
      /\ \A i \in DOMAIN frames :
           /\ frames[i].node.kind \in Kinds
           /\ frames[i].pc \in 0..(Len(frames[i].node.kids) + 2)
           /\ frames[i].pc = 0 => i = Len(frames)
  BY DEF TypesInv, TypeOK, Answers
<1>2. \A i \in DOMAIN frames' :
        /\ frames'[i].node.kind \in Kinds
        /\ frames'[i].pc \in 0..(Len(frames'[i].node.kids) + 2)
        /\ frames'[i].pc = 0 => i = Len(frames')
  <2>1. CASE frames' = frames
    BY <1>1, <2>1
  <2>2. CASE frames' = <<>>
    <3>1. DOMAIN frames' = {}
      BY <2>2, EmptyFacts, SeqFacts
    <3>2. QED BY <3>1
  <2>3. QED BY <2>1, <2>2
<1>3. DOMAIN scopes' = 1..Len(scopes')
  BY ChainedFacts
<1>4. \A d \in DOMAIN scopes' :
        /\ scopes'[d].parent \in 0..(d - 1)
        /\ DOMAIN scopes'[d].vals \subseteq DOMAIN scopes'[d].refs
        /\ \A x \in DOMAIN scopes'[d].vals : scopes'[d].vals[x] \in BOOLEAN
  BY <1>3 DEF ScopesOK
<1>5. TypeOK'
  BY <1>1, <1>2, <1>4 DEF TypeOK, Answers, None, Breaking, Continuing, Value, Returned
<1>6. status' # "running"
  OBVIOUS
<1>7. QED BY <1>5, <1>6 DEF TypesInv

\* Every step of the interpreter keeps the invariant.
LEMMA StepTypes == TypesInv /\ IInv /\ Calm /\ IInv' /\ [Next]_vars => TypesInv'
<1> SUFFICES ASSUME TypesInv, IInv, Calm, IInv', [Next]_vars PROVE TypesInv'
  OBVIOUS
<1>1. CASE status = "running" /\ Next
  <2>1. PICK a, nm : Here(a, nm)
    BY <1>1 DEF TypesInv, Typed, Here
  <2>2. StackOK(frames) /\ ScopesOK(scopes) /\ Len(scopes) # 0
    BY <2>1, HereFacts DEF Here
  <2>3. CASE EnterNext
    BY <2>1, <2>3, EnterTyped
  <2>4. CASE EnterDone
    <3>1. ScopesOK(Popped)
      BY <2>2, PoppedFacts DEF Popped
    <3>2. /\ program' = program /\ return_value' = return_value
          /\ status' \in {"exited", "aborted"} /\ frames' \in {frames, <<>>}
          /\ scopes' \in {Popped, scopes}
      BY <2>4 DEF EnterDone, Abort
    <3>3. ScopesOK(scopes')
      BY <2>2, <3>1, <3>2
    <3>4. QED BY <3>2, <3>3, StoppedTyped
  <2>5. CASE CallOverflow \/ CallWithoutResult
    <3>1. /\ program' = program /\ return_value' = return_value
          /\ status' = "aborted" /\ frames' = frames /\ scopes' = scopes
      BY <2>5 DEF CallOverflow, CallWithoutResult, Abort
    <3>2. ScopesOK(scopes')
      BY <2>2, <3>1
    <3>3. QED BY <3>1, <3>2, StoppedTyped
  <2>6. CASE AndOrLeft \/ CallArgument \/ VarDecl \/ Assign \/ If \/ While \/ Return
    BY <2>1, <2>6, FirstTyped
  <2>7. CASE IntLiteral \/ getint \/ DeclRef \/ AndOrRight
    <3>1. frames' = Below
      BY <2>7 DEF IntLiteral, getint, DeclRef, AndOrRight, Answer
    <3>2. QED BY <2>1, <2>7, <3>1, ExpressionTyped
  <2>8. CASE IfDone \/ Break \/ Continue \/ ReturnNothing \/ ReturnValue
    <3>1. frames' = Below
      BY <2>8 DEF IfDone, Break, Continue, ReturnNothing, ReturnValue, Answer
    <3>2. QED BY <2>1, <2>8, <3>1, StatementTyped
  <2>9. CASE AndOrDecide \/ IfArm \/ WhileTest \/ WhileBody
    <3>1. CASE frames' = Below
      BY <2>1, <2>9, <3>1, ExpressionTyped, StatementTyped
    <3>2. CASE frames' # Below
      BY <2>1, <2>9, <3>2, SecondTyped
    <3>3. QED BY <3>1, <3>2
  <2>10. CASE BlockNext
    <3>1. frames' # Below
      BY <2>2, <2>10, VisitLonger DEF BlockNext
    <3>2. QED BY <2>1, <2>10, <3>1, SecondTyped
  <2>11. CASE CallBody
    BY <2>1, <2>11, CallBodyTyped
  <2>12. CASE Block
    BY <2>1, <2>12, BlockTyped
  <2>13. CASE CallDone \/ BlockDone
    BY <2>1, <2>13, LeaveTyped
  <2>14. CASE VarDeclSet \/ AssignSet
    BY <2>1, <2>14, WriteTyped
  <2>15. CASE Done
    BY <1>1, <2>15 DEF Done
  <2>16. QED BY <1>1, <2>3, <2>4, <2>5, <2>6, <2>7, <2>8, <2>9, <2>10, <2>11, <2>12, <2>13,
                <2>14, <2>15 DEF Next
<1>2. CASE UNCHANGED vars
  <2>1. /\ program' = program /\ frames' = frames /\ return_value' = return_value
        /\ scopes' = scopes /\ status' = status
    BY <1>2 DEF vars
  <2>2. QED BY <2>1 DEF TypesInv, TypeOK, Typed, Top
<1>3. CASE status # "running" /\ Next
  <2>1. /\ program' = program /\ frames' = frames /\ return_value' = return_value
        /\ scopes' = scopes /\ status' = status
    BY <1>3 DEF Next, EnterNext, EnterDone, IntLiteral, getint, DeclRef, AndOrLeft, AndOrDecide,
                AndOrRight, CallArgument, CallBody, CallOverflow, CallDone, CallWithoutResult,
                VarDecl, VarDeclSet, Assign, AssignSet, If, IfArm, IfDone, While, WhileTest,
                WhileBody, Break, Continue, ReturnNothing, Return, ReturnValue, Block, BlockNext,
                BlockDone, InBlock, At, Done
  <2>2. QED BY <2>1 DEF TypesInv, TypeOK, Typed, Top
<1>4. QED BY <1>1, <1>2, <1>3

\* A visit begins with an empty register, or with what an earlier visit left.
LEMMA VisitCalm ==
  ASSUME Calm, status = "running",
         return_value' = None \/ (return_value' = return_value /\ Fresh(Top))
  PROVE  Calm'
  BY DEF Calm, None

\* What answers enter before main is the declaration of a global.
LEMMA AnswerCalm ==
  ASSUME NEW a, NEW nm, Here(a, nm), IInv', status' = "running", frames' = Below,
         Top.node.kind = "VarDecl" => return_value' = None
  PROVE  Calm'
<1> DEFINE l == Len(frames)
<1>1. /\ StackOK(frames) /\ program \in Programs /\ Stacked(program, frames, a, nm)
      /\ \A i \in 1..Len(Below) : Below[i] = frames[i]
      /\ Len(Below) = l - 1 /\ l \in Nat \ {0} /\ Len(Below) # 0
  <2>1. StackOK(frames) /\ program \in Programs /\ Stacked(program, frames, a, nm)
    BY HereFacts DEF Here
  <2>2. StackOK(Below)
    BY DEF IInv
  <2>3. Len(Below) # 0
    BY <2>2 DEF StackOK
  <2>4. QED BY <2>1, <2>3, TopFacts
<1>2. Top' = frames[l - 1] /\ Top = frames[l - 1 + 1] /\ l - 1 \in 1..(l - 1) /\ l - 1 \in Nat
  <2>1. l - 1 \in 1..(l - 1) /\ l - 1 + 1 = l /\ l - 1 \in Nat
    BY <1>1
  <2>2. QED BY <1>1, <2>1 DEF Top
<1>3. PICK f : f = frames[l - 1]
  OBVIOUS
<1>4. /\ f.pc > 0 /\ IsFrame(f)
      /\ Lists(f) => Top.node = f.node.kids[Reached(f)]
  <2>1. l - 1 \in 1..l
    BY <1>2
  <2>2. QED BY <1>1, <1>2, <1>3, <2>1 DEF Stacked, StackOK
<1>5. ASSUME Fresh(f) PROVE Top.node.kind = "VarDecl"
  <2>1. f.node.kind = "Enter" /\ f.pc < Len(f.node.kids) /\ f.pc \in Nat /\ f.pc > 0
    BY <1>4, <1>5 DEF Fresh, IsFrame
  <2>2. f.node = Entry(program)
    <3>1. CASE l - 1 = 1
      BY <1>1, <1>3, <3>1 DEF Stacked
    <3>2. CASE l - 1 # 1
      <4>1. l - 1 \in 2..l
        BY <1>2, <3>2
      <4>2. <<f.node, a[l - 1], nm[l - 1]>> \in Nodes[program]
        BY <1>1, <1>3, <4>1 DEF Stacked
      <4>3. Fits(program, f.node, a[l - 1], nm[l - 1])
        BY <1>1, <4>2, NodeFacts
      <4>4. QED BY <2>1, <4>3 DEF Fits, Expressions, Statements
    <3>3. QED BY <3>1, <3>2
  <2>3. PICK ks : ks = f.node.kids
    OBVIOUS
  <2>4. Len(ks) = Len(program.globals) + 1 /\ Len(program.globals) \in Nat
    BY <1>1, <2>2, <2>3, EntryFacts
  <2>5. f.pc \in 1..Len(program.globals) /\ Top.node = ks[f.pc]
    BY <1>4, <2>1, <2>3, <2>4 DEF Lists, Reached
  <2>6. ks = Append(program.globals, program.main) /\ IsSeq(program.globals)
    <3>1. Entry(program).kids = Append(program.globals, program.main)
      BY DEF Entry
    <3>2. WellFormed(program, Nodes[program])
      BY <1>1, ProgramsAssumption
    <3>3. IsSeq(program.globals)
      BY <3>2 DEF WellFormed, IsSeq
    <3>4. QED BY <2>2, <2>3, <3>1, <3>3
  <2>7. ks[f.pc] = program.globals[f.pc] /\ f.pc \in DOMAIN program.globals
    BY <2>5, <2>6, AppendFacts, SeqFacts
  <2>8. WellFormed(program, Nodes[program])
    BY <1>1, ProgramsAssumption
  <2>9. program.globals[f.pc].kind = "VarDecl"
    BY <2>7, <2>8 DEF WellFormed
  <2>10. QED BY <2>5, <2>7, <2>9
<1>6. QED BY <1>2, <1>3, <1>5 DEF Calm, None

\* Every step keeps it.
LEMMA StepCalm == TypesInv /\ IInv /\ Calm /\ IInv' /\ [Next]_vars => Calm'
<1> SUFFICES ASSUME TypesInv, IInv, Calm, IInv', [Next]_vars PROVE Calm'
  OBVIOUS
<1>1. CASE status = "running" /\ Next
  <2>1. PICK a, nm : Here(a, nm)
    BY <1>1 DEF TypesInv, Typed, Here
  <2>2. CASE EnterNext \/ AndOrLeft \/ CallArgument \/ VarDecl \/ Assign \/ If \/ While
               \/ Return \/ Block
    <3>1. return_value' = return_value /\ Fresh(Top)
      BY <2>2 DEF EnterNext, AndOrLeft, CallArgument, VarDecl, Assign, If, While, Return, Block,
                  At, Fresh
    <3>2. QED BY <1>1, <3>1, VisitCalm
  <2>3. CASE CallBody \/ BlockNext
    <3>1. return_value' = None
      BY <2>3 DEF CallBody, BlockNext
    <3>2. QED BY <1>1, <3>1, VisitCalm
  <2>4. CASE EnterDone \/ CallOverflow \/ CallWithoutResult
    <3>1. status' # "running"
      BY <2>4 DEF EnterDone, CallOverflow, CallWithoutResult, Abort
    <3>2. QED BY <3>1 DEF Calm
  <2>5. CASE AndOrDecide \/ IfArm \/ WhileTest \/ WhileBody
    <3>1. /\ status' = "running" /\ Top.node.kind # "VarDecl"
          /\ return_value' = None \/ frames' = Below
      BY <1>1, <2>5 DEF AndOrDecide, IfArm, WhileTest, WhileBody, At, Answer
    <3>2. QED BY <1>1, <2>1, <3>1, VisitCalm, AnswerCalm
  <2>6. CASE IntLiteral \/ getint \/ DeclRef \/ AndOrRight \/ IfDone \/ Break \/ Continue
               \/ ReturnNothing \/ ReturnValue
    <3>1. status' = "running" /\ Top.node.kind # "VarDecl" /\ frames' = Below
      BY <1>1, <2>6 DEF IntLiteral, getint, DeclRef, AndOrRight, IfDone, Break, Continue,
                        ReturnNothing, ReturnValue, At, Answer
    <3>2. QED BY <2>1, <3>1, AnswerCalm
  <2>7. CASE CallDone \/ BlockDone \/ VarDeclSet \/ AssignSet
    <3>1. /\ status' = "running" /\ frames' = Below
          /\ Top.node.kind = "VarDecl" => return_value' = None
      BY <1>1, <2>7 DEF CallDone, BlockDone, InBlock, VarDeclSet, AssignSet, At, Answer
    <3>2. QED BY <2>1, <3>1, AnswerCalm
  <2>8. CASE Done
    BY <1>1, <2>8 DEF Done
  <2>9. QED BY <1>1, <2>2, <2>3, <2>4, <2>5, <2>6, <2>7, <2>8 DEF Next
<1>2. CASE UNCHANGED vars
  BY <1>2 DEF vars, Calm, Top
<1>3. CASE status # "running" /\ Next
  <2>1. status' = status
    BY <1>3 DEF Next, EnterNext, EnterDone, IntLiteral, getint, DeclRef, AndOrLeft, AndOrDecide,
                AndOrRight, CallArgument, CallBody, CallOverflow, CallDone, CallWithoutResult,
                VarDecl, VarDeclSet, Assign, AssignSet, If, IfArm, IfDone, While, WhileTest,
                WhileBody, Break, Continue, ReturnNothing, Return, ReturnValue, Block, BlockNext,
                BlockDone, InBlock, At, Done
  <2>2. QED BY <1>3, <2>1 DEF Calm
<1>4. QED BY <1>1, <1>2, <1>3

\* enter's frame alone, and the global context.
LEMMA InitTypes == Init => TypesInv
<1> SUFFICES ASSUME Init PROVE TypesInv
  OBVIOUS
<1> DEFINE f == Frame(Entry(program), 0)
           sc == Scope(0, Nothing)
           a == [i \in 1..1 |-> {}]
<1>1. /\ program \in Programs /\ frames = <<f>> /\ return_value = None /\ scopes = <<sc>>
      /\ status = "running" /\ IInv
  BY InitInv DEF Init
<1>2. f.node = Entry(program) /\ f.pc = 0 /\ f.node.kind = "Enter"
  BY DEF Frame, Entry
<1>3. IsScope(sc) /\ sc.parent = 0 /\ DOMAIN sc.refs = {} /\ DOMAIN sc.vals = {}
  BY EmptyFacts, SeqFacts DEF IsScope, Scope, Nothing
<1> HIDE DEF f, sc
<1>4. frames = [i \in 1..1 |-> frames[i]] /\ scopes = [i \in 1..1 |-> scopes[i]]
      /\ frames[1] = f /\ scopes[1] = sc
  BY <1>1
<1>5. Len(frames) = 1 /\ IsSeq(scopes) /\ Len(scopes) = 1
  BY <1>4, FunctionIsSeq
<1>6. ScopesOK(scopes)
  <2>1. \A d \in 1..1 : d = 1 /\ d - 1 = 0 /\ 0 \in 0..0
    OBVIOUS
  <2>2. QED BY <1>3, <1>4, <1>5, <2>1 DEF ScopesOK
<1>7. a[1] = {}
  OBVIOUS
<1> HIDE DEF a
<1>8. Len(f.node.kids) \in Nat
  <2>1. PICK ks : ks = Entry(program).kids
    OBVIOUS
  <2>2. Len(ks) = Len(program.globals) + 1 /\ Len(program.globals) \in Nat
    BY <1>1, <2>1, EntryFacts
  <2>3. Len(ks) \in Nat
    BY <2>2
  <2>4. QED BY <1>2, <2>1, <2>3
<1>9. Stacked(program, frames, a, a)
  <2>1. PcOK(f)
    BY <1>2, <1>8 DEF PcOK
  <2>2. \A i \in 1..1 : i = 1
    OBVIOUS
  <2>3. 2..1 = {} /\ 1..(1 - 1) = {}
    OBVIOUS
  <2>4. QED BY <1>2, <1>4, <1>5, <1>7, <2>1, <2>2, <2>3 DEF Stacked
<1>10. Named(program, frames, a, a, scopes)
  <2>1. Relied(f, a[1], 0) = {}
    <3>1. Declared(f.node.kids, 0 - 0) = {}
      BY DEF Declared
    <3>2. QED BY <1>2, <1>7, <3>1 DEF Relied, Lists, Reached
  <2>2. 2..1 = {} /\ 1..(1 - 1) = {}
    OBVIOUS
  <2>3. QED BY <1>4, <1>5, <2>1, <2>2 DEF Named
<1>11. Returning(program, Top, a[Len(frames)], return_value)
  <2>1. Top = f /\ a[Len(frames)] = {}
    BY <1>4, <1>5, <1>7 DEF Top
  <2>2. Answering(None, {})
    BY OtherAnswers
  <2>3. QED BY <1>1, <1>2, <2>1, <2>2 DEF Returning
<1>12. Typed
  BY <1>9, <1>10, <1>11 DEF Typed
<1>13. None \in Answers
  BY DEF Answers
<1>14. QED BY <1>1, <1>6, <1>12, <1>13, TypedShape

\* The three invariants together.
LEMMA TypesInvariant == Spec => [](TypesInv /\ IInv /\ Calm)
<1>1. Init => TypesInv /\ IInv /\ Calm
  <2>1. Init => Calm
    BY DEF Init, Calm, None
  <2>2. QED BY <2>1, InitTypes, InitInv
<1>2. TypesInv /\ IInv /\ Calm /\ [Next]_vars => TypesInv' /\ IInv' /\ Calm'
  BY StepTypes, StepInv, StepCalm
<1>3. QED BY <1>1, <1>2, PTL DEF Spec

\* _return_value, the frames of execute() and the contexts keep their shape
\* (Interpreter.h, Interpreter.cpp), for any programs the front end lets
\* through and any depth of calls.
THEOREM InterpreterTypes == Spec => []TypeOK
<1>1. TypesInv => TypeOK
  BY DEF TypesInv
<1>2. QED BY <1>1, TypesInvariant, PTL

\* Whatever evalExpr visits answers a value (Interpreter.cpp, evalExpr's
\* assertions): a call of a function with a result, too, whichever of its
\* blocks and loops the return leaves.
THEOREM ExpressionsAnswerValues == Spec => []ExpressionsYieldValues
<1>1. TypesInv /\ IInv => ExpressionsYieldValues
  <2> SUFFICES ASSUME TypesInv, IInv, status = "running", Evaluating(Top) PROVE _isValue
    BY DEF ExpressionsYieldValues
  <2>1. PICK a, nm : Here(a, nm)
    BY DEF TypesInv, Typed, Here
  <2>2. Top.pc = 1 /\ Top.node.kind \in {"If", "While", "Assign", "VarDecl", "And", "Or", "Return", "Call"}
    BY DEF Evaluating
  <2>3. "value" \in Asked(program, Top, a[Len(frames)])
    BY <2>2 DEF Asked, AskedOf, IsEvaluated
  <2>4. QED BY <2>1, <2>2, <2>3, AskedValue
<1>2. QED BY <1>1, TypesInvariant, PTL
=============================================================================
