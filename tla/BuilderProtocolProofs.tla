------------------------ MODULE BuilderProtocolProofs ------------------------
(***************************************************************************)
(* Proofs about the control-graph builder, for any sets of blocks and      *)
(* procedures.  Whatever its client does: types, ownership of the nodes    *)
(* and the agreement of predecessor lists with targets.  When the client   *)
(* is disciplined: it is a client of ControlGraph, a pop restores what was *)
(* current at its save, no edge leaves a graph, and heads stay.            *)
(***************************************************************************)
EXTENDS BuilderProtocol, SequenceTheorems, TLAPS

\* No address is at once a block of a graph and gone from the builder.
LiveNotGone == Live \cap gone = {}

---------------------------------------------------------------------------
(* The stack operators.                                                    *)

\* The top of a stack of blocks or nulls is one of them.
LEMMA TopType == ASSUME NEW s \in Seq(BlockOrNull) PROVE Top(s) \in BlockOrNull
  BY DEF Top, BlockOrNull

\* set_basic_block yields a stack.
LEMMA ReplacedType ==
  ASSUME NEW s \in Seq(BlockOrNull), NEW b \in BlockOrNull
  PROVE  Replaced(s, b) \in Seq(BlockOrNull)
<1>1. CASE s = <<>>
  BY <1>1 DEF Replaced
<1>2. CASE s # <<>>
  BY <1>2 DEF Replaced
<1>3. QED BY <1>1, <1>2

\* save_basic_block yields a stack.
LEMMA SavedType ==
  ASSUME NEW s \in Seq(BlockOrNull)
  PROVE  Saved(s) \in Seq(BlockOrNull)
  BY TopType DEF Saved

\* The optional push of the save_and_ variants yields a stack.
LEMMA PushIfType ==
  ASSUME NEW s \in Seq(BlockOrNull), NEW save \in BOOLEAN
  PROVE  PushIf(s, save) \in Seq(BlockOrNull)
  BY SavedType DEF PushIf

\* pop_basic_block yields a stack.
LEMMA PoppedType ==
  ASSUME NEW s \in Seq(BlockOrNull)
  PROVE  Popped(s) \in Seq(BlockOrNull)
<1>1. CASE s = <<>>
  BY <1>1 DEF Popped
<1>2. CASE s # <<>>
  BY <1>2 DEF Popped
<1>3. QED BY <1>1, <1>2

---------------------------------------------------------------------------
(* The edge operators.                                                     *)

\* Relinking moves one unit of b from the old target to the new one.
LEMMA RelinkedCounts ==
  ASSUME NEW ps \in [Block -> [Block -> Nat]], NEW b \in Block,
         NEW old \in BlockOrNull, NEW t \in Block
  PROVE  /\ Relinked(ps, b, old, t) \in [Block -> [Block -> Nat]]
         /\ \A x, y \in Block :
              Relinked(ps, b, old, t)[x][y] =
                ps[x][y]
                - (IF x = old /\ y = b /\ ps[x][y] > 0 THEN 1 ELSE 0)
                + (IF x = t /\ y = b THEN 1 ELSE 0)
<1> DEFINE u == Unlinked(ps, b, old)
<1>1. /\ u \in [Block -> [Block -> Nat]]
      /\ \A x, y \in Block :
           u[x][y] = ps[x][y]
                     - (IF x = old /\ y = b /\ ps[x][y] > 0 THEN 1 ELSE 0)
  <2>1. CASE old # NoBlock /\ ps[old][b] > 0
    <3>1. old \in Block
      BY <2>1 DEF BlockOrNull
    <3>2. ps[old][b] - 1 \in Nat
      BY <2>1, <3>1
    <3>3. u = [ps EXCEPT ![old] = [ps[old] EXCEPT ![b] = ps[old][b] - 1]]
      BY <2>1 DEF Unlinked
    <3>4. [ps[old] EXCEPT ![b] = ps[old][b] - 1] \in [Block -> Nat]
      BY <3>1, <3>2
    <3> HIDE DEF u
    <3>5. QED BY <2>1, <3>1, <3>2, <3>3, <3>4
  <2>2. CASE ~(old # NoBlock /\ ps[old][b] > 0)
    <3>1. u = ps
      BY <2>2 DEF Unlinked
    <3>2. ASSUME NEW x \in Block, NEW y \in Block, x = old, y = b
          PROVE  ~(ps[x][y] > 0)
      BY <2>2, <3>2, ControlGraphAssumption
    <3> HIDE DEF u
    <3>3. QED BY <3>1, <3>2
  <2>3. QED BY <2>1, <2>2
<1>2. Relinked(ps, b, old, t) = [u EXCEPT ![t] = [u[t] EXCEPT ![b] = u[t][b] + 1]]
  BY DEF Relinked
<1> HIDE DEF u
<1>3. [u[t] EXCEPT ![b] = u[t][b] + 1] \in [Block -> Nat]
  BY <1>1
<1>4. ASSUME NEW x \in Block, NEW y \in Block
      PROVE  Relinked(ps, b, old, t)[x][y]
               = u[x][y] + (IF x = t /\ y = b THEN 1 ELSE 0)
  BY <1>1, <1>2, <1>3
<1>5. QED BY <1>1, <1>2, <1>3, <1>4

---------------------------------------------------------------------------
(* Type correctness.                                                       *)

\* Live blocks are blocks.
LEMMA LiveType == TypeOK => Live \subseteq Block
  BY DEF TypeOK, Live

\* Linking by setNext keeps the edge fields well typed.
LEMMA LinkNextType ==
  ASSUME TypeOK, NEW b \in Block, NEW t \in Block, LinkNext(b, t)
  PROVE  /\ succ' \in [Block -> BlockOrNull]
         /\ alt' \in [Block -> BlockOrNull]
         /\ preds' \in [Block -> [Block -> Nat]]
<1>1. preds' = Relinked(preds, b, succ[b], t)
  BY DEF LinkNext
<1>2. preds \in [Block -> [Block -> Nat]] /\ succ[b] \in BlockOrNull
  BY DEF TypeOK
<1>3. preds' \in [Block -> [Block -> Nat]]
  BY <1>1, <1>2, RelinkedCounts
<1>4. QED BY <1>3 DEF LinkNext, TypeOK, BlockOrNull

\* Linking by setElse keeps the edge fields well typed.
LEMMA LinkElseType ==
  ASSUME TypeOK, NEW b \in Block, NEW t \in Block, LinkElse(b, t)
  PROVE  /\ succ' \in [Block -> BlockOrNull]
         /\ alt' \in [Block -> BlockOrNull]
         /\ preds' \in [Block -> [Block -> Nat]]
<1>1. preds' = Relinked(preds, b, alt[b], t)
  BY DEF LinkElse
<1>2. preds \in [Block -> [Block -> Nat]] /\ alt[b] \in BlockOrNull
  BY DEF TypeOK
<1>3. preds' \in [Block -> [Block -> Nat]]
  BY <1>1, <1>2, RelinkedCounts
<1>4. QED BY <1>3 DEF LinkElse, TypeOK, BlockOrNull

\* Adding a node keeps the graph and its head well typed.
LEMMA AddType ==
  ASSUME TypeOK, NEW b \in Block, Add(b)
  PROVE  /\ graph' \in [Proc -> SUBSET Block]
         /\ head' \in [Proc -> BlockOrNull]
  BY DEF Add, TypeOK, BlockOrNull

\* Every step keeps the variables well typed.
LEMMA TypeStep == TypeOK /\ [Next]_vars => TypeOK'
<1> SUFFICES ASSUME TypeOK, [Next]_vars PROVE TypeOK'
  OBVIOUS
<1>1. CASE setup_code
  <2>1. graph' \in [Proc -> SUBSET Block] /\ head' \in [Proc -> BlockOrNull]
    BY <1>1 DEF setup_code, BlockOrNull
  <2>2. gone' \subseteq Block
    <3>1. gone' = gone \cup Live /\ gone \subseteq Block
      BY <1>1 DEF setup_code, TypeOK
    <3>2. QED BY <3>1, LiveType
  <2>3. stack' \in Seq(BlockOrNull)
    BY <1>1 DEF setup_code
  <2>4. QED BY <1>1, <2>1, <2>2, <2>3 DEF setup_code, TypeOK, edgeVars
<1>2. CASE getCode
  <2>1. graph' \in [Proc -> SUBSET Block] /\ head' \in [Proc -> BlockOrNull]
    BY <1>2 DEF getCode, BlockOrNull
  <2>2. gone' \subseteq Block
    <3>1. gone' = gone \cup Live /\ gone \subseteq Block
      BY <1>2 DEF getCode, TypeOK
    <3>2. QED BY <3>1, LiveType
  <2>3. stack' \in Seq(BlockOrNull)
    BY <1>2 DEF getCode
  <2>4. QED BY <1>2, <2>1, <2>2, <2>3 DEF getCode, TypeOK, edgeVars
<1>3. ASSUME NEW p \in Proc, entry_function(p) PROVE TypeOK'
  BY <1>3 DEF entry_function, TypeOK, graphVars, edgeVars
<1>4. CASE exit_function
  BY <1>4 DEF exit_function, TypeOK, graphVars, edgeVars
<1>5. ASSUME NEW b \in Block, newBasicBlock(b) PROVE TypeOK'
  BY <1>5, AddType DEF newBasicBlock, TypeOK, codeVars, edgeVars
<1>6. ASSUME NEW b \in Block, entry_new_block(b) PROVE TypeOK'
  <2>1. stack' \in Seq(BlockOrNull)
    BY <1>6, ReplacedType DEF entry_new_block, TypeOK, BlockOrNull
  <2>2. QED
    BY <1>6, <2>1, AddType DEF entry_new_block, TypeOK, codeVars, edgeVars
<1>7. CASE entry_no_block
  <2>1. stack' \in Seq(BlockOrNull)
    BY <1>7, ReplacedType DEF entry_no_block, TypeOK, BlockOrNull
  <2>2. QED
    BY <1>7, <2>1 DEF entry_no_block, TypeOK, codeVars, graphVars, edgeVars
<1>21. CASE link_from_null
  <2>1. stack' \in Seq(BlockOrNull)
    BY <1>21, ReplacedType DEF link_from_null, TypeOK, BlockOrNull
  <2>2. QED
    BY <1>21, <2>1 DEF link_from_null, TypeOK, codeVars, graphVars, edgeVars
<1>8. ASSUME NEW b \in Live, entry_block(b) PROVE TypeOK'
  <2>1. stack' \in Seq(BlockOrNull)
    BY <1>8, ReplacedType, LiveType DEF entry_block, TypeOK, BlockOrNull
  <2>2. QED BY <1>8, <2>1 DEF entry_block, TypeOK, codeVars, graphVars, edgeVars
<1>9. ASSUME NEW save \in BOOLEAN, entry_next_existing(save) PROVE TypeOK'
  <2>1. succ[current_block] \in BlockOrNull
    BY <1>9, LiveType DEF entry_next_existing, TypeOK
  <2>2. PushIf(stack, save) \in Seq(BlockOrNull)
    BY PushIfType DEF TypeOK
  <2>3. stack' \in Seq(BlockOrNull)
    BY <1>9, <2>1, <2>2, ReplacedType DEF entry_next_existing
  <2>4. QED
    BY <1>9, <2>3 DEF entry_next_existing, TypeOK, codeVars, graphVars, edgeVars
<1>10. ASSUME NEW b \in Block, NEW save \in BOOLEAN, entry_next_new(b, save)
       PROVE TypeOK'
  <2>1. current_block \in Block
    BY <1>10, LiveType DEF entry_next_new
  <2>2. PushIf(stack, save) \in Seq(BlockOrNull)
    BY PushIfType DEF TypeOK
  <2>3. stack' \in Seq(BlockOrNull)
    BY <1>10, <2>2, ReplacedType DEF entry_next_new, BlockOrNull
  <2>4. LinkNext(current_block, b) /\ Add(b)
    BY <1>10 DEF entry_next_new
  <2>5. QED
    BY <1>10, <2>1, <2>3, <2>4, LinkNextType, AddType
    DEF entry_next_new, TypeOK, codeVars
<1>11. ASSUME NEW save \in BOOLEAN, entry_else_existing(save) PROVE TypeOK'
  <2>1. alt[current_block] \in BlockOrNull
    BY <1>11, LiveType DEF entry_else_existing, TypeOK
  <2>2. PushIf(stack, save) \in Seq(BlockOrNull)
    BY PushIfType DEF TypeOK
  <2>3. stack' \in Seq(BlockOrNull)
    BY <1>11, <2>1, <2>2, ReplacedType DEF entry_else_existing
  <2>4. QED
    BY <1>11, <2>3
    DEF entry_else_existing, TypeOK, codeVars, graphVars, edgeVars
<1>12. ASSUME NEW b \in Block, NEW save \in BOOLEAN, entry_else_new(b, save)
       PROVE TypeOK'
  <2>1. current_block \in Block
    BY <1>12, LiveType DEF entry_else_new
  <2>2. PushIf(stack, save) \in Seq(BlockOrNull)
    BY PushIfType DEF TypeOK
  <2>3. stack' \in Seq(BlockOrNull)
    BY <1>12, <2>2, ReplacedType DEF entry_else_new, BlockOrNull
  <2>4. LinkElse(current_block, b) /\ Add(b)
    BY <1>12 DEF entry_else_new
  <2>5. QED
    BY <1>12, <2>1, <2>3, <2>4, LinkElseType, AddType
    DEF entry_else_new, TypeOK, codeVars
<1>13. ASSUME NEW b \in Block, entry_from_null(b) PROVE TypeOK'
  <2>1. stack' \in Seq(BlockOrNull)
    BY <1>13, ReplacedType DEF entry_from_null, TypeOK, BlockOrNull
  <2>2. QED
    BY <1>13, <2>1, AddType DEF entry_from_null, TypeOK, codeVars, edgeVars
<1>14. CASE push_block
  <2>1. stack' \in Seq(BlockOrNull)
    BY <1>14, SavedType DEF push_block, TypeOK
  <2>2. QED BY <1>14, <2>1 DEF push_block, TypeOK, codeVars, graphVars, edgeVars
<1>15. ASSUME NEW b \in Live, save_and_entry(b) PROVE TypeOK'
  <2>1. Saved(stack) \in Seq(BlockOrNull) /\ b \in BlockOrNull
    BY SavedType, LiveType DEF TypeOK, BlockOrNull
  <2>2. stack' \in Seq(BlockOrNull)
    BY <1>15, <2>1, ReplacedType DEF save_and_entry
  <2>3. QED
    BY <1>15, <2>2 DEF save_and_entry, TypeOK, codeVars, graphVars, edgeVars
<1>16. CASE pop_block
  <2>1. stack' \in Seq(BlockOrNull)
    BY <1>16, PoppedType DEF pop_block, TypeOK
  <2>2. QED BY <1>16, <2>1 DEF pop_block, TypeOK, codeVars, graphVars, edgeVars
<1>17. ASSUME NEW t \in Live, setNext(t) PROVE TypeOK'
  <2>1. current_block \in Block /\ t \in Block /\ LinkNext(current_block, t)
    BY <1>17, LiveType DEF setNext
  <2>2. QED
    BY <1>17, <2>1, LinkNextType DEF setNext, TypeOK, codeVars, graphVars
<1>18. ASSUME NEW t \in Live, setElse(t) PROVE TypeOK'
  <2>1. current_block \in Block /\ t \in Block /\ LinkElse(current_block, t)
    BY <1>18, LiveType DEF setElse
  <2>2. QED
    BY <1>18, <2>1, LinkElseType DEF setElse, TypeOK, codeVars, graphVars
<1>19. ASSUME NEW p \in Proc, NEW b \in Block, erase(p, b) PROVE TypeOK'
  BY <1>19 DEF erase, TypeOK, codeVars, edgeVars, BlockOrNull
<1>20. CASE UNCHANGED vars
  BY <1>20 DEF vars, TypeOK
<1>22. QED
  BY <1>1, <1>2, <1>3, <1>4, <1>5, <1>6, <1>7, <1>8, <1>9, <1>10, <1>11,
     <1>12, <1>13, <1>14, <1>15, <1>16, <1>17, <1>18, <1>19, <1>20, <1>21
     DEF Next

\* An empty builder is well typed.
LEMMA InitType == Init => TypeOK
<1> SUFFICES ASSUME Init PROVE TypeOK
  OBVIOUS
<1>1. preds \in [Block -> [Block -> Nat]]
  BY DEF Init, NoEdges
<1>2. /\ succ \in [Block -> BlockOrNull]
      /\ alt \in [Block -> BlockOrNull]
      /\ head \in [Proc -> BlockOrNull]
  BY DEF Init, BlockOrNull
<1>3. stack \in Seq(BlockOrNull)
  BY DEF Init
<1>4. QED BY <1>1, <1>2, <1>3 DEF Init, TypeOK

\* The variables of the builder always have their types; in particular the
\* current procedure always belongs to the Code being built.
THEOREM TypeCorrect == Spec => []TypeOK
  BY InitType, TypeStep, PTL DEF Spec

---------------------------------------------------------------------------
(* Ownership of the nodes.                                                 *)

\* A step that adds a node keeps the graphs disjoint and gone addresses out.
LEMMA AddOwnership ==
  ASSUME TypeOK, LiveNotGone, GraphsDisjoint, NEW b \in Block,
         proc # NoProc, Add(b), UNCHANGED <<codeVars, gone>>
  PROVE  LiveNotGone' /\ GraphsDisjoint'
<1>1. /\ b \notin Live /\ b \notin gone
      /\ proc \in Proc /\ proc \in procs
      /\ graph' = [graph EXCEPT ![proc] = @ \cup {b}]
      /\ graph \in [Proc -> SUBSET Block]
  BY DEF Add, Unused, TypeOK
<1>2. \A q \in Proc : graph'[q] = IF q = proc THEN graph[q] \cup {b} ELSE graph[q]
  BY <1>1
<1>3. \A q \in Proc : b \notin graph[q]
  BY <1>1 DEF Live
<1>4. GraphsDisjoint'
  BY <1>1, <1>2, <1>3 DEF GraphsDisjoint, codeVars
<1>5. \A q \in Proc : graph[q] \cap gone = {}
  BY DEF LiveNotGone, Live
<1>6. \A q \in Proc : graph'[q] \cap gone = {}
  BY <1>1, <1>2, <1>5
<1>7. QED BY <1>4, <1>6 DEF LiveNotGone, Live

\* Every step keeps the graphs disjoint, empty outside the current Code, and
\* free of addresses that have left the builder.
LEMMA OwnershipStep ==
  TypeOK /\ LiveNotGone /\ GraphsDisjoint /\ [Next]_vars
    => LiveNotGone' /\ GraphsDisjoint'
<1> SUFFICES ASSUME TypeOK, LiveNotGone, GraphsDisjoint, [Next]_vars
             PROVE  LiveNotGone' /\ GraphsDisjoint'
  OBVIOUS
<1>1. CASE setup_code \/ getCode
  <2>1. \A p \in Proc : graph'[p] = {}
    BY <1>1 DEF setup_code, getCode
  <2>2. QED BY <2>1 DEF LiveNotGone, Live, GraphsDisjoint
<1>2. ASSUME NEW p \in Proc, entry_function(p)
      PROVE  LiveNotGone' /\ GraphsDisjoint'
  BY <1>2 DEF entry_function, graphVars, LiveNotGone, Live, GraphsDisjoint
<1>3. ASSUME NEW b \in Block, proc # NoProc, Add(b), UNCHANGED <<codeVars, gone>>
      PROVE  LiveNotGone' /\ GraphsDisjoint'
  BY <1>3, AddOwnership
<1>4. ASSUME NEW p \in Proc, NEW b \in Block, erase(p, b)
      PROVE  LiveNotGone' /\ GraphsDisjoint'
  <2>1. /\ graph \in [Proc -> SUBSET Block]
        /\ b \in graph[p]
        /\ graph' = [graph EXCEPT ![p] = @ \ {b}]
        /\ gone' = gone \cup {b}
        /\ UNCHANGED procs
    BY <1>4 DEF erase, codeVars, TypeOK
  <2>2. \A q \in Proc : graph'[q] = IF q = p THEN graph[q] \ {b} ELSE graph[q]
    BY <2>1
  <2>3. GraphsDisjoint'
    BY <2>1, <2>2 DEF GraphsDisjoint
  <2>4. \A q \in Proc : q # p => b \notin graph[q]
    BY <2>1 DEF GraphsDisjoint
  <2>5. \A q \in Proc : graph[q] \cap gone = {}
    BY DEF LiveNotGone, Live
  <2>6. \A q \in Proc : graph'[q] \cap gone' = {}
    BY <2>1, <2>2, <2>4, <2>5
  <2>7. QED BY <2>3, <2>6 DEF LiveNotGone, Live
<1>5. ASSUME UNCHANGED <<graph, procs, gone>>
      PROVE  LiveNotGone' /\ GraphsDisjoint'
  BY <1>5 DEF LiveNotGone, Live, GraphsDisjoint
<1>6. QED
  BY <1>1, <1>2, <1>3, <1>4, <1>5
  DEF Next, vars, codeVars, graphVars, exit_function, newBasicBlock,
      entry_new_block, entry_no_block, link_from_null, entry_block, entry_next_existing,
      entry_next_new, entry_else_existing, entry_else_new, entry_from_null,
      push_block, save_and_entry, pop_block, setNext, setElse

\* ControlFlow owns its nodes: no block is in two graphs, and a graph has
\* blocks only while its procedure belongs to the current Code.
THEOREM Ownership == Spec => [](LiveNotGone /\ GraphsDisjoint)
<1>1. Init => LiveNotGone /\ GraphsDisjoint
  BY DEF Init, LiveNotGone, Live, GraphsDisjoint
<1>2. QED BY <1>1, OwnershipStep, TypeCorrect, PTL DEF Spec

\* The head of a control-flow graph is null or one of its nodes.
THEOREM HeadIsNode == Spec => []HeadInGraph
<1>1. Init => HeadInGraph
  BY DEF Init, HeadInGraph
<1>2. TypeOK /\ HeadInGraph /\ [Next]_vars => HeadInGraph'
  <2> SUFFICES ASSUME TypeOK, HeadInGraph, [Next]_vars PROVE HeadInGraph'
    OBVIOUS
  <2>1. CASE setup_code \/ getCode
    BY <2>1 DEF setup_code, getCode, HeadInGraph
  <2>2. ASSUME NEW b \in Block, Add(b) PROVE HeadInGraph'
    BY <2>2 DEF Add, HeadInGraph, TypeOK
  <2>3. ASSUME NEW p \in Proc, NEW b \in Block, erase(p, b) PROVE HeadInGraph'
    BY <2>3 DEF erase, HeadInGraph, TypeOK
  <2>4. CASE UNCHANGED graphVars
    BY <2>4 DEF graphVars, HeadInGraph
  <2>5. QED
    BY <2>1, <2>2, <2>3, <2>4
    DEF Next, vars, graphVars, entry_function, exit_function, newBasicBlock,
        entry_new_block, entry_no_block, link_from_null, entry_block, entry_next_existing,
        entry_next_new, entry_else_existing, entry_else_new, entry_from_null,
        push_block, save_and_entry, pop_block, setNext, setElse
<1>3. QED BY <1>1, <1>2, TypeCorrect, PTL DEF Spec

---------------------------------------------------------------------------
(* Predecessor lists and targets.                                          *)

\* setNext keeps the predecessor lists in step with the targets.
LEMMA LinkNextEdges ==
  ASSUME TypeOK, EdgesMatch, NEW b \in Block \ gone, NEW t \in Block,
         LinkNext(b, t), UNCHANGED gone
  PROVE  EdgesMatch'
<1> SUFFICES ASSUME NEW y \in Block \ gone, NEW x \in Block \ gone
             PROVE  preds'[x][y] = EdgeCount(y, x)'
  BY DEF EdgesMatch
<1>1. preds \in [Block -> [Block -> Nat]] /\ succ[b] \in BlockOrNull
  BY DEF TypeOK
<1>2. preds'[x][y] = preds[x][y]
                     - (IF x = succ[b] /\ y = b /\ preds[x][y] > 0 THEN 1 ELSE 0)
                     + (IF x = t /\ y = b THEN 1 ELSE 0)
  <2>1. preds' = Relinked(preds, b, succ[b], t)
    BY DEF LinkNext
  <2>2. x \in Block /\ y \in Block /\ t \in Block /\ b \in Block
    OBVIOUS
  <2>3. QED BY <1>1, <2>1, <2>2, RelinkedCounts
<1>3. preds[x][y] = EdgeCount(y, x)
  BY DEF EdgesMatch
<1>4. succ'[y] = (IF y = b THEN t ELSE succ[y]) /\ alt'[y] = alt[y]
  BY DEF LinkNext, TypeOK
<1>5. CASE y = b
  <2>1. x # NoBlock
    BY ControlGraphAssumption
  <2>2. EdgeCount(y, x)' = (IF x = t THEN 1 ELSE 0)
                           + (IF alt[y] = x THEN 1 ELSE 0)
    BY <1>4, <1>5 DEF EdgeCount
  <2>3. preds[x][y] = (IF x = succ[y] THEN 1 ELSE 0)
                      + (IF alt[y] = x THEN 1 ELSE 0)
    BY <1>3 DEF EdgeCount
  <2>4. QED BY <1>1, <1>2, <1>5, <2>2, <2>3
<1>6. CASE y # b
  <2>1. preds'[x][y] = preds[x][y]
    BY <1>1, <1>2, <1>6
  <2>2. QED BY <2>1, <1>3, <1>4, <1>6 DEF EdgeCount
<1>7. QED BY <1>5, <1>6

\* setElse keeps the predecessor lists in step with the targets.
LEMMA LinkElseEdges ==
  ASSUME TypeOK, EdgesMatch, NEW b \in Block \ gone, NEW t \in Block,
         LinkElse(b, t), UNCHANGED gone
  PROVE  EdgesMatch'
<1> SUFFICES ASSUME NEW y \in Block \ gone, NEW x \in Block \ gone
             PROVE  preds'[x][y] = EdgeCount(y, x)'
  BY DEF EdgesMatch
<1>1. preds \in [Block -> [Block -> Nat]] /\ alt[b] \in BlockOrNull
  BY DEF TypeOK
<1>2. preds'[x][y] = preds[x][y]
                     - (IF x = alt[b] /\ y = b /\ preds[x][y] > 0 THEN 1 ELSE 0)
                     + (IF x = t /\ y = b THEN 1 ELSE 0)
  <2>1. preds' = Relinked(preds, b, alt[b], t)
    BY DEF LinkElse
  <2>2. x \in Block /\ y \in Block /\ t \in Block /\ b \in Block
    OBVIOUS
  <2>3. QED BY <1>1, <2>1, <2>2, RelinkedCounts
<1>3. preds[x][y] = EdgeCount(y, x)
  BY DEF EdgesMatch
<1>4. alt'[y] = (IF y = b THEN t ELSE alt[y]) /\ succ'[y] = succ[y]
  BY DEF LinkElse, TypeOK
<1>5. CASE y = b
  <2>1. x # NoBlock
    BY ControlGraphAssumption
  <2>2. EdgeCount(y, x)' = (IF x = t THEN 1 ELSE 0)
                           + (IF succ[y] = x THEN 1 ELSE 0)
    BY <1>4, <1>5 DEF EdgeCount
  <2>3. preds[x][y] = (IF x = alt[y] THEN 1 ELSE 0)
                      + (IF succ[y] = x THEN 1 ELSE 0)
    BY <1>3 DEF EdgeCount
  <2>4. QED BY <1>1, <1>2, <1>5, <2>2, <2>3
<1>6. CASE y # b
  <2>1. preds'[x][y] = preds[x][y]
    BY <1>1, <1>2, <1>6
  <2>2. QED BY <2>1, <1>3, <1>4, <1>6 DEF EdgeCount
<1>7. QED BY <1>5, <1>6

\* A step that links nothing keeps the edges matched while blocks leave.
LEMMA SameEdges ==
  ASSUME EdgesMatch, UNCHANGED edgeVars, gone \subseteq gone'
  PROVE  EdgesMatch'
  BY DEF EdgesMatch, EdgeCount, edgeVars

\* After any calls of any client, the predecessor list of a block holds each
\* block once per edge, for all blocks that never left the builder.
THEOREM EdgesAgree == Spec => []EdgesMatch
<1>1. Init => EdgesMatch
  BY ControlGraphAssumption DEF Init, EdgesMatch, EdgeCount, NoEdges
<1>2. TypeOK /\ LiveNotGone /\ EdgesMatch /\ [Next]_vars => EdgesMatch'
  <2> SUFFICES ASSUME TypeOK, LiveNotGone, EdgesMatch, [Next]_vars
               PROVE  EdgesMatch'
    OBVIOUS
  <2>1. Live \subseteq Block \ gone
    BY LiveType DEF LiveNotGone
  <2>2. ASSUME NEW b \in Block, NEW save \in BOOLEAN, entry_next_new(b, save)
        PROVE  EdgesMatch'
    BY <2>1, <2>2, LinkNextEdges DEF entry_next_new
  <2>3. ASSUME NEW b \in Block, NEW save \in BOOLEAN, entry_else_new(b, save)
        PROVE  EdgesMatch'
    BY <2>1, <2>3, LinkElseEdges DEF entry_else_new
  <2>4. ASSUME NEW t \in Live, setNext(t) PROVE EdgesMatch'
    BY <2>1, <2>4, LinkNextEdges DEF setNext
  <2>5. ASSUME NEW t \in Live, setElse(t) PROVE EdgesMatch'
    BY <2>1, <2>5, LinkElseEdges DEF setElse
  <2>6. CASE UNCHANGED edgeVars /\ gone \subseteq gone'
    BY <2>6, SameEdges
  <2>7. QED
    BY <2>2, <2>3, <2>4, <2>5, <2>6
    DEF Next, vars, edgeVars, setup_code, getCode, entry_function,
        exit_function, newBasicBlock, entry_new_block, entry_no_block,
        link_from_null, entry_block, entry_next_existing, entry_else_existing,
        entry_from_null, link_from_null, push_block, save_and_entry, pop_block, erase
<1>3. QED BY <1>1, <1>2, TypeCorrect, Ownership, PTL DEF Spec
---------------------------------------------------------------------------
(* Disciplined clients.                                                    *)

\* A block that was never handed out has no targets.
FreshUnlinked == \A b \in Unused : succ[b] = NoBlock /\ alt[b] = NoBlock

\* While a body is built the stack is the saved blocks and the current one,
\* all of them nodes of the current graph; before its first block a function
\* has none; and outside a body at most one block is left on the stack.
Discipline ==
  /\ phase = "body" =>
       /\ proc \in Proc
       /\ current_block \in graph[proc]
       /\ stack = Append(saves, current_block)
       /\ \A i \in DOMAIN saves : saves[i] \in graph[proc]
  /\ phase = "entered" => proc \in Proc /\ graph[proc] = {}
  /\ phase # "body" => saves = <<>> /\ Len(stack) <= 1

ProtocolInv ==
  /\ ProtocolTypeOK
  /\ LiveNotGone
  /\ GraphsDisjoint
  /\ FreshUnlinked
  /\ EdgesWithinProcedure
  /\ Discipline

---------------------------------------------------------------------------
(* The stack operators on a stack that ends in a known block.              *)

\* An empty stack is a stack of blocks with room for one.
LEMMA EmptyStack ==
  ASSUME NEW s, s = <<>>
  PROVE  s \in Seq(Block) /\ Len(s) <= 1
<1>1. s \in Seq(Block)
  BY EmptySeq
<1>2. Len(s) = 0
  BY <1>1, EmptySeq
<1>3. QED BY <1>1, <1>2

\* The top of a stack is what was appended last.
LEMMA TopAppend ==
  ASSUME NEW s \in Seq(BlockOrNull), NEW b \in BlockOrNull
  PROVE  Top(Append(s, b)) = b
  BY DEF Top

\* set_basic_block changes the top and nothing below.
LEMMA ReplacedAppend ==
  ASSUME NEW s \in Seq(BlockOrNull), NEW b \in BlockOrNull, NEW c \in BlockOrNull
  PROVE  Replaced(Append(s, b), c) = Append(s, c)
<1> DEFINE t == Append(s, b)
           u == [t EXCEPT ![Len(t)] = c]
<1>1. /\ t \in Seq(BlockOrNull) /\ t # <<>> /\ Len(t) = Len(s) + 1
      /\ \A i \in 1..Len(s) : t[i] = s[i]
  BY AppendProperties
<1>2. Len(s) \in Nat
  OBVIOUS
<1> HIDE DEF t
<1>3. /\ u \in Seq(BlockOrNull) /\ Len(u) = Len(t)
      /\ \A i \in 1..Len(t) : u[i] = IF i = Len(t) THEN c ELSE t[i]
  BY <1>1, <1>2, ExceptSeq
<1>4. /\ Append(s, c) \in Seq(BlockOrNull) /\ Len(Append(s, c)) = Len(s) + 1
      /\ \A i \in 1..Len(s) : Append(s, c)[i] = s[i]
      /\ Append(s, c)[Len(s) + 1] = c
  BY AppendProperties
<1>5. Replaced(t, c) = u
  BY <1>1 DEF Replaced
<1> HIDE DEF u
<1>6. u = Append(s, c)
  <2>1. \A i \in 1..Len(u) : u[i] = Append(s, c)[i]
    BY <1>1, <1>2, <1>3, <1>4
  <2>2. QED BY <1>1, <1>3, <1>4, <2>1, SeqEqual
<1>7. QED BY <1>5, <1>6 DEF t

\* save_basic_block duplicates a top that is a block.
LEMMA SavedAppend ==
  ASSUME NEW s \in Seq(BlockOrNull), NEW b \in Block
  PROVE  Saved(Append(s, b)) = Append(Append(s, b), b)
<1>1. Top(Append(s, b)) = b /\ b # NoBlock
  BY TopAppend, ControlGraphAssumption DEF BlockOrNull
<1>2. QED BY <1>1 DEF Saved

\* pop_basic_block leaves what was below the top.
LEMMA PoppedAppend ==
  ASSUME NEW s \in Seq(BlockOrNull), NEW b \in BlockOrNull
  PROVE  Popped(Append(s, b)) = s
  BY DEF Popped

\* On a stack of at most one block, set_basic_block leaves one.
LEMMA ReplacedShort ==
  ASSUME NEW s \in Seq(BlockOrNull), Len(s) <= 1, NEW b \in BlockOrNull
  PROVE  Replaced(s, b) = Append(<<>>, b)
<1>1. CASE s = <<>>
  BY <1>1 DEF Replaced
<1>2. CASE s # <<>>
  <2>1. Len(s) = 1
    <3>1. Len(s) \in Nat /\ Len(s) # 0
      BY <1>2, EmptySeq
    <3>2. \A n \in Nat : n # 0 /\ n <= 1 => n = 1
      OBVIOUS
    <3>3. QED BY <3>1, <3>2, Zenon
  <2>2. QED BY <1>2, <2>1 DEF Replaced
<1>3. QED BY <1>1, <1>2

---------------------------------------------------------------------------
(* What a step of a body keeps.                                            *)

\* A step may add unused blocks to graphs and draw edges from nodes of the
\* current graph to nodes of the current graph: then no edge leaves a graph.
LEMMA EdgesStep ==
  ASSUME ProtocolInv, proc \in Proc, gone' = gone,
         \A p \in Proc : graph[p] \subseteq graph'[p] /\ graph'[p] \ graph[p] \subseteq Unused,
         \A b \in Block : \/ succ'[b] = succ[b]
                          \/ b \in graph[proc] /\ succ'[b] \in graph'[proc],
         \A b \in Block : \/ alt'[b] = alt[b]
                          \/ b \in graph[proc] /\ alt'[b] \in graph'[proc]
  PROVE  EdgesWithinProcedure' /\ FreshUnlinked'
<1>1. \A p, q \in Proc : p # q => graph[p] \cap graph[q] = {}
  BY DEF ProtocolInv, GraphsDisjoint
<1>2. \A p \in Proc : graph[p] \subseteq Live /\ graph[p] \subseteq Block
  BY DEF Live, ProtocolInv, ProtocolTypeOK, TypeOK
<1>3. EdgesWithinProcedure'
  <2> SUFFICES ASSUME NEW p \in Proc, NEW b \in graph'[p]
               PROVE  {succ'[b], alt'[b]} \subseteq graph'[p] \cup {NoBlock}
    BY DEF EdgesWithinProcedure
  <2>1. CASE b \in graph[p]
    <3>1. {succ[b], alt[b]} \subseteq graph'[p] \cup {NoBlock}
      BY <2>1 DEF ProtocolInv, EdgesWithinProcedure
    <3>2. b \in graph[proc] => p = proc
      BY <1>1, <2>1
    <3>3. QED BY <1>2, <2>1, <3>1, <3>2
  <2>2. CASE b \notin graph[p]
    <3>1. b \in Unused /\ b \in Block
      BY <2>2 DEF Unused
    <3>2. succ[b] = NoBlock /\ alt[b] = NoBlock
      BY <3>1 DEF ProtocolInv, FreshUnlinked
    <3>3. b \notin graph[proc]
      BY <1>2, <3>1 DEF Unused
    <3>4. QED BY <3>1, <3>2, <3>3
  <2>3. QED BY <2>1, <2>2
<1>4. FreshUnlinked'
  <2> SUFFICES ASSUME NEW b \in Unused' PROVE succ'[b] = NoBlock /\ alt'[b] = NoBlock
    BY DEF FreshUnlinked
  <2>1. b \in Block /\ b \in Unused /\ b \notin graph[proc]
    BY <1>2 DEF Unused, Live
  <2>2. succ[b] = NoBlock /\ alt[b] = NoBlock
    BY <2>1 DEF ProtocolInv, FreshUnlinked
  <2>3. QED BY <2>1, <2>2
<1>5. QED BY <1>3, <1>4

\* Adding a block puts an unused block into the current graph only.
LEMMA AddGraph ==
  ASSUME TypeOK, proc \in Proc, NEW b \in Block, Add(b)
  PROVE  /\ \A p \in Proc : graph[p] \subseteq graph'[p] /\ graph'[p] \ graph[p] \subseteq Unused
         /\ graph'[proc] = graph[proc] \cup {b}
  BY DEF Add, TypeOK

\* Linking a node of the current graph changes that node's target only.
LEMMA LinkNextGraph ==
  ASSUME TypeOK, NEW c \in Block, NEW t \in Block, LinkNext(c, t)
  PROVE  /\ \A b \in Block : succ'[b] = succ[b] \/ (b = c /\ succ'[b] = t)
         /\ alt' = alt
  BY DEF LinkNext, TypeOK

\* The same for the other target.
LEMMA LinkElseGraph ==
  ASSUME TypeOK, NEW c \in Block, NEW t \in Block, LinkElse(c, t)
  PROVE  /\ \A b \in Block : alt'[b] = alt[b] \/ (b = c /\ alt'[b] = t)
         /\ succ' = succ
  BY DEF LinkElse, TypeOK

\* Every step of a disciplined client is a step of the builder.
LEMMA ClientStep == ProtocolInv /\ [ProtocolNext]_protocolVars => [Next]_vars
<1> SUFFICES ASSUME ProtocolInv, ProtocolNext PROVE [Next]_vars
  BY DEF protocolVars
<1>1. phase = "body" => graph[proc] \subseteq Live
  BY DEF ProtocolInv, Discipline, Live
<1>2. ASSUME NEW b \in Block, Move(b) PROVE Next
  BY <1>1, <1>2 DEF Move, Next
<1>3. CASE MoveExisting
  BY <1>3 DEF MoveExisting, Next
<1>4. CASE Save
  BY <1>1, <1>4 DEF Save, Next
<1>5. ASSUME NEW b \in Block, Draw(b) PROVE Next
  BY <1>1, <1>5 DEF Draw, Next
<1>6. QED
  BY <1>2, <1>3, <1>4, <1>5
  DEF ProtocolNext, Next, StartCode, TakeCode, EnterFunction, OpenBody,
      Restore, LeaveFunction

---------------------------------------------------------------------------
(* The steps of a body: first the graph, then the stack.                   *)

\* What a step of a body must do to the graphs and the edges.
GraphKept ==
  /\ EdgesWithinProcedure'
  /\ FreshUnlinked'
  /\ graph[proc] \subseteq graph'[proc]

\* A body may create a block, and link the current block to it or not.
LEMMA CreateStep ==
  ASSUME ProtocolInv, phase = "body", gone' = gone, NEW b \in Block, Add(b),
         UNCHANGED edgeVars \/ LinkNext(current_block, b) \/ LinkElse(current_block, b)
  PROVE  GraphKept /\ b \in graph'[proc]
<1>1. /\ TypeOK
      /\ proc \in Proc
      /\ current_block \in graph[proc]
      /\ current_block \in Block
  BY DEF ProtocolInv, ProtocolTypeOK, TypeOK, Discipline
<1>2. /\ \A p \in Proc : graph[p] \subseteq graph'[p] /\ graph'[p] \ graph[p] \subseteq Unused
      /\ graph'[proc] = graph[proc] \cup {b}
  BY <1>1, AddGraph
<1>3. \A c \in Block : \/ succ'[c] = succ[c]
                       \/ c \in graph[proc] /\ succ'[c] \in graph'[proc]
  BY <1>1, <1>2, LinkNextGraph, LinkElseGraph DEF edgeVars
<1>4. \A c \in Block : \/ alt'[c] = alt[c]
                       \/ c \in graph[proc] /\ alt'[c] \in graph'[proc]
  BY <1>1, <1>2, LinkNextGraph, LinkElseGraph DEF edgeVars
<1>5. EdgesWithinProcedure' /\ FreshUnlinked'
  BY <1>1, <1>2, <1>3, <1>4, EdgesStep
<1>6. QED BY <1>1, <1>2, <1>5 DEF GraphKept

\* A body may link the current block to a node of its graph.
LEMMA DrawStep ==
  ASSUME ProtocolInv, phase = "body", gone' = gone, graph' = graph,
         NEW t \in graph[proc],
         LinkNext(current_block, t) \/ LinkElse(current_block, t)
  PROVE  GraphKept
<1>1. /\ TypeOK
      /\ proc \in Proc
      /\ current_block \in graph[proc]
      /\ current_block \in Block
      /\ t \in Block
  BY DEF ProtocolInv, ProtocolTypeOK, TypeOK, Discipline
<1>2. \A c \in Block : \/ succ'[c] = succ[c]
                       \/ c \in graph[proc] /\ succ'[c] \in graph'[proc]
  BY <1>1, LinkNextGraph, LinkElseGraph
<1>3. \A c \in Block : \/ alt'[c] = alt[c]
                       \/ c \in graph[proc] /\ alt'[c] \in graph'[proc]
  BY <1>1, LinkNextGraph, LinkElseGraph
<1>4. EdgesWithinProcedure' /\ FreshUnlinked'
  BY <1>1, <1>2, <1>3, EdgesStep
<1>5. QED BY <1>4 DEF GraphKept

\* A step that touches neither graphs nor edges keeps both.
LEMMA SameGraph ==
  ASSUME ProtocolInv, UNCHANGED <<graph, succ, alt, gone>>
  PROVE  GraphKept
  BY DEF ProtocolInv, GraphKept, EdgesWithinProcedure, FreshUnlinked, Unused, Live

\* The edges of the current block lead to nodes of the current graph.
LEMMA TargetsInGraph ==
  ASSUME ProtocolInv, phase = "body"
  PROVE  {succ[current_block], alt[current_block]} \subseteq graph[proc] \cup {NoBlock}
  BY DEF ProtocolInv, Discipline, EdgesWithinProcedure

\* Saved blocks form a stack.
LEMMA SavesAreStack == ASSUME NEW s \in Seq(Block) PROVE s \in Seq(BlockOrNull)
  BY SeqMonotonic DEF BlockOrNull

\* A stack of saves below a current block, all of them nodes of the current
\* graph, is what the discipline asks of a body.
LEMMA BodyStack ==
  ASSUME ProtocolInv, phase' = "body", proc' = proc, proc \in Proc,
         graph'[proc] \subseteq Block, saves' \in Seq(Block),
         NEW c \in graph'[proc], stack' = Append(saves', c),
         \A i \in DOMAIN saves' : saves'[i] \in graph'[proc]
  PROVE  Discipline'
<1>1. saves' \in Seq(BlockOrNull) /\ c \in BlockOrNull
  BY SavesAreStack DEF BlockOrNull
<1>2. current_block' = c
  <2>1. Top(Append(saves', c)) = c
    BY <1>1, TopAppend
  <2>2. QED BY <2>1 DEF current_block
<1>3. QED BY <1>2 DEF Discipline

\* Moving to a node of the graph, without saving, keeps the discipline.
LEMMA MoveStack ==
  ASSUME ProtocolInv, phase = "body", UNCHANGED <<phase, proc, saves>>,
         graph[proc] \subseteq graph'[proc], graph'[proc] \subseteq Block,
         NEW c \in graph'[proc], stack' = Replaced(stack, c)
  PROVE  Discipline'
<1>1. /\ proc \in Proc
      /\ stack = Append(saves, current_block)
      /\ saves \in Seq(Block)
      /\ current_block \in Block
      /\ \A i \in DOMAIN saves : saves[i] \in graph[proc]
  BY DEF ProtocolInv, ProtocolTypeOK, TypeOK, Discipline
<1>2. /\ saves \in Seq(BlockOrNull)
      /\ current_block \in BlockOrNull
      /\ c \in BlockOrNull
  BY <1>1, SavesAreStack DEF BlockOrNull
<1>3. stack' = Append(saves, c)
  BY <1>1, <1>2, ReplacedAppend
<1>4. QED BY <1>1, <1>3, BodyStack

\* Saving the current block and moving to a node keeps the discipline.
LEMMA SaveStack ==
  ASSUME ProtocolInv, phase = "body", UNCHANGED <<phase, proc>>,
         graph[proc] \subseteq graph'[proc], graph'[proc] \subseteq Block,
         saves' = Append(saves, current_block), NEW c \in graph'[proc],
         \/ stack' = Replaced(Saved(stack), c)
         \/ stack' = Saved(stack) /\ c = current_block
  PROVE  Discipline' /\ saves' \in Seq(Block)
<1>1. /\ proc \in Proc
      /\ stack = Append(saves, current_block)
      /\ saves \in Seq(Block)
      /\ current_block \in Block
      /\ current_block \in graph[proc]
      /\ \A i \in DOMAIN saves : saves[i] \in graph[proc]
  BY DEF ProtocolInv, ProtocolTypeOK, TypeOK, Discipline
<1>2. /\ saves' \in Seq(Block)
      /\ Len(saves') = Len(saves) + 1
      /\ \A i \in 1..Len(saves) : saves'[i] = saves[i]
      /\ saves'[Len(saves) + 1] = current_block
  BY <1>1, AppendProperties
<1>3. \A i \in DOMAIN saves' : saves'[i] \in graph'[proc]
  <2>1. Len(saves) \in Nat /\ DOMAIN saves = 1..Len(saves) /\ DOMAIN saves' = 1..Len(saves')
    BY <1>1, <1>2, LenProperties
  <2>2. \A i \in 1..(Len(saves) + 1) : i \in 1..Len(saves) \/ i = Len(saves) + 1
    BY <2>1
  <2>3. QED BY <1>1, <1>2, <2>1, <2>2
<1>4. /\ saves' \in Seq(BlockOrNull)
      /\ saves \in Seq(BlockOrNull)
      /\ current_block \in BlockOrNull
      /\ c \in BlockOrNull
  BY <1>1, <1>2, SavesAreStack DEF BlockOrNull
<1>5. Saved(stack) = Append(saves', current_block)
  BY <1>1, <1>4, SavedAppend
<1>6. stack' = Append(saves', c)
  BY <1>4, <1>5, ReplacedAppend
<1>7. QED BY <1>1, <1>2, <1>3, <1>6, BodyStack

\* A pop returns to the block of the last open save.
LEMMA RestoreStack ==
  ASSUME ProtocolInv, phase = "body", UNCHANGED <<phase, proc, graph>>,
         saves # <<>>, stack' = Popped(stack),
         saves' = SubSeq(saves, 1, Len(saves) - 1)
  PROVE  Discipline' /\ saves' \in Seq(Block)
<1>1. /\ proc \in Proc
      /\ graph[proc] \subseteq Block
      /\ stack = Append(saves, current_block)
      /\ saves \in Seq(Block)
      /\ current_block \in Block
      /\ \A i \in DOMAIN saves : saves[i] \in graph[proc]
  BY DEF ProtocolInv, ProtocolTypeOK, TypeOK, Discipline
<1>2. PICK s \in Seq(Block), c \in Block : saves = Append(s, c)
  BY <1>1, SequenceEmptyOrAppend
<1>3. /\ Len(saves) = Len(s) + 1
      /\ \A i \in 1..Len(s) : saves[i] = s[i]
      /\ saves[Len(s) + 1] = c
  BY <1>2, AppendProperties
<1>4. Len(s) \in Nat /\ DOMAIN s = 1..Len(s) /\ DOMAIN saves = 1..Len(saves)
  BY <1>1, LenProperties
<1>5. saves' = s
  <2>1. Popped(saves) = s
    BY <1>2, SavesAreStack, PoppedAppend DEF BlockOrNull
  <2>2. QED BY <2>1 DEF Popped
<1>6. stack' = saves
  BY <1>1, SavesAreStack, PoppedAppend DEF BlockOrNull
<1>7. c \in graph[proc] /\ \A i \in DOMAIN s : s[i] \in graph[proc]
  <2>1. \A i \in 1..Len(s) : i \in 1..(Len(s) + 1)
    BY <1>4
  <2>2. Len(s) + 1 \in 1..(Len(s) + 1)
    BY <1>4
  <2>3. QED BY <1>1, <1>3, <1>4, <2>1, <2>2
<1>8. QED BY <1>1, <1>2, <1>5, <1>6, <1>7, BodyStack

---------------------------------------------------------------------------
(* The inductive step.                                                     *)

\* What remains of the invariant once types and ownership are known.
BodyInv ==
  /\ EdgesWithinProcedure
  /\ FreshUnlinked
  /\ Discipline
  /\ phase \in Phases
  /\ saves \in Seq(Block)

\* Outside a body the calls that open and close functions keep the discipline.
LEMMA OutsideStep ==
  ASSUME ProtocolInv, ProtocolTypeOK, TypeOK',
         \/ StartCode
         \/ TakeCode
         \/ \E p \in Proc : EnterFunction(p)
         \/ LeaveFunction
  PROVE  BodyInv'
<1>1. saves = <<>>
  BY DEF StartCode, TakeCode, EnterFunction, LeaveFunction, Settled
<1>2. Len(stack) <= 1
  <2>1. CASE phase = "body"
    <3>1. stack = Append(<<>>, current_block) /\ current_block \in graph[proc] /\ proc \in Proc
      BY <1>1, <2>1 DEF ProtocolInv, Discipline
    <3>2. current_block \in Block
      BY <3>1 DEF ProtocolTypeOK, TypeOK
    <3>3. Len(stack) = Len(<<>>) + 1
      BY <3>1, <3>2, AppendProperties, EmptySeq
    <3>4. QED BY <3>3
  <2>2. CASE phase # "body"
    BY <2>2 DEF ProtocolInv, Discipline
  <2>3. QED BY <2>1, <2>2
<1>3. CASE StartCode \/ TakeCode
  <2>1. /\ \A p \in Proc : graph'[p] = {}
        /\ Unused' \subseteq Unused
        /\ UNCHANGED <<succ, alt, saves>>
        /\ stack' = <<>>
        /\ phase' \in {"outside", "no code"}
    BY <1>3 DEF StartCode, TakeCode, setup_code, getCode, Unused, Live, edgeVars
  <2>2. EdgesWithinProcedure'
    BY <2>1 DEF EdgesWithinProcedure
  <2>3. FreshUnlinked'
    BY <2>1 DEF FreshUnlinked, ProtocolInv
  <2>4. Len(stack') <= 1
    BY <2>1, EmptyStack
  <2>5. Discipline'
    BY <1>1, <2>1, <2>4 DEF Discipline
  <2>6. QED
    BY <2>1, <2>2, <2>3, <2>5 DEF BodyInv, Phases, ProtocolTypeOK
<1>4. ASSUME NEW p \in Proc, EnterFunction(p) PROVE BodyInv'
  <2>1. /\ p \notin procs
        /\ proc' = p
        /\ phase' = "entered"
        /\ UNCHANGED <<graph, succ, alt, gone, stack, saves>>
    BY <1>4 DEF EnterFunction, entry_function, graphVars, edgeVars
  <2>2. graph'[p] = {}
    BY <2>1 DEF ProtocolInv, GraphsDisjoint
  <2>3. EdgesWithinProcedure' /\ FreshUnlinked'
    BY <2>1, SameGraph DEF GraphKept
  <2>4. Discipline'
    BY <1>1, <1>2, <2>1, <2>2 DEF Discipline
  <2>5. QED BY <2>1, <2>3, <2>4 DEF BodyInv, Phases, ProtocolTypeOK
<1>5. CASE LeaveFunction
  <2>1. /\ phase' = "outside"
        /\ UNCHANGED <<graph, succ, alt, gone, stack, saves>>
    BY <1>5 DEF LeaveFunction, exit_function, graphVars, edgeVars
  <2>2. EdgesWithinProcedure' /\ FreshUnlinked'
    BY <2>1, SameGraph DEF GraphKept
  <2>3. Discipline'
    BY <1>1, <1>2, <2>1 DEF Discipline
  <2>4. QED BY <2>1, <2>2, <2>3 DEF BodyInv, Phases, ProtocolTypeOK
<1>6. QED BY <1>3, <1>4, <1>5

\* The entry block of a function replaces what the previous one left behind.
LEMMA OpenStep ==
  ASSUME ProtocolInv, NEW b \in Block, OpenBody(b)
  PROVE  BodyInv'
<1>1. /\ TypeOK
      /\ proc \in Proc /\ graph[proc] = {}
      /\ saves = <<>> /\ Len(stack) <= 1
      /\ stack \in Seq(BlockOrNull)
      /\ b \in BlockOrNull
  BY DEF OpenBody, ProtocolInv, ProtocolTypeOK, TypeOK, Discipline, BlockOrNull
<1>2. /\ Add(b)
      /\ stack' = Replaced(stack, b)
      /\ phase' = "body"
      /\ UNCHANGED <<proc, succ, alt, gone, saves>>
  BY DEF OpenBody, entry_new_block, codeVars, edgeVars
<1>3. /\ \A p \in Proc : graph[p] \subseteq graph'[p] /\ graph'[p] \ graph[p] \subseteq Unused
      /\ graph'[proc] = {b}
  BY <1>1, <1>2, AddGraph
<1>4. EdgesWithinProcedure' /\ FreshUnlinked'
  BY <1>1, <1>2, <1>3, EdgesStep
<1>5. stack' = Append(saves', b)
  BY <1>1, <1>2, ReplacedShort
<1>6. saves' \in Seq(Block) /\ \A i \in DOMAIN saves' : saves'[i] \in graph'[proc]
  BY <1>1, <1>2
<1>7. Discipline'
  BY <1>1, <1>2, <1>3, <1>5, <1>6, BodyStack
<1>8. QED BY <1>2, <1>4, <1>6, <1>7 DEF BodyInv, Phases

\* The calls that move the current block keep the graph and the discipline.
LEMMA MoveStep ==
  ASSUME ProtocolInv, TypeOK', (\E b \in Block : Move(b)) \/ MoveExisting
  PROVE  BodyInv'
<1>1. /\ phase = "body"
      /\ UNCHANGED <<phase, proc, saves, gone>>
      /\ proc \in Proc
  BY DEF Move, MoveExisting, entry_new_block, entry_block, entry_next_new,
         entry_else_new, entry_next_existing, entry_else_existing, codeVars,
         ProtocolInv, Discipline
<1>2. PICK c \in Block :
        stack' = Replaced(stack, c) /\ GraphKept /\ c \in graph'[proc]
  <2>1. ASSUME NEW b \in Block, Move(b)
        PROVE  \E c \in Block :
                 stack' = Replaced(stack, c) /\ GraphKept /\ c \in graph'[proc]
    <3>1. CASE entry_new_block(b)
      BY <1>1, <3>1, CreateStep DEF entry_new_block
    <3>2. CASE b \in graph[proc] /\ entry_block(b)
      BY <1>1, <3>2, SameGraph DEF entry_block, graphVars, edgeVars
    <3>3. CASE entry_next_new(b, FALSE)
      BY <1>1, <3>3, CreateStep DEF entry_next_new, PushIf
    <3>4. CASE entry_else_new(b, FALSE)
      BY <1>1, <3>4, CreateStep DEF entry_else_new, PushIf
    <3>5. QED BY <2>1, <3>1, <3>2, <3>3, <3>4 DEF Move
  <2>2. CASE MoveExisting
    <3>1. UNCHANGED <<graph, succ, alt, gone>>
      BY <2>2 DEF MoveExisting, entry_next_existing, entry_else_existing,
                  graphVars, edgeVars
    <3>2. GraphKept
      BY <3>1, SameGraph
    <3>3. PICK c \in graph[proc] : stack' = Replaced(stack, c)
      BY <1>1, <2>2, TargetsInGraph
      DEF MoveExisting, entry_next_existing, entry_else_existing, PushIf
    <3>4. c \in Block
      BY <1>1, <3>3 DEF ProtocolInv, ProtocolTypeOK, TypeOK
    <3>5. QED BY <3>1, <3>2, <3>3, <3>4
  <2>3. QED BY <2>1, <2>2
<1>3. graph'[proc] \subseteq Block
  BY <1>1 DEF TypeOK
<1>4. Discipline'
  BY <1>1, <1>2, <1>3, MoveStack DEF GraphKept
<1>5. QED
  BY <1>1, <1>2, <1>4 DEF BodyInv, GraphKept, ProtocolInv, ProtocolTypeOK

\* The calls that save the current block keep the graph and the discipline.
LEMMA SaveStep ==
  ASSUME ProtocolInv, TypeOK', Save
  PROVE  BodyInv'
<1>1. /\ phase = "body"
      /\ UNCHANGED <<phase, proc, gone>>
      /\ proc \in Proc
      /\ current_block \in graph[proc]
      /\ saves' = Append(saves, current_block)
  BY DEF Save, push_block, save_and_entry, entry_next_existing,
         entry_else_existing, entry_next_new, entry_else_new, codeVars,
         ProtocolInv, Discipline
<1>2. \E c \in graph'[proc] :
        /\ GraphKept
        /\ \/ stack' = Replaced(Saved(stack), c)
           \/ stack' = Saved(stack) /\ c = current_block
  <2>1. CASE push_block
    BY <1>1, <2>1, SameGraph DEF push_block, graphVars, edgeVars
  <2>2. CASE \E b \in graph[proc] : save_and_entry(b)
    BY <1>1, <2>2, SameGraph DEF save_and_entry, graphVars, edgeVars
  <2>3. CASE entry_next_existing(TRUE) \/ entry_else_existing(TRUE)
    <3>1. UNCHANGED <<graph, succ, alt, gone>>
      BY <2>3 DEF entry_next_existing, entry_else_existing, graphVars, edgeVars
    <3>2. GraphKept
      BY <3>1, SameGraph
    <3>3. \E c \in graph[proc] : stack' = Replaced(Saved(stack), c)
      BY <1>1, <2>3, TargetsInGraph
      DEF entry_next_existing, entry_else_existing, PushIf
    <3>4. QED BY <3>1, <3>2, <3>3
  <2>4. ASSUME NEW b \in Block, entry_next_new(b, TRUE) \/ entry_else_new(b, TRUE)
        PROVE  GraphKept /\ b \in graph'[proc] /\ stack' = Replaced(Saved(stack), b)
    BY <1>1, <2>4, CreateStep DEF entry_next_new, entry_else_new, PushIf
  <2>5. QED BY <2>1, <2>2, <2>3, <2>4 DEF Save
<1>3. graph'[proc] \subseteq Block
  BY <1>1 DEF TypeOK
<1>4. Discipline' /\ saves' \in Seq(Block)
  BY <1>1, <1>2, <1>3, SaveStack DEF GraphKept
<1>5. QED
  BY <1>1, <1>2, <1>4 DEF BodyInv, GraphKept, ProtocolInv, ProtocolTypeOK

\* Linking and popping keep the graph and the discipline.
LEMMA DrawRestoreStep ==
  ASSUME ProtocolInv, TypeOK', (\E b \in Block : Draw(b)) \/ Restore
  PROVE  BodyInv'
<1>1. /\ phase = "body"
      /\ UNCHANGED <<phase, proc, gone>>
      /\ proc \in Proc
      /\ current_block \in graph[proc]
      /\ stack = Append(saves, current_block)
      /\ saves \in Seq(Block)
      /\ \A i \in DOMAIN saves : saves[i] \in graph[proc]
  BY DEF Draw, Restore, newBasicBlock, setNext, setElse, pop_block, codeVars,
         ProtocolInv, ProtocolTypeOK, Discipline
<1>2. ASSUME NEW b \in Block, Draw(b) PROVE BodyInv'
  <2>1. GraphKept
    <3>1. CASE newBasicBlock(b)
      BY <1>1, <3>1, CreateStep DEF newBasicBlock
    <3>2. CASE b \in graph[proc] /\ (setNext(b) \/ setElse(b))
      BY <1>1, <3>2, DrawStep DEF setNext, setElse, graphVars
    <3>3. QED BY <1>2, <3>1, <3>2 DEF Draw
  <2>2. UNCHANGED <<stack, saves>>
    BY <1>2 DEF Draw, newBasicBlock, setNext, setElse
  <2>3. graph'[proc] \subseteq Block
    BY <1>1 DEF TypeOK
  <2>4. Discipline'
    BY <1>1, <2>1, <2>2, <2>3, BodyStack DEF GraphKept
  <2>5. QED BY <1>1, <2>1, <2>2, <2>4 DEF BodyInv, GraphKept, Phases
<1>3. CASE Restore
  <2>1. /\ saves # <<>>
        /\ stack' = Popped(stack)
        /\ saves' = SubSeq(saves, 1, Len(saves) - 1)
        /\ UNCHANGED <<graph, succ, alt, gone>>
    BY <1>3 DEF Restore, pop_block, graphVars, edgeVars
  <2>2. GraphKept
    BY <2>1, SameGraph
  <2>3. Discipline' /\ saves' \in Seq(Block)
    BY <1>1, <2>1, RestoreStack
  <2>4. QED BY <1>1, <2>2, <2>3 DEF BodyInv, GraphKept, Phases
<1>4. QED BY <1>2, <1>3

\* The invariant of disciplined clients is inductive.
LEMMA ProtocolStep == ProtocolInv /\ [ProtocolNext]_protocolVars => ProtocolInv'
<1> SUFFICES ASSUME ProtocolInv, [ProtocolNext]_protocolVars PROVE ProtocolInv'
  OBVIOUS
<1>1. TypeOK' /\ LiveNotGone' /\ GraphsDisjoint'
  BY ClientStep, TypeStep, OwnershipStep DEF ProtocolInv, ProtocolTypeOK
<1>2. BodyInv'
  <2>1. CASE \/ StartCode
             \/ TakeCode
             \/ \E p \in Proc : EnterFunction(p)
             \/ LeaveFunction
    BY <1>1, <2>1, OutsideStep DEF ProtocolInv
  <2>2. CASE \E b \in Block : OpenBody(b)
    BY <2>2, OpenStep
  <2>3. CASE (\E b \in Block : Move(b)) \/ MoveExisting
    BY <1>1, <2>3, MoveStep
  <2>4. CASE Save
    BY <1>1, <2>4, SaveStep
  <2>5. CASE (\E b \in Block : Draw(b)) \/ Restore
    BY <1>1, <2>5, DrawRestoreStep
  <2>6. CASE UNCHANGED protocolVars
    <3>1. BodyInv
      BY DEF ProtocolInv, ProtocolTypeOK, BodyInv
    <3>2. QED
      BY <2>6, <3>1
      DEF protocolVars, vars, BodyInv, EdgesWithinProcedure, FreshUnlinked,
          Unused, Live, Discipline, current_block, Top
  <2>7. QED BY <2>1, <2>2, <2>3, <2>4, <2>5, <2>6 DEF ProtocolNext
<1>3. QED BY <1>1, <1>2 DEF BodyInv, ProtocolInv, ProtocolTypeOK

---------------------------------------------------------------------------
(* The theorems.                                                           *)

\* A builder that nothing was built with.
LEMMA ProtocolStart == ProtocolInit => ProtocolInv
<1> SUFFICES ASSUME ProtocolInit PROVE ProtocolInv
  OBVIOUS
<1>1. TypeOK
  BY InitType DEF ProtocolInit
<1>2. LiveNotGone /\ GraphsDisjoint
  BY DEF ProtocolInit, Init, LiveNotGone, Live, GraphsDisjoint
<1>3. FreshUnlinked /\ EdgesWithinProcedure
  BY DEF ProtocolInit, Init, FreshUnlinked, EdgesWithinProcedure, Unused
<1>4. stack = <<>> /\ saves = <<>> /\ phase = "no code"
  BY DEF ProtocolInit, Init
<1>5. saves \in Seq(Block) /\ Len(stack) <= 1
  BY <1>4, EmptyStack
<1>6. Discipline
  BY <1>4, <1>5 DEF Discipline
<1>7. QED
  BY <1>1, <1>2, <1>3, <1>4, <1>5, <1>6 DEF ProtocolInv, ProtocolTypeOK, Phases

\* Disciplined clients satisfy their invariant from the start.
LEMMA ProtocolInvariant == ProtocolSpec => []ProtocolInv
<1>1. ProtocolInit => ProtocolInv
  BY ProtocolStart
<1>2. QED BY <1>1, ProtocolStep, PTL DEF ProtocolSpec

\* A disciplined client is a client: every behaviour of BuilderProtocol is one
\* of ControlGraph, so everything proved of the builder holds for it.
THEOREM ProtocolIsClient == ProtocolSpec => Spec
<1>1. ProtocolInit => Init
  BY DEF ProtocolInit
<1>2. QED BY <1>1, ClientStep, ProtocolInvariant, PTL DEF ProtocolSpec, Spec

\* The client's state, its builder stack and the graphs keep their types, for
\* any sets of blocks and procedures.
THEOREM ProtocolTypesStay == ProtocolSpec => []ProtocolTypeOK
<1>1. ProtocolInv => ProtocolTypeOK
  BY DEF ProtocolInv
<1>2. QED BY <1>1, ProtocolInvariant, PTL

\* While a body is built, a pop brings back the block that was current at the
\* save it answers, whatever was entered, linked or created in between.
THEOREM PopsRestoreAlways == ProtocolSpec => []PopsRestore
<1>1. ProtocolInv => PopsRestore
  BY DEF ProtocolInv, Discipline, PopsRestore
<1>2. QED BY <1>1, ProtocolInvariant, PTL

\* No edge ever leaves a control-flow graph, although exit_function leaves the
\* last function's block on top of the stack.
THEOREM EdgesStayWithin == ProtocolSpec => []EdgesWithinProcedure
<1>1. ProtocolInv => EdgesWithinProcedure
  BY DEF ProtocolInv
<1>2. QED BY <1>1, ProtocolInvariant, PTL

\* The first block of a function stays the head of its graph while the Code is
\* being built.
THEOREM HeadNeverMoves == ProtocolSpec => HeadStays
<1> DEFINE Stays == \A p \in Proc :
                      head[p] # NoBlock /\ procs \subseteq procs' => head'[p] = head[p]
<1>1. ProtocolInv /\ HeadInGraph /\ [ProtocolNext]_protocolVars => [Stays]_vars
  <2> SUFFICES ASSUME ProtocolInv, HeadInGraph, ProtocolNext,
                      NEW p \in Proc, head[p] # NoBlock, procs \subseteq procs'
               PROVE  head'[p] = head[p]
    BY DEF protocolVars
  <2>1. head[p] \in graph[p] /\ p \in procs
    BY DEF HeadInGraph, ProtocolInv, GraphsDisjoint
  <2>2. ~(StartCode \/ TakeCode)
    BY <2>1 DEF StartCode, TakeCode, setup_code, getCode
  <2>3. ASSUME NEW b \in Block, Add(b) PROVE head'[p] = head[p]
    BY <2>1, <2>3 DEF Add, ProtocolInv, ProtocolTypeOK, TypeOK
  <2>4. UNCHANGED head \/ \E b \in Block : Add(b)
    BY <2>2
    DEF ProtocolNext, EnterFunction, OpenBody, Move, MoveExisting, Save,
        Restore, Draw, LeaveFunction, entry_function, entry_new_block,
        entry_block, entry_next_new, entry_else_new, entry_next_existing,
        entry_else_existing, push_block, save_and_entry, pop_block,
        newBasicBlock, setNext, setElse, exit_function, graphVars
  <2>5. QED BY <2>3, <2>4
<1>2. ProtocolSpec => []HeadInGraph
  BY ProtocolIsClient, HeadIsNode, PTL
<1>3. QED BY <1>1, <1>2, ProtocolInvariant, PTL DEF ProtocolSpec, HeadStays
===========================================================================
