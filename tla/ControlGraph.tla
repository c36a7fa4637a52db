--------------------------- MODULE ControlGraph ---------------------------
(***************************************************************************)
(* The control-flow graphs of SysYust's IR and the cursor that builds      *)
(* them: BasicBlock (edges), ControlFlow (node pool and head), and the     *)
(* block stack that CodeBuildMixin keeps through ContextualMixin.  Every   *)
(* method of CodeBuildMixin that changes the graph or the stack is an      *)
(* action; the caller is free to call them in any order, as long as it     *)
(* dereferences no block that has left the builder.                        *)
(*                                                                         *)
(* Blocks are addresses.  `gone` remembers every address that has left     *)
(* the builder; it is not handed out again, so a dangling reference stays  *)
(* recognisable.  A predecessor list is a bag, written as a count per      *)
(* block, because nothing reads its order.                                 *)
(***************************************************************************)
EXTENDS Integers, Sequences

CONSTANTS
  Block,     (* addresses a basic block can have                           *)
  Proc,      (* procedures                                                 *)
  NoBlock,   (* nullptr                                                    *)
  NoProc,    (* nullptr                                                    *)
  MaxDepth   (* bound on the block stack: pushes beyond it are not taken   *)

ASSUME ControlGraphAssumption ==
  /\ NoBlock \notin Block
  /\ NoProc \notin Proc
  /\ MaxDepth \in Nat \ {0}

VARIABLES
  hasCode,   (* _ir_code is not null                                       *)
  procs,     (* procedures set up in the current Code                      *)
  proc,      (* _current_procedure                                         *)
  graph,     (* ControlFlow::_nodes of each procedure                      *)
  head,      (* ControlFlow::_head of each procedure                       *)
  succ,      (* BasicBlock::trueTarget                                     *)
  alt,       (* BasicBlock::falseTarget                                    *)
  preds,     (* BasicBlock::_prevBlock, as counts: preds[t][b]             *)
  stack,     (* ContextualMixin::_block_stack, its top is the last element *)
  gone       (* ghost: addresses that were erased, deleted or handed out   *)

edgeVars == <<succ, alt, preds>>
graphVars == <<graph, head>>
codeVars == <<hasCode, procs, proc>>
vars == <<hasCode, procs, proc, graph, head, succ, alt, preds, stack, gone>>

BlockOrNull == Block \cup {NoBlock}
Live == UNION {graph[p] : p \in Proc}
NoEdges == [b \in Block |-> 0]
Unused == Block \ (Live \cup gone)

TypeOK ==
  /\ hasCode \in BOOLEAN
  /\ procs \subseteq Proc
  /\ proc \in procs \cup {NoProc}
  /\ graph \in [Proc -> SUBSET Block]
  /\ head \in [Proc -> BlockOrNull]
  /\ succ \in [Block -> BlockOrNull]
  /\ alt \in [Block -> BlockOrNull]
  /\ preds \in [Block -> [Block -> Nat]]
  /\ stack \in Seq(BlockOrNull)
  /\ gone \subseteq Block

Init ==
  /\ hasCode = FALSE
  /\ procs = {}
  /\ proc = NoProc
  /\ graph = [p \in Proc |-> {}]
  /\ head = [p \in Proc |-> NoBlock]
  /\ succ = [b \in Block |-> NoBlock]
  /\ alt = [b \in Block |-> NoBlock]
  /\ preds = [b \in Block |-> NoEdges]
  /\ stack = <<>>
  /\ gone = {}

---------------------------------------------------------------------------
(* The block stack.                                                        *)

Top(s) == IF s = <<>> THEN NoBlock ELSE s[Len(s)]

current_block == Top(stack)

\* set_basic_block replaces the top, or pushes onto an empty stack.
Replaced(s, b) == IF s = <<>> THEN <<b>> ELSE [s EXCEPT ![Len(s)] = b]

\* save_basic_block duplicates the top, unless there is none or it is null.
Saved(s) == IF Top(s) = NoBlock THEN s ELSE Append(s, Top(s))

\* pop_basic_block on an empty stack does nothing.
Popped(s) == IF s = <<>> THEN s ELSE SubSeq(s, 1, Len(s) - 1)

---------------------------------------------------------------------------
(* The edges of a block.                                                   *)

\* Unlinking by value: every occurrence of b goes.
UnlinkedAll(ps, b, old) ==
  IF old # NoBlock THEN [ps EXCEPT ![old][b] = 0] ELSE ps

\* Remove one occurrence of b from the predecessors of its old target.
Unlinked(ps, b, old) ==
  IF old # NoBlock /\ ps[old][b] > 0
    THEN [ps EXCEPT ![old][b] = @ - 1]
    ELSE ps

\* Leave the old target's predecessors, join those of the new target t.
Relinked(ps, b, old, t) == [Unlinked(ps, b, old) EXCEPT ![t][b] = @ + 1]

\* The caller must not dereference an address that is no longer a block.
Dereferenceable(b) == b = NoBlock \/ b \in Live

\* BasicBlock::setNext on block b.
LinkNext(b, t) ==
  /\ Dereferenceable(succ[b])
  /\ preds' = Relinked(preds, b, succ[b], t)
  /\ succ' = [succ EXCEPT ![b] = t]
  /\ UNCHANGED alt

\* BasicBlock::setElse on block b.
LinkElse(b, t) ==
  /\ Dereferenceable(alt[b])
  /\ preds' = Relinked(preds, b, alt[b], t)
  /\ alt' = [alt EXCEPT ![b] = t]
  /\ UNCHANGED succ

\* Every new node becomes the head.
AddAlwaysHead(b) ==
  /\ b \in Unused
  /\ graph' = [graph EXCEPT ![proc] = @ \cup {b}]
  /\ head' = [head EXCEPT ![proc] = b]

\* One pool for all graphs, which hands out any node this graph lacks.
AddFromSharedPool(b) ==
  /\ b \in Block \ (graph[proc] \cup gone)
  /\ graph' = [graph EXCEPT ![proc] = @ \cup {b}]
  /\ head' = IF graph[proc] = {} THEN [head EXCEPT ![proc] = b] ELSE head

\* ControlFlow::add in the current procedure, at address b.
Add(b) ==
  /\ b \in Unused
  /\ graph' = [graph EXCEPT ![proc] = @ \cup {b}]
  /\ head' = IF graph[proc] = {} THEN [head EXCEPT ![proc] = b] ELSE head

---------------------------------------------------------------------------
(* Code and procedures.                                                    *)

\* setup_code that starts a new Code without clearing the context.
setup_code_keeping_context ==
  /\ hasCode' = TRUE
  /\ procs' = {}
  /\ graph' = [p \in Proc |-> {}]
  /\ head' = [p \in Proc |-> NoBlock]
  /\ gone' = gone \cup Live
  /\ UNCHANGED <<proc, stack, edgeVars>>

\* setup_code: delete the Code held, clear the context, start a new Code.
setup_code ==
  /\ hasCode' = TRUE
  /\ procs' = {}
  /\ proc' = NoProc
  /\ graph' = [p \in Proc |-> {}]
  /\ head' = [p \in Proc |-> NoBlock]
  /\ gone' = gone \cup Live
  /\ stack' = <<>>
  /\ UNCHANGED edgeVars

\* getCode: the Code, if any, leaves the builder, and the context is cleared.
getCode ==
  /\ hasCode' = FALSE
  /\ procs' = {}
  /\ proc' = NoProc
  /\ graph' = [p \in Proc |-> {}]
  /\ head' = [p \in Proc |-> NoBlock]
  /\ gone' = gone \cup Live
  /\ stack' = <<>>
  /\ UNCHANGED edgeVars

\* A procedure made current without becoming part of the Code.
entry_detached_function(p) ==
  /\ hasCode
  /\ p \notin procs
  /\ proc' = p
  /\ UNCHANGED <<hasCode, procs, graphVars, edgeVars, stack, gone>>

\* entry_function sets up a new procedure and makes it current.
entry_function(p) ==
  /\ hasCode
  /\ p \notin procs
  /\ procs' = procs \cup {p}
  /\ proc' = p
  /\ UNCHANGED <<hasCode, graphVars, edgeVars, stack, gone>>

\* exit_function leaves the procedure; the block stack stays as it is.
exit_function ==
  /\ proc # NoProc
  /\ proc' = NoProc
  /\ UNCHANGED <<hasCode, procs, graphVars, edgeVars, stack, gone>>

---------------------------------------------------------------------------
(* Blocks.                                                                 *)

\* newBasicBlock inside a procedure: a detached node of its graph.
newBasicBlock(b) ==
  /\ proc # NoProc
  /\ Add(b)
  /\ UNCHANGED <<codeVars, edgeVars, stack, gone>>

\* entry_block(): a new block becomes the top of the stack.
entry_new_block(b) ==
  /\ proc # NoProc
  /\ Add(b)
  /\ stack' = Replaced(stack, b)
  /\ UNCHANGED <<codeVars, edgeVars, gone>>

\* entry_block() outside every procedure: newBasicBlock returns nullptr.
entry_no_block ==
  /\ proc = NoProc
  /\ stack' = Replaced(stack, NoBlock)
  /\ UNCHANGED <<codeVars, graphVars, edgeVars, gone>>

\* entry_block(blk)
entry_block(b) ==
  /\ stack' = Replaced(stack, b)
  /\ UNCHANGED <<codeVars, graphVars, edgeVars, gone>>

\* The stack an entry_ method starts from: push_block runs first in the
\* save_and_ variants.
PushIf(s, save) == IF save THEN Saved(s) ELSE s

\* entry_next and save_and_next when the top has a true successor.
entry_next_existing(save) ==
  /\ current_block \in Live
  /\ succ[current_block] # NoBlock
  /\ Len(PushIf(stack, save)) <= MaxDepth
  /\ stack' = Replaced(PushIf(stack, save), succ[current_block])
  /\ UNCHANGED <<codeVars, graphVars, edgeVars, gone>>

\* entry_next and save_and_next when the top has none: create and link it.
entry_next_new(b, save) ==
  /\ current_block \in Live
  /\ succ[current_block] = NoBlock
  /\ proc # NoProc
  /\ Len(PushIf(stack, save)) <= MaxDepth
  /\ Add(b)
  /\ LinkNext(current_block, b)
  /\ stack' = Replaced(PushIf(stack, save), b)
  /\ UNCHANGED <<codeVars, gone>>

\* entry_else and save_and_else when the top has a false successor.
entry_else_existing(save) ==
  /\ current_block \in Live
  /\ alt[current_block] # NoBlock
  /\ Len(PushIf(stack, save)) <= MaxDepth
  /\ stack' = Replaced(PushIf(stack, save), alt[current_block])
  /\ UNCHANGED <<codeVars, graphVars, edgeVars, gone>>

\* entry_else and save_and_else when the top has none: create and link it.
entry_else_new(b, save) ==
  /\ current_block \in Live
  /\ alt[current_block] = NoBlock
  /\ proc # NoProc
  /\ Len(PushIf(stack, save)) <= MaxDepth
  /\ Add(b)
  /\ LinkElse(current_block, b)
  /\ stack' = Replaced(PushIf(stack, save), b)
  /\ UNCHANGED <<codeVars, gone>>

\* entry_next or entry_else with a null top: top_block pushes nullptr onto an
\* empty stack, and the slot receives an unlinked new block.
entry_from_null(b) ==
  /\ current_block = NoBlock
  /\ proc # NoProc
  /\ Add(b)
  /\ stack' = Replaced(stack, b)
  /\ UNCHANGED <<codeVars, edgeVars, gone>>

push_block ==
  /\ Len(Saved(stack)) <= MaxDepth
  /\ stack' = Saved(stack)
  /\ UNCHANGED <<codeVars, graphVars, edgeVars, gone>>

save_and_entry(b) ==
  /\ Len(Saved(stack)) <= MaxDepth
  /\ stack' = Replaced(Saved(stack), b)
  /\ UNCHANGED <<codeVars, graphVars, edgeVars, gone>>

pop_block ==
  /\ stack' = Popped(stack)
  /\ UNCHANGED <<codeVars, graphVars, edgeVars, gone>>

\* CodeBuildMixin::setNext links the top block, if there is one.
setNext(t) ==
  /\ current_block \in Live
  /\ LinkNext(current_block, t)
  /\ UNCHANGED <<codeVars, graphVars, stack, gone>>

\* CodeBuildMixin::setElse links the top block, if there is one.
setElse(t) ==
  /\ current_block \in Live
  /\ LinkElse(current_block, t)
  /\ UNCHANGED <<codeVars, graphVars, stack, gone>>

\* setNext or setElse with a null top: top_block pushes nullptr onto an empty
\* stack, and nothing is linked.
link_from_null ==
  /\ current_block = NoBlock
  /\ stack' = Replaced(stack, NoBlock)
  /\ UNCHANGED <<codeVars, graphVars, edgeVars, gone>>

\* The erased head stays the head.
EraseKeepingHead(p, b) ==
  /\ b \in graph[p]
  /\ graph' = [graph EXCEPT ![p] = @ \ {b}]
  /\ gone' = gone \cup {b}
  /\ UNCHANGED <<codeVars, head, edgeVars, stack>>

\* ControlFlow::erase: only the node goes, what refers to it stays.
erase(p, b) ==
  /\ b \in graph[p]
  /\ graph' = [graph EXCEPT ![p] = @ \ {b}]
  /\ head' = IF head[p] = b THEN [head EXCEPT ![p] = NoBlock] ELSE head
  /\ gone' = gone \cup {b}
  /\ UNCHANGED <<codeVars, edgeVars, stack>>

Next ==
  \/ setup_code
  \/ getCode
  \/ \E p \in Proc : entry_function(p)
  \/ exit_function
  \/ \E b \in Block : newBasicBlock(b)
  \/ \E b \in Block : entry_new_block(b)
  \/ entry_no_block
  \/ \E b \in Live : entry_block(b)
  \/ \E save \in BOOLEAN : entry_next_existing(save)
  \/ \E b \in Block, save \in BOOLEAN : entry_next_new(b, save)
  \/ \E save \in BOOLEAN : entry_else_existing(save)
  \/ \E b \in Block, save \in BOOLEAN : entry_else_new(b, save)
  \/ \E b \in Block : entry_from_null(b)
  \/ push_block
  \/ \E b \in Live : save_and_entry(b)
  \/ pop_block
  \/ \E t \in Live : setNext(t)
  \/ \E t \in Live : setElse(t)
  \/ link_from_null
  \/ \E p \in Proc, b \in Block : erase(p, b)

Spec == Init /\ [][Next]_vars

---------------------------------------------------------------------------
(* Properties.                                                             *)

\* The edges from b to t: one per target field that holds t.
EdgeCount(b, t) ==
  (IF succ[b] = t THEN 1 ELSE 0) + (IF alt[b] = t THEN 1 ELSE 0)

\* Between blocks that never left the builder, the predecessor list of t holds
\* b exactly once per edge from b to t, after any sequence of setNext, setElse
\* and entry_ calls: retargeting, self-loops and both edges on one target
\* (BasicBlock.cpp, setNext and setElse).
EdgesMatch ==
  \A b \in Block \ gone, t \in Block \ gone : preds[t][b] = EdgeCount(b, t)

\* The head of a graph is null or one of its nodes, also after the head was
\* erased and nodes were added again (ControlFlow.cpp, add and erase).
HeadInGraph == \A p \in Proc : head[p] # NoBlock => head[p] \in graph[p]

\* No block belongs to two procedures, and only procedures of the current Code
\* have blocks (ControlFlow owns its nodes; setup_code and getCode).
GraphsDisjoint ==
  /\ \A p \in Proc : graph[p] # {} => p \in procs
  /\ \A p, q \in Proc : p # q => graph[p] \cap graph[q] = {}
===========================================================================
