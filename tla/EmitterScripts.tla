----------------------------- MODULE EmitterScripts -----------------------------
(***************************************************************************)
(* What execute() of IREmitter does with each kind of node: the sequence   *)
(* of builder calls it makes, visits of the node's parts among them.  A    *)
(* call is a tuple: its name and the part, slot or name it is about.       *)
(* Emitter.tla gives each call its effect.                                 *)
(*                                                                         *)
(* Nodes are those of Structured.tla; in addition a VarDecl may have no    *)
(* initialiser.                                                            *)
(***************************************************************************)
EXTENDS Integers, Sequences

\* An operand that is a constant, true or false.
Im(v) == [im |-> v]

\* emitBlock that leaves the emitted block on the stack.
EmitBlockUnpopped(slot, body) ==
  <<<<"save_and_entry", slot>>>> \o body \o <<<<"seal", slot>>>>

\* emitBlock around the calls in body.
EmitBlock(slot, body) ==
  <<<<"save_and_entry", slot>>>> \o body \o <<<<"pop_block">>, <<"seal", slot>>>>

\* emitBlock that is told not to seal.
EmitBlockOpen(slot, body) ==
  <<<<"save_and_entry", slot>>>> \o body \o <<<<"pop_block">>>>

\* createInst<br> that sets one target.
BranchNextOnly(t, targs, f, fargs) == <<<<"setNext", t>>, <<"br", targs, fargs>>>>

\* createInst<br>, with the arguments for the two targets.
Branch(t, targs, f, fargs) == <<<<"setNext", t>>, <<"setElse", f>>, <<"br", targs, fargs>>>>

\* And, Or and If leave the current block for good and go on in cont.
GoOn == <<<<"seal_current">>, <<"entry_block", "cont">>>>

\* And without an argument on the way that does not evaluate the right side.
AndWithoutFalse ==
  <<<<"newBasicBlock", "cont">>, <<"newBasicBlock", "true">>>>
  \o EmitBlock("true", <<<<"visit", 2>>, <<"jp_value", "cont">>>>)
  \o Branch("true", <<>>, "cont", <<>>)
  \o <<<<"add_arg", "cont">>>> \o GoOn \o <<<<"answer_arg", "cont">>>>

AndScript ==
  <<<<"newBasicBlock", "cont">>, <<"newBasicBlock", "true">>>>
  \o EmitBlock("true", <<<<"visit", 2>>, <<"jp_value", "cont">>>>)
  \o Branch("true", <<>>, "cont", <<Im(FALSE)>>)
  \o <<<<"add_arg", "cont">>>> \o GoOn \o <<<<"answer_arg", "cont">>>>

OrScript ==
  <<<<"newBasicBlock", "cont">>, <<"newBasicBlock", "false">>>>
  \o EmitBlock("false", <<<<"visit", 2>>, <<"jp_value", "cont">>>>)
  \o Branch("cont", <<Im(TRUE)>>, "false", <<>>)
  \o <<<<"add_arg", "cont">>>> \o GoOn \o <<<<"answer_arg", "cont">>>>

Arm(slot, part) == <<<<"newBasicBlock", slot>>>>
                   \o EmitBlock(slot, <<<<"visit", part>>, <<"jp", "cont">>>>)

IfScript(n) ==
  <<<<"newBasicBlock", "cont">>>>
  \o Arm("then", 2)
  \o (IF Len(n.kids) = 3 THEN Arm("else", 3) \o Branch("then", <<>>, "else", <<>>)
                         ELSE Branch("then", <<>>, "cont", <<>>))
  \o GoOn

WhileBlocks == <<<<"newBasicBlock", "cond">>, <<"newBasicBlock", "body">>,
                 <<"newBasicBlock", "cont">>, <<"push_cfd">>>>

WhileBody == EmitBlock("body", <<<<"visit", 2>>, <<"jp", "cont">>>>)

WhileEnd == <<<<"seal", "cond">>>> \o GoOn \o <<<<"pop_cfd">>>>

\* A while whose condition, when false, is tried again.
WhileScriptUnleft ==
  WhileBlocks
  \o EmitBlockOpen("cond", <<<<"visit", 1>>, <<"keep">>>> \o Branch("body", <<>>, "cond", <<>>))
  \o WhileBody \o <<<<"jp", "cond">>>> \o WhileEnd

\* A while without the jump into its condition.
WhileScriptUnentered ==
  WhileBlocks
  \o EmitBlockOpen("cond", <<<<"visit", 1>>, <<"keep">>>> \o Branch("body", <<>>, "cont", <<>>))
  \o WhileBody \o WhileEnd

WhileScript ==
  WhileBlocks
  \o EmitBlockOpen("cond", <<<<"visit", 1>>, <<"keep">>>> \o Branch("body", <<>>, "cont", <<>>))
  \o WhileBody \o <<<<"jp", "cond">>>> \o WhileEnd

\* A block works in a copy of the names that are live around it, and gives up
\* its remaining statements after a gateway.
BlockScript(n) ==
  <<<<"push_env">>>>
    \o [j \in 1..(2 * Len(n.kids)) |->
         IF j % 2 = 1 THEN <<"visit", (j + 1) \div 2>> ELSE <<"stop_if_term">>]
    \o <<<<"pop_env">>>>

VisitFirst(n) == IF n.kids = <<>> THEN <<>> ELSE <<<<"visit", 1>>>>

\* What execute(node) does first.
Script(n) ==
  CASE n.kind = "IntLiteral" -> <<<<"literal">>>>
    [] n.kind \in {"getint", "Call"} -> VisitFirst(n) \o <<<<"call">>>>
    [] n.kind = "DeclRef" -> <<<<"readVar">>>>
    [] n.kind = "Assign" -> <<<<"visit", 1>>, <<"assign">>>>
    [] n.kind = "VarDecl" -> VisitFirst(n) \o <<<<"declare">>>>
    [] n.kind \in {"And", "Or", "If"} -> <<<<"visit", 1>>, <<"decide">>>>
    [] n.kind = "While" -> WhileScript
    [] n.kind = "Break" -> <<<<"jp_loop", "cont">>, <<"seal_current">>>>
    [] n.kind = "Continue" -> <<<<"jp_loop", "cond">>, <<"seal_current">>>>
    [] n.kind = "Return" -> VisitFirst(n) \o <<<<"keep">>, <<"rt">>>>
    [] n.kind = "Block" -> BlockScript(n)

\* What it does when its condition is a constant, with And and Or confused.
FoldedConfused(n, v) ==
  CASE n.kind = "Or" /\ v -> <<<<"visit", 2>>>>
    [] n.kind = "And" /\ ~v -> <<<<"visit", 2>>>>
    [] n.kind = "If" /\ v -> <<<<"visit", 2>>>>
    [] n.kind = "If" /\ ~v /\ Len(n.kids) = 3 -> <<<<"visit", 3>>>>
    [] OTHER -> <<>>

\* What it does when its condition is a constant v.  A literal here stands for
\* a comparison of constants, which is folded: the tree wraps a bare literal
\* in ToCond, and execute(ToCond) goes on to emit a comparison of it.
Folded(n, v) ==
  CASE n.kind = "And" /\ v -> <<<<"visit", 2>>>>
    [] n.kind = "Or" /\ ~v -> <<<<"visit", 2>>>>
    [] n.kind = "If" /\ v -> <<<<"visit", 2>>>>
    [] n.kind = "If" /\ ~v /\ Len(n.kids) = 3 -> <<<<"visit", 3>>>>
    [] OTHER -> <<>>

\* What it does when its condition is a register.
Lowered(n) == CASE n.kind = "And" -> AndScript
                [] n.kind = "Or" -> OrScript
                [] n.kind = "If" -> IfScript(n)

\* execute(FuncDecl)
EmitFunction(f) == <<<<"push_env">>, <<"entry_function", f>>, <<"first_block">>, <<"param", f>>,
                     <<"body", f>>, <<"pop_env">>>>

\* enter: the functions in order, main last.
Unit(order) ==
  LET all == Append(order, "main")
  IN  <<<<"setup_code">>>>
        \o [j \in 1..(6 * Len(all)) |-> EmitFunction(all[(j + 5) \div 6])[((j + 5) % 6) + 1]]
============================================================================
