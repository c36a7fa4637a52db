------------------------------ MODULE Interpreter ------------------------------
(***************************************************************************)
(* The tree interpreter.  execute() visits a node by calling itself on the *)
(* node's parts: `frames' is that C++ call stack, pc the number of parts   *)
(* already visited.  A visit answers through the one register              *)
(* _return_value: nothing, a value, or a control-flow transfer (break,     *)
(* continue, return) that every visit on the way must hand on until a      *)
(* While or a Call takes it.  Variables live in a stack of contexts.       *)
(*                                                                         *)
(* Values are 0 and 1, input comes from the built-in getint, functions     *)
(* have at most one parameter; arrays, arithmetic and output are left out. *)
(* Nodes and programs are those of Structured.tla, whose specification     *)
(* the interpreter implements.                                             *)
(***************************************************************************)
EXTENDS Integers, Sequences, FiniteSets

CONSTANTS
  Programs,  \* the programs considered
  Nodes,     \* the nodes of each program, with where they stand
  MaxCalls,  \* bound: calls that fit on the C++ stack
  NoValue,   \* a return without value
  NoPlace    \* a frame that is not assigning

---------------------------------------------------------------------------
(* Programs of the language (the tree builder does not reject all others). *)
(* A node stands with what is asked of it ("value": its value is used;     *)
(* "constant": it initialises a global; "loop": a loop is around it;       *)
(* "result": its function has one) and with the names declared there.      *)

Expressions == {"IntLiteral", "getint", "DeclRef", "And", "Or", "Call"}
Statements  == {"VarDecl", "Assign", "If", "While", "Break", "Continue", "Return", "Block"}

\* How many parts a node can have.
Arities(kind) ==
  CASE kind \in {"IntLiteral", "getint", "DeclRef", "Break", "Continue"} -> {0}
    [] kind \in {"Call", "Return"} -> {0, 1}
    [] kind \in {"VarDecl", "Assign"} -> {1}
    [] kind \in {"And", "Or", "While"} -> {2}
    [] kind = "If" -> {2, 3}
    [] kind = "Block" -> Nat

\* The parts that are visited by evalExpr, or answer in their parent's stead.
IsEvaluated(kind, i) ==
  \/ kind \in {"And", "Or", "Call", "VarDecl", "Assign", "Return"}
  \/ kind \in {"If", "While"} /\ i = 1

\* What is asked of part i of a node of which asks are asked.
AskedOf(kind, i, asks) ==
  IF IsEvaluated(kind, i) THEN {"value"} \cup (asks \cap {"constant"})
  ELSE IF kind = "While" THEN asks \cup {"loop"} ELSE asks

\* The names that the first k of some nodes declare.
Declared(ns, k) == {ns[j].name : j \in {i \in 1..k : ns[i].kind = "VarDecl"}}

NamesAt(n, i, names) ==
  IF n.kind = "Block" THEN names \cup Declared(n.kids, i - 1) ELSE names

Globals(p) == Declared(p.globals, Len(p.globals))
Params(f) == IF f.param = "" THEN {} ELSE {f.param}
BodyAsks(f) == IF f.result = "void" THEN {} ELSE {"result"}

CallFits(p, n, asks) ==
  /\ n.name \in DOMAIN p.funcs
  /\ Len(n.kids) = Cardinality(Params(p.funcs[n.name]))
  /\ "constant" \notin asks
  /\ "value" \in asks => p.funcs[n.name].result # "void"

Fits(p, n, asks, names) ==
  /\ n.kind \in Expressions \cup Statements
  /\ n.kids \in Seq({n.kids[i] : i \in DOMAIN n.kids}) /\ Len(n.kids) \in Arities(n.kind)
  /\ "value" \in asks => n.kind \in Expressions
  /\ n.kind \in {"Break", "Continue"} => "loop" \in asks
  /\ n.kind = "Return" /\ "result" \in asks => n.kids # <<>>
  /\ n.kind \in {"DeclRef", "Assign"} => n.name \in names
  /\ n.kind = "Call" => CallFits(p, n, asks)

WellFormed(p, nodes) ==
  /\ \A nd \in nodes :
       /\ Fits(p, nd[1], nd[2], nd[3])
       /\ \A i \in DOMAIN nd[1].kids :
            <<nd[1].kids[i], AskedOf(nd[1].kind, i, nd[2]), NamesAt(nd[1], i, nd[3])>> \in nodes
  /\ p.globals \in Seq({p.globals[i] : i \in DOMAIN p.globals})
  /\ \A i \in DOMAIN p.globals :
       /\ p.globals[i].kind = "VarDecl"
       /\ <<p.globals[i], {"constant"}, Declared(p.globals, i - 1)>> \in nodes
  /\ <<p.main, {"result"}, Globals(p)>> \in nodes
  /\ \A f \in DOMAIN p.funcs :
       <<p.funcs[f].body, BodyAsks(p.funcs[f]), Globals(p) \cup Params(p.funcs[f])>> \in nodes

ASSUME ProgramsAssumption ==
  /\ NoValue \notin BOOLEAN
  /\ \A p \in Programs : WellFormed(p, Nodes[p])

VARIABLES
  program,       \* _ast
  frames,        \* the active execute() calls, innermost last
  return_value,  \* _return_value
  scopes,        \* _context_stack (and _env_stack, always moved together)
  status         \* "running", "exited" or "aborted"

vars == <<program, frames, return_value, scopes, status>>

---------------------------------------------------------------------------
(* _return_value                                                           *)

None       == [is |-> "none", v |-> NoValue]
Value(v)   == [is |-> "value", v |-> v]
Breaking   == [is |-> "break", v |-> NoValue]
Continuing == [is |-> "continue", v |-> NoValue]
Returned(v) == [is |-> "return", v |-> v]

_isNone  == return_value.is = "none"
_isValue == return_value.is = "value"
_isCFD   == ~_isNone /\ ~_isValue

---------------------------------------------------------------------------
(* The contexts.  A scope has the variables it declares (vals) and says    *)
(* where each name it holds is stored: <<scope, name>>.                    *)

Nothing == <<>>  \* a function without arguments

Scope(parent, refs) == [parent |-> parent, refs |-> refs, vals |-> Nothing]

\* A context whose parent is taken after the push: itself.
NestedInItself == Append(scopes, Scope(Len(scopes) + 1, Nothing))

\* pushCtxEnv: a block's context continues the one on top.
Nested == Append(scopes, Scope(Len(scopes), Nothing))

\* A call that keeps the caller's names.
CalledNested == Append(scopes, Scope(Len(scopes), Nothing))

\* pushFuncCallEnv: a call starts from a copy of the global context.
Called == Append(scopes, Scope(0, scopes[1].refs))

Popped == SubSeq(scopes, 1, Len(scopes) - 1)

\* A map with the entries of g where f has none.
Over(f, g) == [x \in DOMAIN f \cup DOMAIN g |-> IF x \in DOMAIN f THEN f[x] ELSE g[x]]

\* A map after an assignment to its entry x.
Put(f, x, v) == [y \in {x} \cup DOMAIN f |-> IF y = x THEN v ELSE f[y]]

\* The names each context sees: its own, then its parents'.
SeenIn(ss) ==
  LET names[i \in 0..Len(ss)] ==
        IF i = 0 THEN Nothing ELSE Over(ss[i].refs, names[ss[i].parent])
  IN  names
Visible == SeenIn(scopes)

\* SymbolTable::getInfo: this context, then its parents.
getInfo(x) == Visible[Len(scopes)][x]

\* setInfo writes the context on top only.
setInfo(ss, x, v) ==
  LET d == Len(ss)
  IN  [ss EXCEPT ![d] = [parent |-> @.parent, refs |-> Put(@.refs, x, <<d, x>>),
                         vals |-> Put(@.vals, x, v)]]

ValueAt(place) == scopes[place[1]].vals[place[2]]

---------------------------------------------------------------------------
(* Calling and returning from execute().                                   *)

Frame(n, pc) == [node |-> n, pc |-> pc, place |-> NoPlace]

Top == frames[Len(frames)]
At(kind, pc) == status = "running" /\ Top.node.kind = kind /\ Top.pc = pc

Below == SubSeq(frames, 1, Len(frames) - 1)

\* Visits node n and continues the frame on top at pc.
Visit(pc, n) == frames' = Append(Below, [Top EXCEPT !.pc = pc]) \o <<Frame(n, 0)>>

\* Leaves the frame on top with an answer.
Answer(r) == frames' = Below /\ return_value' = r

Kid(i) == Top.node.kids[i]

Abort == status' = "aborted" /\ UNCHANGED <<program, frames, return_value, scopes>>

\* enter: the globals in order, then the body of main.
Entry(p) == [kind |-> "Enter", name |-> "", kids |-> Append(p.globals, p.main)]

Init == /\ program \in Programs
        /\ frames = <<Frame(Entry(program), 0)>>
        /\ return_value = None
        /\ scopes = <<Scope(0, Nothing)>>
        /\ status = "running"

---------------------------------------------------------------------------
(* enter                                                                   *)

EnterNext == /\ status = "running"
             /\ Top.node.kind = "Enter"
             /\ Top.pc < Len(Top.node.kids)
             /\ Visit(Top.pc + 1, Kid(Top.pc + 1))
             /\ UNCHANGED <<program, return_value, scopes, status>>

EnterDone == /\ status = "running"
             /\ Top.node.kind = "Enter"
             /\ Top.pc = Len(Top.node.kids)
             /\ IF return_value.is = "return" /\ return_value.v # NoValue
                THEN /\ status' = "exited"
                     /\ frames' = <<>>
                     /\ scopes' = Popped
                     /\ UNCHANGED <<program, return_value>>
                ELSE Abort

---------------------------------------------------------------------------
(* Expressions                                                             *)

IntLiteral == /\ At("IntLiteral", 0)
              /\ Answer(Value(Top.node.name = "1"))
              /\ UNCHANGED <<program, scopes, status>>

getint == /\ At("getint", 0)
          /\ \E v \in BOOLEAN : Answer(Value(v))
          /\ UNCHANGED <<program, scopes, status>>

DeclRef == /\ At("DeclRef", 0)
           /\ Answer(Value(ValueAt(getInfo(Top.node.name))))
           /\ UNCHANGED <<program, scopes, status>>

AndOrLeft == /\ At("And", 0) \/ At("Or", 0)
             /\ Visit(1, Kid(1))
             /\ UNCHANGED <<program, return_value, scopes, status>>

AndOrDecide == /\ At("And", 1) \/ At("Or", 1)
               /\ IF return_value.v = (Top.node.kind = "And")
                  THEN Visit(2, Kid(2)) /\ return_value' = None
                  ELSE Answer(return_value)
               /\ UNCHANGED <<program, scopes, status>>

AndOrRight == /\ At("And", 2) \/ At("Or", 2)
              /\ Answer(return_value)
              /\ UNCHANGED <<program, scopes, status>>

---------------------------------------------------------------------------
(* Call                                                                    *)

Callee == program.funcs[Top.node.name]
HasArgument == Top.node.kids # <<>>

ActiveCalls == Cardinality({i \in DOMAIN frames :
                              frames[i].node.kind = "Call" /\ frames[i].pc = 2})

CallArgument == /\ At("Call", 0)
                /\ HasArgument
                /\ Visit(1, Kid(1))
                /\ UNCHANGED <<program, return_value, scopes, status>>

ArgumentsReady == IF HasArgument THEN At("Call", 1) ELSE At("Call", 0)

\* The new context, ParamDecl's binding of a copy of the argument, the body.
CallBody == /\ status = "running"
            /\ ArgumentsReady
            /\ ActiveCalls < MaxCalls
            /\ scopes' = IF HasArgument THEN setInfo(Called, Callee.param, return_value.v)
                                        ELSE Called
            /\ Visit(2, Callee.body)
            /\ return_value' = None
            /\ UNCHANGED <<program, status>>

\* The C++ stack has an end.
CallOverflow == /\ status = "running"
                /\ ArgumentsReady
                /\ ActiveCalls >= MaxCalls
                /\ Abort

\* A call that hands the return on as it came.
CallAnswerRaw(r) == r

\* What the body answered, as the value of the call.
CallAnswer(r) == IF r.is = "return" /\ r.v # NoValue THEN Value(r.v) ELSE None

CallDone == /\ At("Call", 2)
            /\ (_isCFD \/ Callee.result = "void")
            /\ scopes' = Popped
            /\ Answer(CallAnswer(return_value))
            /\ UNCHANGED <<program, status>>

\* "No explict return statement": asserted to be a function without result.
CallWithoutResult == /\ At("Call", 2)
                     /\ ~_isCFD
                     /\ Callee.result # "void"
                     /\ Abort

---------------------------------------------------------------------------
(* Declarations and assignments                                            *)

VarDecl == /\ At("VarDecl", 0)
           /\ Visit(1, Kid(1))
           /\ UNCHANGED <<program, return_value, scopes, status>>

VarDeclSet == /\ At("VarDecl", 1)
              /\ scopes' = setInfo(scopes, Top.node.name, return_value.v)
              /\ Answer(None)
              /\ UNCHANGED <<program, status>>

\* The left side is evaluated first: the place is known before the value.
Assign == /\ At("Assign", 0)
          /\ frames' = Append(Below, [Top EXCEPT !.pc = 1, !.place = getInfo(Top.node.name)])
                       \o <<Frame(Kid(1), 0)>>
          /\ UNCHANGED <<program, return_value, scopes, status>>

AssignSet == /\ At("Assign", 1)
             /\ scopes' = [scopes EXCEPT ![Top.place[1]].vals[Top.place[2]] = return_value.v]
             /\ Answer(None)
             /\ UNCHANGED <<program, status>>

---------------------------------------------------------------------------
(* Control flow                                                            *)

If == /\ At("If", 0)
      /\ Visit(1, Kid(1))
      /\ UNCHANGED <<program, return_value, scopes, status>>

IfArm == /\ At("If", 1)
         /\ LET arm == IF return_value.v THEN 2 ELSE 3
            IN  IF arm \in DOMAIN Top.node.kids
                THEN Visit(2, Kid(arm)) /\ return_value' = None
                ELSE Answer(None)
         /\ UNCHANGED <<program, scopes, status>>

\* Whatever the arm answered is the answer of the if.
IfDone == /\ At("If", 2)
          /\ Answer(return_value)
          /\ UNCHANGED <<program, scopes, status>>

While == /\ At("While", 0)
         /\ Visit(1, Kid(1))
         /\ UNCHANGED <<program, return_value, scopes, status>>

WhileTest == /\ At("While", 1)
             /\ IF return_value.v THEN Visit(2, Kid(2)) /\ return_value' = None
                                  ELSE Answer(None)
             /\ UNCHANGED <<program, scopes, status>>

\* A continue taken for a break.
WhileEndsOnAnyTransfer == _isCFD

\* The transfers that end the loop, and what the loop then answers.
WhileEnds == return_value.is \in {"break", "return"}
WhileAnswer == IF return_value.is = "return" THEN return_value ELSE None

WhileBody == /\ At("While", 2)
             /\ IF WhileEnds THEN Answer(WhileAnswer)
                             ELSE Visit(1, Kid(1)) /\ return_value' = None
             /\ UNCHANGED <<program, scopes, status>>

Break == /\ At("Break", 0)
         /\ Answer(Breaking)
         /\ UNCHANGED <<program, scopes, status>>

Continue == /\ At("Continue", 0)
            /\ Answer(Continuing)
            /\ UNCHANGED <<program, scopes, status>>

ReturnNothing == /\ At("Return", 0)
                 /\ Top.node.kids = <<>>
                 /\ Answer(Returned(NoValue))
                 /\ UNCHANGED <<program, scopes, status>>

Return == /\ At("Return", 0)
          /\ Top.node.kids # <<>>
          /\ Visit(1, Kid(1))
          /\ UNCHANGED <<program, return_value, scopes, status>>

ReturnValue == /\ At("Return", 1)
               /\ Answer(Returned(return_value.v))
               /\ UNCHANGED <<program, scopes, status>>

\* A block's pc is one more than the statements visited.
Block == /\ At("Block", 0)
         /\ scopes' = Nested
         /\ frames' = Append(Below, [Top EXCEPT !.pc = 1])
         /\ UNCHANGED <<program, return_value, status>>

InBlock == /\ status = "running"
           /\ Top.node.kind = "Block"
           /\ Top.pc > 0

\* A transfer passes every statement that is left.
BlockEnds == _isCFD \/ Top.pc > Len(Top.node.kids)

\* A transfer that leaves the block's context on the stack.
PoppedAtEndOnly == IF _isCFD THEN scopes ELSE Popped

ScopesAfterBlock == Popped

\* A value of an expression statement is dropped.
BlockNext == /\ InBlock
             /\ ~BlockEnds
             /\ Visit(Top.pc + 1, Kid(Top.pc))
             /\ return_value' = None
             /\ UNCHANGED <<program, scopes, status>>

BlockDone == /\ InBlock
             /\ BlockEnds
             /\ scopes' = ScopesAfterBlock
             /\ Answer(IF _isCFD THEN return_value ELSE None)
             /\ UNCHANGED <<program, status>>

Done == status # "running" /\ UNCHANGED <<program, frames, return_value, scopes, status>>

Next ==
  \/ EnterNext \/ EnterDone
  \/ IntLiteral \/ getint \/ DeclRef
  \/ AndOrLeft \/ AndOrDecide \/ AndOrRight
  \/ CallArgument \/ CallBody \/ CallOverflow \/ CallDone \/ CallWithoutResult
  \/ VarDecl \/ VarDeclSet \/ Assign \/ AssignSet
  \/ If \/ IfArm \/ IfDone \/ While \/ WhileTest \/ WhileBody
  \/ Break \/ Continue \/ ReturnNothing \/ Return \/ ReturnValue
  \/ Block \/ BlockNext \/ BlockDone
  \/ Done

\* The interpreter is one thread that never waits: it runs until it is done.
Spec == Init /\ [][Next]_vars /\ WF_vars(Next)

---------------------------------------------------------------------------
(* Properties                                                              *)

Kinds == {"Enter"} \cup Expressions \cup Statements

\* The interpreter's state keeps its shape: _return_value is one of the five
\* answers, and every context's parent lies below it on the stack.
TypeOK ==
  /\ program \in Programs
  /\ \A i \in DOMAIN frames :
       /\ frames[i].node.kind \in Kinds
       /\ frames[i].pc \in 0..(Len(frames[i].node.kids) + 2)
       /\ frames[i].pc = 0 => i = Len(frames)
  /\ return_value \in {None, Breaking, Continuing}
                        \union {Value(v) : v \in BOOLEAN}
                        \union {Returned(v) : v \in BOOLEAN \union {NoValue}}
  /\ \A d \in DOMAIN scopes :
       /\ scopes[d].parent \in 0..(d - 1)
       /\ DOMAIN scopes[d].vals \subseteq DOMAIN scopes[d].refs
       /\ \A x \in DOMAIN scopes[d].vals : scopes[d].vals[x] \in BOOLEAN
  /\ status \in {"running", "exited", "aborted"}

\* The frames that own a context.
OwnsScope(f) == \/ f.node.kind = "Block" /\ f.pc > 0
                \/ f.node.kind = "Call" /\ f.pc = 2

ScopesOf(i) == 1 + Cardinality({j \in 1..i : OwnsScope(frames[j])})

\* However a block or a call is left -- through its end, a break, a
\* continue or a return from any depth -- exactly its own context goes, and
\* enter's assertion of a single context at the end holds.
ContextsBalanced == status = "running" => Len(scopes) = ScopesOf(Len(frames))

\* The frames that are in evalExpr.
Evaluating(f) == f.pc = 1 /\ f.node.kind \in {"If", "While", "Assign", "VarDecl",
                                               "And", "Or", "Return", "Call"}

\* evalExpr's assertions: an expression always answers a value, never
\* nothing and never a control-flow transfer.
ExpressionsYieldValues ==
  (status = "running" /\ Evaluating(Top)) => _isValue

---------------------------------------------------------------------------
(* The structured program that the frames stand for.                       *)

Task(kind, n) == [task |-> kind, node |-> n]

\* What frame i has left to do, its next task first.
TasksOf(i) ==
  LET f    == frames[i]
      n    == f.node
      rest(k) == [j \in 1..(Len(n.kids) - k) |-> Task("run", n.kids[j + k])]
      outer == Visible[ScopesOf(i) - 1]
  IN  CASE n.kind = "Enter" -> rest(f.pc) \o <<[task |-> "exit"]>>
        [] n.kind # "Enter" /\ f.pc = 0 -> <<Task("run", n)>>
        [] n.kind = "Block" /\ f.pc > 0 ->
             rest(f.pc - 1) \o <<[task |-> "leave", env |-> outer]>>
        [] n.kind = "While" /\ f.pc = 1 -> <<Task("use", n), Task("loop", n)>>
        [] n.kind = "While" /\ f.pc = 2 -> <<Task("loop", n)>>
        [] n.kind = "Call" /\ f.pc = 2 ->
             <<[task |-> "back", result |-> program.funcs[n.name].result, env |-> outer]>>
        [] n.kind \notin {"Enter", "Block", "While"} /\ f.pc = 1 -> <<Task("use", n)>>
        [] n.kind \in {"And", "Or", "If"} /\ f.pc = 2 -> <<>>

Remaining ==
  LET tasks[i \in 0..Len(frames)] == IF i = 0 THEN <<>> ELSE TasksOf(i) \o tasks[i - 1]
  IN  tasks

\* The frame that will take the transfer under way.
Takers == LET kind == IF return_value.is = "return" THEN "Call" ELSE "While"
          IN  {i \in DOMAIN frames : frames[i].node.kind = kind /\ frames[i].pc = 2}
Taker == CHOOSE i \in Takers : \A j \in Takers : j <= i

\* A return no call takes is main's.
Exiting == status # "aborted" /\ return_value.is = "return" /\ Takers = {}

\* How many frames stay, transfers under way taken into account.
Staying == IF Exiting THEN 0 ELSE IF _isCFD THEN Taker - 1 ELSE Len(frames)

agendaBar == (IF return_value.is = "continue" THEN <<Task("loop", frames[Taker].node)>>
                                              ELSE <<>>) \o Remaining[Staying]

accBar == CASE Exiting -> return_value.v
            [] ~Exiting /\ agendaBar # <<>> /\ agendaBar[1].task = "use" -> return_value.v
            [] OTHER -> NoValue

scopesBar == IF _isCFD THEN ScopesOf(Staying) ELSE Len(scopes)

envBar == IF Exiting THEN Nothing ELSE Visible[scopesBar]

storeBar ==
  LET places == UNION {{<<d, x>> : x \in DOMAIN scopes[d].vals} : d \in 1..scopesBar}
  IN  IF Exiting THEN Nothing ELSE [l \in places |-> ValueAt(l)]

statusBar == IF Exiting THEN "exited" ELSE status

Abstract == INSTANCE Structured WITH
  agenda <- agendaBar, acc <- accBar, env <- envBar, store <- storeBar, status <- statusBar

\* The interpreter runs the structured program step by step: transfers reach
\* their loop or call and nothing runs on the way, every name is the innermost
\* declaration around it in the text and not one of the caller's, arguments
\* are copies, and what ends without a value to take stops the program.
StepsAsStructured == Abstract!Init /\ [][Abstract!Next]_(Abstract!vars)

\* The interpreter implements the structured program: it takes those steps
\* and never spins without getting on.
ImplementsStructured == Abstract!Spec
============================================================================
