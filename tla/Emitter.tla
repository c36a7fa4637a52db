------------------------------- MODULE Emitter -------------------------------
(***************************************************************************)
(* IREmitter: how functions, conditions, loops and variables of the syntax *)
(* tree become basic blocks and registers.  It is a client of the builder  *)
(* (BuilderProtocol.tla) and shown to keep its discipline.                 *)
(*                                                                         *)
(* execute() visits a node by a fixed sequence of calls, written down in   *)
(* EmitterScripts.tla.  `frames' is the C++ call stack; a frame holds the  *)
(* calls its visit has still to make (todo), the blocks it made (slots)    *)
(* and the operand it keeps (kept).                                        *)
(*                                                                         *)
(* Global variables are stored to and loaded from.  Local ones and         *)
(* parameters are registers, found by the algorithm of readVar, writeVar   *)
(* and sealBlock: a block asks its predecessors, and takes a parameter     *)
(* when it does not know them yet or has several.  A name stands for its   *)
(* identifier, since the tree builder numbers names and not declarations.  *)
(*                                                                         *)
(* Types, arithmetic, arrays, constants that are folded and the procedures *)
(* set up for built-in functions, which have no blocks, are left out.  The *)
(* model ends where enter hands the Code over (getCode).                   *)
(*                                                                         *)
(* A node is what EmitterScripts.tla says; a program is one of             *)
(* Structured.tla with `order', its functions other than main in the order *)
(* they were declared.                                                     *)
(***************************************************************************)
EXTENDS BuilderProtocol, EmitterScripts, FiniteSets, SequencesExt, TLC

CONSTANTS
  Programs,  \* the programs considered
  Nodes,     \* the nodes of their trees, each with whether a loop is around it
  NoArg      \* undef: no value of a statement, or of a variable not set yet

\* How many parts a node can have.
Arities(kind) ==
  CASE kind \in {"IntLiteral", "DeclRef", "Break", "Continue"} -> {0}
    [] kind \in {"getint", "Call", "VarDecl", "Return"} -> {0, 1}
    [] kind = "Assign" -> {1}
    [] kind \in {"And", "Or", "While"} -> {2}
    [] kind = "If" -> {2, 3}
    [] kind = "Block" -> Nat

Kinds == {"IntLiteral", "DeclRef", "Break", "Continue", "getint", "Call", "VarDecl", "Return",
          "Assign", "And", "Or", "While", "If", "Block"}

\* MaxDepth is more than any program nests; memory is finite.
ASSUME EmitterAssumption == MaxDepth > 10 /\ IsFiniteSet(Block)

Expressions == {"IntLiteral", "DeclRef", "getint", "Call", "And", "Or"}

\* Part i of a node of this kind is an expression by the grammar.
IsOperand(kind, i) ==
  \/ kind \in {"getint", "Call", "VarDecl", "Return", "Assign", "And", "Or"}
  \/ kind \in {"If", "While"} /\ i = 1

\* Trees have the parts the grammar gives them, and break and continue stand
\* in loops, as the language asks, the tree builder does not check and curCFD
\* asserts.
WellFormed(nodes) ==
  \A nd \in nodes :
    LET n == nd[1]
    IN  /\ n.kind \in Kinds
        /\ n.kids \in Seq({n.kids[i] : i \in DOMAIN n.kids}) /\ Len(n.kids) \in Arities(n.kind)
        /\ n.kind \in {"Break", "Continue"} => nd[2]
        /\ \A i \in DOMAIN n.kids : IsOperand(n.kind, i) => n.kids[i].kind \in Expressions
        /\ \A i \in DOMAIN n.kids :
             <<n.kids[i], nd[2] \/ (n.kind = "While" /\ i = 2)>> \in nodes

BodiesAmong(nodes) ==
  \A p \in Programs :
    /\ p.order \in Seq(Proc)
    /\ <<p.main, FALSE>> \in nodes
    /\ \A i \in DOMAIN p.order : <<p.funcs[p.order[i]].body, FALSE>> \in nodes

ASSUME ProgramsAssumption == "main" \in Proc /\ WellFormed(Nodes) /\ BodiesAmong(Nodes)

VARIABLES
  program,    \* _ast
  frames,     \* the active execute() calls, innermost last
  value,      \* _return_value: an operand, or NoArg
  insts,      \* BasicBlock::instruction_list of each block
  params,     \* BasicBlock::args of each block: registers
  procParams, \* Procedure's parameters: registers
  regs,       \* registers handed out by newValue in the whole program
  cfds,       \* _cfd_stack: the loops around, [cond, cont]
  lives,      \* _lives_stack: the names that are local variables here
  cache,      \* Context::read_cache of each block: operand by name
  incomplete, \* Context::incomplete_args of each block: <<name, register>>
  sealed,     \* the blocks whose Context::seal is set
  found,      \* what readVarInner answered last
  failed      \* an assertion of readVarRec did not hold: the compiler is gone

codeVars2 == <<insts, params, procParams, regs>>
ssaVars == <<cache, incomplete, sealed, found, failed>>
emitterVars == <<program, frames, value, codeVars2, cfds, lives, ssaVars>>
allVars == <<protocolVars, emitterVars>>

---------------------------------------------------------------------------
(* Operands and instructions.  A gateway says what it passes to the        *)
(* parameters of its targets; the targets are the block's succ and alt.    *)
(* A jump passes nothing: inst<jp> and jump's constructor drop what they   *)
(* are given.                                                              *)

Reg(n) == [reg |-> n]
isIm(operand) == operand # NoArg /\ "im" \in DOMAIN operand
NewValue == Reg(regs + 1)

Inst(op, operand) == [op |-> op, v |-> operand]
CallInst(f, r, args) == [op |-> "call", v |-> r, name |-> f, args |-> args]
Load(r, x)      == [op |-> "ld", v |-> r, name |-> x]
Store(x, v)     == [op |-> "st", v |-> v, name |-> x]
Jp              == [op |-> "jp", v |-> NoArg, args |-> <<>>]
Rt(v)           == [op |-> "rt", v |-> v]
Br(cond, targs, fargs) ==
  [op |-> "br", v |-> cond, true_args |-> targs, false_args |-> fargs]

IsGateway(inst) == inst.op \in {"br", "jp", "rt"}

isTerm == /\ insts[current_block] # <<>>
          /\ IsGateway(insts[current_block][Len(insts[current_block])])

Pushed(inst) == [insts EXCEPT ![current_block] = Append(@, inst)]

---------------------------------------------------------------------------
NoSlots == [s \in {} |-> NoBlock]
NoCache == [x \in {} |-> NoArg]

\* A map after an assignment to its entry x.
Put(f, x, v) == [y \in {x} \cup DOMAIN f |-> IF y = x THEN v ELSE f[y]]

NewFrame(n) == [node |-> n, todo |-> Script(n), slots |-> NoSlots, kept |-> NoArg]

EmitterInit ==
  /\ ProtocolInit
  /\ program \in Programs
  /\ frames = <<[node |-> program, todo |-> Unit(program.order), slots |-> NoSlots,
                 kept |-> NoArg]>>
  /\ value = NoArg
  /\ insts = [b \in Block |-> <<>>]
  /\ params = [b \in Block |-> <<>>]
  /\ procParams = [p \in Proc |-> <<>>]
  /\ regs = 0
  /\ cfds = <<>>
  /\ lives = <<>>
  /\ cache = [b \in Block |-> NoCache]
  /\ incomplete = [b \in Block |-> <<>>]
  /\ sealed = {}
  /\ found = NoArg
  /\ failed = FALSE

Emitted == Len(frames) = 1 /\ frames[1].todo = <<>>

Frame == frames[Len(frames)]
Slot(s) == Frame.slots[s]

\* The next call of the innermost visit, and what is left after it.
Due(call) == ~failed /\ Frame.todo # <<>> /\ Frame.todo[1][1] = call
What == Frame.todo[1][2]
Rest == [Frame EXCEPT !.todo = Tail(@)]

Continued(f) == Append(SubSeq(frames, 1, Len(frames) - 1), f)
Proceed == frames' = Continued(Rest)

\* The call is carried out by other calls.
ProceedWith(calls) == frames' = Continued([Rest EXCEPT !.todo = calls \o @])

\* Calls that leave the builder alone, the code, or the variables.
Aside == UNCHANGED protocolVars
SameCode == UNCHANGED <<program, codeVars2>>
SameNames == UNCHANGED <<lives, ssaVars>>

\* Addresses are handed out in a fixed order: it makes no difference which.
Address == CHOOSE b \in Unused : TRUE

---------------------------------------------------------------------------
(* Visiting.                                                               *)

Visit == /\ Due("visit")
         /\ frames' = Append(Continued(Rest), NewFrame(Frame.node.kids[What]))
         /\ value' = NoArg
         /\ Aside /\ SameCode /\ SameNames /\ UNCHANGED cfds

VisitBody == /\ Due("body")
             /\ LET body == IF What = "main" THEN program.main ELSE program.funcs[What].body
                IN  frames' = Append(Continued(Rest), NewFrame(body))
             /\ value' = NoArg
             /\ Aside /\ SameCode /\ SameNames /\ UNCHANGED cfds

Return == /\ Len(frames) > 1
          /\ Frame.todo = <<>>
          /\ frames' = SubSeq(frames, 1, Len(frames) - 1)
          /\ Aside /\ SameCode /\ SameNames /\ UNCHANGED <<value, cfds>>

\* Block: an expression statement's value is dropped, and nothing but the
\* block's destructors follows a gateway.
StopIfTerm == /\ Due("stop_if_term")
              /\ frames' = Continued([Frame EXCEPT !.todo =
                             IF isTerm THEN <<@[Len(@)]>> ELSE Tail(@)])
              /\ value' = NoArg
              /\ Aside /\ SameCode /\ SameNames /\ UNCHANGED cfds

\* A condition known now is folded; another one is kept and lowered.
Decide == /\ Due("decide")
          /\ IF isIm(value)
             THEN frames' = Continued([Frame EXCEPT !.todo = Folded(Frame.node, value.im)])
             ELSE frames' = Continued([Frame EXCEPT !.todo = Lowered(Frame.node), !.kept = value])
          /\ value' = IF isIm(value) /\ Folded(Frame.node, value.im) = <<>>
                         /\ Frame.node.kind # "If"
                      THEN Im(Frame.node.kind = "Or") ELSE NoArg
          /\ Aside /\ SameCode /\ SameNames /\ UNCHANGED cfds

Keep == /\ Due("keep")
        /\ frames' = Continued([Rest EXCEPT !.kept = value])
        /\ value' = NoArg
        /\ Aside /\ SameCode /\ SameNames /\ UNCHANGED cfds

PushCFD == /\ Due("push_cfd")
           /\ cfds' = Append(cfds, [cond |-> Slot("cond"), cont |-> Slot("cont")])
           /\ Proceed
           /\ Aside /\ SameCode /\ SameNames /\ UNCHANGED value

PopCFD == /\ Due("pop_cfd")
          /\ cfds' = SubSeq(cfds, 1, Len(cfds) - 1)
          /\ Proceed
          /\ Aside /\ SameCode /\ SameNames /\ UNCHANGED value

---------------------------------------------------------------------------
(* Names.  A function starts with no local name, a block with those of its *)
(* surroundings.                                                           *)

IsLive(x) == lives # <<>> /\ x \in lives[Len(lives)]
WithLive(x) == [lives EXCEPT ![Len(lives)] = @ \union {x}]

PushEnv == /\ Due("push_env")
           /\ lives' = Append(lives, IF lives = <<>> THEN {} ELSE lives[Len(lives)])
           /\ Proceed
           /\ Aside /\ SameCode /\ UNCHANGED <<value, cfds, ssaVars>>

PopEnv == /\ Due("pop_env")
          /\ lives' = SubSeq(lives, 1, Len(lives) - 1)
          /\ Proceed
          /\ Aside /\ SameCode /\ UNCHANGED <<value, cfds, ssaVars>>

\* writeVar: the current block's cache has v for x.  The block that is asked
\* for x may be another one.
Cached(x, v) == [cache EXCEPT ![current_block] = Put(@, x, v)]
writeVar(x, v) == cache' = Cached(x, v)

---------------------------------------------------------------------------
(* Reading a local variable: readVarInner(x, b) and readVarRec.            *)

\* The entries of prevBlocks.  A block has two edges at most.
PrevBlocks(b) == {c \in Block \X {1, 2} : c[2] <= preds[b][c[1]]}

Reading == Due("read")
ReadName == Frame.todo[1][2]
ReadBlock == Frame.todo[1][3]

\* A cache that is asked only in blocks that are complete.
HitIfSealed == ReadName \in DOMAIN cache[ReadBlock] /\ ReadBlock \in sealed

Hit == ReadName \in DOMAIN cache[ReadBlock]
Known == ReadBlock \in sealed

\* Calls that do nothing but find an operand.
Finding == Aside /\ UNCHANGED <<program, value, insts, procParams, cfds, lives>>

ReadHit == /\ Reading /\ Hit
           /\ found' = cache[ReadBlock][ReadName]
           /\ Proceed
           /\ Finding /\ UNCHANGED <<params, regs, cache, incomplete, sealed, failed>>

\* A register that stands for x in an unsealed block, not taken from the
\* sequence.
ReadUnsealedUncounted ==
  /\ Reading /\ ~Hit /\ ~Known
  /\ incomplete' = [incomplete EXCEPT ![ReadBlock] = Append(@, <<ReadName, NewValue>>)]
  /\ found' = NewValue
  /\ writeVar(ReadName, NewValue)
  /\ Proceed
  /\ Finding /\ UNCHANGED <<regs, params, sealed, failed>>

\* The predecessors are not all known: a parameter that sealing will complete.
ReadUnsealed ==
  /\ Reading /\ ~Hit /\ ~Known
  /\ incomplete' = [incomplete EXCEPT ![ReadBlock] = Append(@, <<ReadName, NewValue>>)]
  /\ regs' = regs + 1
  /\ found' = NewValue
  /\ writeVar(ReadName, NewValue)
  /\ Proceed
  /\ Finding /\ UNCHANGED <<params, sealed, failed>>

\* The one predecessor is asked.
ReadSinglePred ==
  /\ Reading /\ ~Hit /\ Known
  /\ Cardinality(PrevBlocks(ReadBlock)) = 1
  /\ \E c \in PrevBlocks(ReadBlock) :
       ProceedWith(<<<<"read", ReadName, c[1]>>, <<"write_found", ReadName>>>>)
  /\ Finding /\ UNCHANGED <<params, regs, ssaVars>>

\* Several are: a parameter, known to the cache before they are asked.
ReadJoin ==
  /\ Reading /\ ~Hit /\ Known
  /\ Cardinality(PrevBlocks(ReadBlock)) > 1
  /\ regs' = regs + 1
  /\ writeVar(ReadName, NewValue)
  /\ ProceedWith(<<<<"addArg", ReadName, NewValue, ReadBlock>>,
                   <<"write", ReadName, NewValue>>>>)
  /\ Finding /\ UNCHANGED <<params, incomplete, sealed, found, failed>>

\* assert(bb->prevBlocks().size() != 0)
ReadNowhere ==
  /\ Reading /\ ~Hit /\ Known
  /\ PrevBlocks(ReadBlock) = {}
  /\ failed' = TRUE
  /\ UNCHANGED frames
  /\ Finding /\ UNCHANGED <<params, regs, cache, incomplete, sealed, found>>

WriteFound == /\ Due("write_found")
              /\ writeVar(What, found)
              /\ Proceed
              /\ Finding /\ UNCHANGED <<params, regs, incomplete, sealed, found, failed>>

WritePlaceholder == /\ Due("write")
                    /\ writeVar(What, Frame.todo[1][3])
                    /\ found' = Frame.todo[1][3]
                    /\ Proceed
                    /\ Finding /\ UNCHANGED <<params, regs, incomplete, sealed, failed>>

\* addArg: block b gets a parameter for x, and every predecessor is asked for
\* x.  The answers go to a copy of the gateway's arguments and are lost.  The
\* order is that of prevBlocks, which the counts of the builder leave open.
AddBlockArg ==
  /\ Due("addArg")
  /\ LET x == Frame.todo[1][2]
         b == Frame.todo[1][4]
     IN  /\ params' = [params EXCEPT ![b] = Append(@, Frame.todo[1][3])]
         /\ \E order \in SetToSeqs(PrevBlocks(b)) :
              ProceedWith([i \in DOMAIN order |-> <<"read", x, order[i][1]>>])
  /\ Finding /\ UNCHANGED <<regs, ssaVars>>

\* sealBlock completes the parameters before it marks the block.
SealBlock(b) ==
  /\ ProceedWith([i \in DOMAIN incomplete[b] |->
                   <<"addArg", incomplete[b][i][1], incomplete[b][i][2], b>>]
                 \o <<<<"sealed", b>>>>)
  /\ Finding /\ UNCHANGED <<params, regs, ssaVars>>

Seal == Due("seal") /\ SealBlock(Slot(What))
SealCurrent == Due("seal_current") /\ SealBlock(current_block)

Sealed == /\ Due("sealed")
          /\ incomplete' = [incomplete EXCEPT ![What] = <<>>]
          /\ sealed' = sealed \union {What}
          /\ Proceed
          /\ Finding /\ UNCHANGED <<params, regs, cache, found, failed>>

---------------------------------------------------------------------------
(* Instructions.                                                           *)

\* createInst of an instruction that is no gateway, answering operand v.
Create(inst, v, r) == /\ insts' = Pushed(inst)
                      /\ value' = v
                      /\ regs' = r
                      /\ Proceed
                      /\ Aside /\ SameNames /\ UNCHANGED <<program, params, procParams, cfds>>

Literal == /\ Due("literal")
           /\ value' = Im(Frame.node.name = "1")
           /\ Proceed
           /\ Aside /\ SameCode /\ SameNames /\ UNCHANGED cfds

Callee(n) == IF n.kind = "getint" THEN "getint" ELSE n.name

\* The argument, if there is one, is what was visited last.
Arguments == IF value = NoArg THEN <<>> ELSE <<value>>

IsVoid(f) == f # "getint" /\ program.funcs[f].result = "void"

CallFunction == /\ Due("call")
                /\ LET f == Callee(Frame.node)
                   IN  Create(CallInst(f, NewValue, Arguments),
                              IF IsVoid(f) THEN NoArg ELSE NewValue, regs + 1)

\* readVar: a name that is not live is a global variable.
LoadGlobal == /\ Due("readVar")
              /\ ~IsLive(Frame.node.name)
              /\ Create(Load(NewValue, Frame.node.name), NewValue, regs + 1)

ReadLocal == /\ Due("readVar")
             /\ IsLive(Frame.node.name)
             /\ ProceedWith(<<<<"read", Frame.node.name, current_block>>, <<"answer_found">>>>)
             /\ Finding /\ UNCHANGED <<params, regs, ssaVars>>

AnswerFound == /\ Due("answer_found")
               /\ value' = found
               /\ Proceed
               /\ Aside /\ SameCode /\ SameNames /\ UNCHANGED cfds

StoreGlobal == /\ Due("assign")
               /\ ~IsLive(Frame.node.name)
               /\ Create(Store(Frame.node.name, value), NoArg, regs)

\* Neither an assignment to a local variable nor its declaration makes code.
Written == /\ writeVar(Frame.node.name, value)
           /\ value' = NoArg
           /\ Proceed
           /\ Aside /\ SameCode /\ UNCHANGED <<cfds, incomplete, sealed, found, failed>>

AssignLocal == /\ Due("assign")
               /\ IsLive(Frame.node.name)
               /\ Written /\ UNCHANGED lives

DeclareLocal == /\ Due("declare")
                /\ lives' = WithLive(Frame.node.name)
                /\ Written

ReturnInst == /\ Due("rt")
              /\ Create(Rt(Frame.kept), NoArg, regs)

\* createInst<jp> sets the successor of the current block and ends it.
Jump(t) == /\ setNext(t)
           /\ insts' = Pushed(Jp)
           /\ Proceed
           /\ value' = NoArg
           /\ SameNames
           /\ UNCHANGED <<program, phase, saves, params, procParams, regs, cfds>>

\* And and Or hand the right side to their jump, which loses it.
JumpTo    == Due("jp") /\ Jump(Slot(What))
JumpWith  == Due("jp_value") /\ Jump(Slot(What))
JumpOut   == Due("jp_loop") /\ Jump(cfds[Len(cfds)][What])

\* createInst<br> sets both successors and then ends the block.
BranchInst == /\ Due("br")
              /\ insts' = Pushed(Br(Frame.kept, Frame.todo[1][2], Frame.todo[1][3]))
              /\ Proceed
              /\ Aside /\ SameNames /\ UNCHANGED <<program, value, params, procParams, regs, cfds>>

\* A parameter of block b whose register is r.
Parameter(b, r) == /\ params' = [params EXCEPT ![b] = Append(@, r)]
                   /\ Proceed
                   /\ Aside /\ SameNames /\ UNCHANGED <<program, value, insts, procParams, cfds>>

\* A parameter whose register is not taken from the sequence.
AddArgUncounted == Due("add_arg") /\ Parameter(Slot(What), NewValue) /\ UNCHANGED regs

\* The parameter of the block that And and Or end in.
AddArg == Due("add_arg") /\ Parameter(Slot(What), NewValue) /\ regs' = regs + 1

\* And and Or answer the first parameter of that block.
AnswerArg == /\ Due("answer_arg")
             /\ value' = params[Slot(What)][1]
             /\ Proceed
             /\ Aside /\ SameCode /\ SameNames /\ UNCHANGED cfds

\* The parameter of a function, if it has one, is a local variable.
ParamOf(f) == IF f = "main" THEN "" ELSE program.funcs[f].param


FunctionParam ==
  /\ Due("param")
  /\ IF ParamOf(What) = ""
     THEN SameNames /\ UNCHANGED <<procParams, regs>>
     ELSE /\ lives' = WithLive(ParamOf(What))
          /\ procParams' = [procParams EXCEPT ![What] = Append(@, NewValue)]
          /\ regs' = regs + 1
          /\ writeVar(ParamOf(What), NewValue)
          /\ UNCHANGED <<incomplete, sealed, found, failed>>
  /\ Proceed
  /\ Aside /\ UNCHANGED <<program, value, insts, params, cfds>>

---------------------------------------------------------------------------
(* Calls of the builder.                                                   *)

\* A call that changes graph or cursor only.
Building == Proceed /\ SameCode /\ SameNames /\ UNCHANGED <<value, cfds, phase>>

SetupCode == /\ Due("setup_code")
             /\ setup_code
             /\ phase' = "outside"
             /\ Proceed
             /\ SameCode /\ SameNames /\ UNCHANGED <<value, cfds, saves>>

EntryFunction == /\ Due("entry_function")
                 /\ entry_function(What)
                 /\ phase' = "entered"
                 /\ Proceed
                 /\ SameCode /\ SameNames /\ UNCHANGED <<value, cfds, saves>>

FirstBlock == /\ Due("first_block")
              /\ entry_new_block(Address)
              /\ phase' = "body"
              /\ Proceed
              /\ SameCode /\ SameNames /\ UNCHANGED <<value, cfds, saves>>

NewBasicBlock == /\ Due("newBasicBlock")
                 /\ newBasicBlock(Address)
                 /\ frames' = Continued([Rest EXCEPT !.slots = Put(@, What, Address)])
                 /\ SameCode /\ SameNames /\ UNCHANGED <<value, cfds, phase, saves>>

SaveAndEntry == /\ Due("save_and_entry")
                /\ save_and_entry(Slot(What))
                /\ saves' = Append(saves, current_block)
                /\ Building

PopBlock == /\ Due("pop_block")
            /\ pop_block
            /\ saves' = SubSeq(saves, 1, Len(saves) - 1)
            /\ Building

EntryBlock == /\ Due("entry_block")
              /\ entry_block(Slot(What))
              /\ Building /\ UNCHANGED saves

SetNext == /\ Due("setNext")
           /\ setNext(Slot(What))
           /\ Building /\ UNCHANGED saves

SetElse == /\ Due("setElse")
           /\ setElse(Slot(What))
           /\ Building /\ UNCHANGED saves

EmitterNext ==
  \/ Visit \/ VisitBody \/ Return \/ StopIfTerm \/ Decide \/ Keep
  \/ PushCFD \/ PopCFD \/ PushEnv \/ PopEnv
  \/ ReadHit \/ ReadUnsealed \/ ReadSinglePred \/ ReadJoin \/ ReadNowhere
  \/ WriteFound \/ WritePlaceholder \/ AddBlockArg \/ Seal \/ SealCurrent \/ Sealed
  \/ Literal \/ CallFunction \/ LoadGlobal \/ ReadLocal \/ AnswerFound
  \/ StoreGlobal \/ AssignLocal \/ DeclareLocal \/ ReturnInst
  \/ JumpTo \/ JumpWith \/ JumpOut \/ BranchInst \/ AddArg \/ AnswerArg \/ FunctionParam
  \/ SetupCode \/ EntryFunction \/ FirstBlock \/ NewBasicBlock
  \/ SaveAndEntry \/ PopBlock \/ EntryBlock \/ SetNext \/ SetElse

EmitterSpec == EmitterInit /\ [][EmitterNext]_allVars

---------------------------------------------------------------------------
(* Properties.                                                             *)

\* The emitter's state keeps its shape: only blocks of the graphs have code,
\* every operand is a constant, undefined or a register handed out before,
\* and so is what the caches hold; a sealed block has nothing incomplete.
EmitterTypeOK ==
  LET Registers == {Reg(n) : n \in 1..regs}
      Operands == {Im(TRUE), Im(FALSE), NoArg} \union Registers
  IN  /\ ProtocolTypeOK
      /\ {value, found} \subseteq Operands
      /\ \A b \in Block : \A i \in DOMAIN params[b] : params[b][i] \in Registers
      /\ \A b \in Block : insts[b] # <<>> => b \in Live
      /\ \A b \in Block : \A i \in DOMAIN insts[b] : insts[b][i].v \in Operands
      /\ \A b \in Block : \A x \in DOMAIN cache[b] : cache[b][x] \in Operands
      /\ sealed \subseteq Live
      /\ \A b \in sealed : incomplete[b] = <<>>
      /\ \A i \in DOMAIN cfds : {cfds[i].cond, cfds[i].cont} \subseteq Live

\* Edges and gateways are set by separate calls: once a block is left, its
\* successors are those its last gateway needs -- two for br, one for jp --
\* and a block without gateway has none, so that one saved to be gone on with
\* is not half linked.
EdgesFitGateway ==
  \A b \in Live \ {current_block} :
    LET last == insts[b][Len(insts[b])]
    IN  IF insts[b] # <<>> /\ IsGateway(last)
        THEN CASE last.op = "br" -> NoBlock \notin {succ[b], alt[b]}
               [] last.op = "jp" -> succ[b] # NoBlock /\ alt[b] = NoBlock
               [] last.op = "rt" -> succ[b] = NoBlock /\ alt[b] = NoBlock
        ELSE succ[b] = NoBlock /\ alt[b] = NoBlock

\* What the last gateway of b passes to each block it leads to.
Passes(b) ==
  LET last == insts[b][Len(insts[b])]
  IN  CASE last.op = "br" -> {<<succ[b], last.true_args>>, <<alt[b], last.false_args>>}
        [] last.op = "jp" -> {<<succ[b], last.args>>}
        [] OTHER -> {}

\* The places where registers get their values: calls and loads, parameters
\* of functions and blocks, and parameters that sealing a block will add.
PlacesIn(b) ==
  {<<"inst", b, i>> : i \in {j \in DOMAIN insts[b] : insts[b][j].op \in {"call", "ld"}}}
    \union {<<"param", b, i>> : i \in DOMAIN params[b]}
    \union {<<"waiting", b, i>> : i \in {j \in DOMAIN incomplete[b] :
               incomplete[b][j][2] \notin {params[b][k] : k \in DOMAIN params[b]}}}

PlacesOf(p) == {<<"function", p, i>> : i \in DOMAIN procParams[p]}

Places == (UNION {PlacesIn(b) : b \in Live}) \union (UNION {PlacesOf(p) : p \in procs})

RegisterAt(place) ==
  LET i == place[3]
  IN  CASE place[1] = "inst" -> insts[place[2]][i].v
        [] place[1] = "param" -> params[place[2]][i]
        [] place[1] = "waiting" -> incomplete[place[2]][i][2]
        [] place[1] = "function" -> procParams[place[2]][i]

\* The code is in static single assignment form: no register is given a value
\* in two places, however often reading a variable makes up registers, fills
\* parameters and asks predecessors.
SingleAssignment ==
  Cardinality({RegisterAt(place) : place \in Places}) = Cardinality(Places)

\* The operands that an instruction uses.
Uses(inst) ==
  CASE inst.op = "call" -> {inst.args[i] : i \in DOMAIN inst.args}
    [] inst.op = "jp" -> {inst.args[i] : i \in DOMAIN inst.args}
    [] inst.op = "br" -> {inst.v} \union {inst.true_args[i] : i \in DOMAIN inst.true_args}
                           \union {inst.false_args[i] : i \in DOMAIN inst.false_args}
    [] inst.op \in {"st", "rt"} -> {inst.v}
    [] inst.op = "ld" -> {}

\* What was written to a variable in the block being emitted stays what reads
\* of it there find: only an assignment changes it, not the search for another
\* variable's or another block's operand, which caches what it finds in the
\* current block as well.  (Of loops, those whose body reads no local variable
\* that the condition has not read.)
WritesStay ==
  [][\A b \in Live :
       frames # <<>> /\ b = current_block /\ ~isTerm /\ ~(Due("assign") \/ Due("declare")) =>
         \A x \in DOMAIN cache[b] : cache'[b][x] = cache[b][x]]_allVars

\* A block of the code has statements and one gateway, its last instruction.
EndsOnce ==
  Emitted => \A b \in Live : \A i \in DOMAIN insts[b] :
    IsGateway(insts[b][i]) <=> i = Len(insts[b])

\* The blocks a set of blocks leads to.
Onward(bs) == (bs \union {succ[b] : b \in bs} \union {alt[b] : b \in bs}) \ {NoBlock}

\* When the emitter is done every block of a function can be reached from
\* its head: no part of the program was emitted into a block nothing enters.
EveryBlockReachable ==
  Emitted => \A p \in procs :
    LET reach[n \in 0..Cardinality(Block)] ==
          IF n = 0 THEN {head[p]} ELSE Onward(reach[n - 1])
    IN  reach[Cardinality(Block)] = graph[p]

\* Every step of the emitter is one a disciplined client may take: the
\* emitter implements BuilderProtocol, whatever the program.
KeepsProtocol == ProtocolSpec
============================================================================
