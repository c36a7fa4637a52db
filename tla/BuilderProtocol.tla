-------------------------- MODULE BuilderProtocol -------------------------
(***************************************************************************)
(* The control-graph builder under the discipline its clients keep         *)
(* (IREmitter.cpp and the IR tests): a function is opened by entry_function*)
(* followed at once by entry_block(), blocks passed as arguments belong to *)
(* the current procedure, every save is popped before exit_function, and   *)
(* nothing is erased.  exit_function leaves the block stack alone, so what *)
(* keeps one function's blocks out of the next is this discipline.         *)
(***************************************************************************)
EXTENDS ControlGraph

VARIABLES
  phase,   (* where the client is in the life of a function              *)
  saves    (* ghost: the blocks that were current at the open saves      *)

protocolVars == <<vars, phase, saves>>

Phases == {"no code", "outside", "entered", "body"}

ProtocolTypeOK ==
  /\ TypeOK
  /\ phase \in Phases
  /\ saves \in Seq(Block)

ProtocolInit ==
  /\ Init
  /\ phase = "no code"
  /\ saves = <<>>

---------------------------------------------------------------------------
\* Nothing is under construction: IREmitter goes from the body of a function
\* to the next function, and takes the Code, without exit_function.
Settled == phase # "entered" /\ saves = <<>>

StartCode ==
  /\ Settled
  /\ setup_code
  /\ phase' = "outside"
  /\ UNCHANGED saves

TakeCode ==
  /\ Settled
  /\ phase # "no code"
  /\ getCode
  /\ phase' = "no code"
  /\ UNCHANGED saves

EnterFunction(p) ==
  /\ Settled
  /\ phase # "no code"
  /\ entry_function(p)
  /\ phase' = "entered"
  /\ UNCHANGED saves

\* A client that builds on at the block the previous function left on top.
OpenBodyAtOldCursor(b) ==
  /\ phase = "entered"
  /\ IF current_block = NoBlock THEN entry_new_block(b) ELSE UNCHANGED vars
  /\ phase' = "body"
  /\ UNCHANGED saves

\* The entry block replaces whatever the previous function left on top.
OpenBody(b) ==
  /\ phase = "entered"
  /\ entry_new_block(b)
  /\ phase' = "body"
  /\ UNCHANGED saves

\* Change the current block without saving it.
Move(b) ==
  /\ phase = "body"
  /\ \/ entry_new_block(b)
     \/ b \in graph[proc] /\ entry_block(b)
     \/ entry_next_new(b, FALSE)
     \/ entry_else_new(b, FALSE)
  /\ UNCHANGED <<phase, saves>>

MoveExisting ==
  /\ phase = "body"
  /\ entry_next_existing(FALSE) \/ entry_else_existing(FALSE)
  /\ UNCHANGED <<phase, saves>>

\* Save the current block, and perhaps move on.
Save ==
  /\ phase = "body"
  /\ \/ push_block
     \/ \E b \in graph[proc] : save_and_entry(b)
     \/ entry_next_existing(TRUE)
     \/ entry_else_existing(TRUE)
     \/ \E b \in Block : entry_next_new(b, TRUE) \/ entry_else_new(b, TRUE)
  /\ saves' = Append(saves, current_block)
  /\ UNCHANGED phase

Restore ==
  /\ phase = "body"
  /\ saves # <<>>
  /\ pop_block
  /\ saves' = SubSeq(saves, 1, Len(saves) - 1)
  /\ UNCHANGED phase

Draw(b) ==
  /\ phase = "body"
  /\ \/ newBasicBlock(b)
     \/ b \in graph[proc] /\ setNext(b)
     \/ b \in graph[proc] /\ setElse(b)
  /\ UNCHANGED <<phase, saves>>

\* A client that leaves a function with a save still open.
LeaveWithOpenSaves ==
  /\ phase = "body"
  /\ exit_function
  /\ phase' = "outside"
  /\ saves' = <<>>

LeaveFunction ==
  /\ phase = "body"
  /\ saves = <<>>
  /\ exit_function
  /\ phase' = "outside"
  /\ UNCHANGED saves

ProtocolNext ==
  \/ StartCode
  \/ TakeCode
  \/ \E p \in Proc : EnterFunction(p)
  \/ \E b \in Block : OpenBody(b)
  \/ \E b \in Block : Move(b)
  \/ MoveExisting
  \/ Save
  \/ Restore
  \/ \E b \in Block : Draw(b)
  \/ LeaveFunction

ProtocolSpec == ProtocolInit /\ [][ProtocolNext]_protocolVars

---------------------------------------------------------------------------
(* Properties.                                                             *)

\* The targets of a block lie in the block's own procedure: no edge leaves a
\* control-flow graph, although the cursor of one function survives
\* exit_function (CodeUtil.cpp, exit_function and entry_next).
EdgesWithinProcedure ==
  \A p \in Proc : \A b \in graph[p] :
    {succ[b], alt[b]} \subseteq graph[p] \cup {NoBlock}

\* While a body is built, the stack is exactly the saved blocks below the
\* current one: a pop brings back the block that was current at its save,
\* whatever was entered, linked or created in between (ContextualMixin.cpp,
\* save_basic_block and pop_basic_block).
PopsRestore ==
  phase = "body" => stack = Append(saves, current_block)

\* The head of a graph is decided by the first block of the function and no
\* later call moves it while the Code is being built (ControlFlow.cpp, add).
HeadStays ==
  [][\A p \in Proc :
       head[p] # NoBlock /\ procs \subseteq procs' => head'[p] = head[p]]_vars
===========================================================================
