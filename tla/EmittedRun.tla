------------------------------ MODULE EmittedRun ------------------------------
(***************************************************************************)
(* A program and the code IREmitter made of it, run side by side.  When    *)
(* the emitter is done the code of a program that is Runnable is executed  *)
(* as IR_Design.md reads it: the instructions of a block in order, then    *)
(* its gateway, which hands arguments to the parameters of the block it    *)
(* enters.  A parameter that is handed none has no value, and an           *)
(* instruction that needs it is lost.  The source runs as Structured.tla   *)
(* says.  Each goes on until it is about to do something that can be       *)
(* observed -- read the input, store to a global, end -- and there the two *)
(* must agree.                                                             *)
(***************************************************************************)
EXTENDS Emitter

CONSTANTS
  Plain,     \* the programs that read a local variable only where it was written
  Runnable,  \* the programs that are run once they are emitted
  MaxCalls,  \* bound: calls the source may nest
  NoValue    \* no value is being handed on, in the source

VARIABLES
  calls,     \* the emitted code's active calls, innermost last
  memory,    \* its global variables
  agenda, acc, env, store, status  \* the source's state

Source == INSTANCE Structured
sourceVars == <<agenda, acc, env, store, status>>
runVars == <<calls, memory, sourceVars>>

---------------------------------------------------------------------------
(* Executing emitted code.  A call is the block it is in, the number of    *)
(* instructions done there, and its registers.                             *)

Unset == [r \in {} |-> FALSE]

Entered(b, registers) == [block |-> b, done |-> 0, registers |-> registers]

Call == calls[Len(calls)]
Callers == SubSeq(calls, 1, Len(calls) - 1)

Code == insts[Call.block]
Due1 == Code[Call.done + 1]
Next1 == [Call EXCEPT !.done = @ + 1]

ValueOf(operand) == IF isIm(operand) THEN operand.im ELSE Call.registers[operand.reg]

\* c, with v in the register r.
Holding(c, r, v) == [c EXCEPT !.registers = (r.reg :> v) @@ @]

\* The registers given, with the arguments there are for them, and the others.
Given(given, args, registers) ==
  [r \in {given[i].reg : i \in DOMAIN given \cap DOMAIN args} |->
     ValueOf(args[CHOOSE i \in DOMAIN given : given[i].reg = r])]
  @@ Restrict(registers, DOMAIN registers \ {given[i].reg : i \in DOMAIN given})

\* Through a gateway to block b, args going to its parameters.
Through(b, args) == Entered(b, Given(params[b], args, Call.registers))

\* Every operand of the instruction has a value.
Ready(inst) ==
  \A operand \in Uses(inst) :
    operand = NoArg \/ isIm(operand) \/ operand.reg \in DOMAIN Call.registers

\* A call of a function of the program goes to the head of its graph.
IsCallOf(inst) == inst.op = "call" /\ inst.name # "getint"

\* Steps that cannot be observed.
Silent ==
  \/ /\ Due1.op = "ld"
     /\ calls' = Append(Callers, Holding(Next1, Due1.v, memory[Due1.name]))
  \/ /\ Due1.op = "jp"
     /\ calls' = Append(Callers, Through(succ[Call.block], Due1.args))
  \/ /\ Due1.op = "br" /\ ValueOf(Due1.v)
     /\ calls' = Append(Callers, Through(succ[Call.block], Due1.true_args))
  \/ /\ Due1.op = "br" /\ ~ValueOf(Due1.v)
     /\ calls' = Append(Callers, Through(alt[Call.block], Due1.false_args))
  \/ /\ IsCallOf(Due1)
     /\ calls' = Append(calls, Entered(head[Due1.name],
                                 Given(procParams[Due1.name], Due1.args, Unset)))
  \/ /\ Due1.op = "rt" /\ Len(calls) > 1
     /\ LET caller == calls[Len(calls) - 1]
            result == insts[caller.block][caller.done + 1].v
            after  == [caller EXCEPT !.done = @ + 1]
        IN  calls' = Append(SubSeq(Callers, 1, Len(Callers) - 1),
                            IF Due1.v = NoArg THEN after
                                              ELSE Holding(after, result, ValueOf(Due1.v)))

---------------------------------------------------------------------------
(* What the next step of each side shows.                                  *)

Reads      == [shows |-> "read"]
Stores(x, v) == [shows |-> "store", name |-> x, value |-> v]
Ends(v)    == [shows |-> "end", value |-> v]
Nothing    == [shows |-> "nothing"]
Lost       == [shows |-> "lost"]

CodeShows ==
  CASE calls = <<>> -> Ends(NoArg)
    [] calls # <<>> /\ Call.done = Len(Code) -> Lost
    [] calls # <<>> /\ Call.done < Len(Code) /\ ~Ready(Due1) -> Lost
    [] calls # <<>> /\ Call.done < Len(Code) /\ Ready(Due1) ->
         CASE Due1.op = "call" /\ ~IsCallOf(Due1) -> Reads
           [] Due1.op = "st" -> Stores(Due1.name, ValueOf(Due1.v))
           [] Due1.op = "rt" /\ Len(calls) = 1 -> Ends(ValueOf(Due1.v))
           [] OTHER -> Nothing

\* Globals are stored at depth 1; what happens to other variables is not seen.
AssignsGlobal == env[Source!Node.name][1] = 1

SourceShows ==
  CASE status # "running" -> IF status = "exited" THEN Ends(NoArg) ELSE Lost
    [] Source!DueAt("getint", "run") -> Reads
    [] Source!DueAt("Assign", "use") /\ AssignsGlobal -> Stores(Source!Node.name, acc)
    [] Source!DueAt("Return", "use") /\ Source!Calls(agenda) = 0 -> Ends(acc)
    [] OTHER -> Nothing

Done == calls = <<>> /\ status = "exited"

\* Both sides are about to show something, and it is not the same, or the
\* globals they stored to until now are not.
Apart == /\ calls # <<>> /\ CodeShows # Nothing /\ SourceShows # Nothing
         /\ \/ CodeShows # SourceShows
            \/ \E x \in DOMAIN memory : store[<<1, x>>] # memory[x]

---------------------------------------------------------------------------
RunInit == /\ EmitterInit
           /\ Source!Init
           /\ calls = <<>>
           /\ memory = Unset

GlobalInit(p) == [x \in {p.globals[i].name : i \in DOMAIN p.globals} |->
                    \E i \in DOMAIN p.globals :
                      p.globals[i].name = x /\ p.globals[i].kids[1].name = "1"]

EmitStep == frames # <<>> /\ EmitterNext /\ UNCHANGED runVars

\* enter has returned, and the code is run.
Start == /\ Emitted
         /\ program \in Runnable
         /\ calls = <<>> /\ status = "running"
         /\ calls' = <<Entered(head["main"], Unset)>>
         /\ memory' = GlobalInit(program)
         /\ frames' = <<>>
         /\ UNCHANGED <<protocolVars, program, value, codeVars2, cfds, lives, ssaVars, sourceVars>>

CodeStep == /\ calls # <<>>
            /\ CodeShows = Nothing
            /\ Silent
            /\ UNCHANGED <<allVars, memory, sourceVars>>

SourceStep == /\ calls # <<>>
              /\ CodeShows # Nothing
              /\ SourceShows = Nothing
              /\ Source!Next
              /\ UNCHANGED <<allVars, calls, memory>>

\* Both read the same input.
ReadTogether == /\ calls # <<>>
                /\ CodeShows = Reads /\ SourceShows = Reads
                /\ \E v \in BOOLEAN : /\ calls' = Append(Callers, Holding(Next1, Due1.v, v))
                                      /\ Source!Next
                                      /\ acc' \in {v, NoValue}
                /\ UNCHANGED <<allVars, memory>>

StoreTogether == /\ calls # <<>>
                 /\ CodeShows.shows = "store" /\ SourceShows = CodeShows
                 /\ memory' = [memory EXCEPT ![CodeShows.name] = CodeShows.value]
                 /\ calls' = Append(Callers, Next1)
                 /\ Source!Next
                 /\ UNCHANGED allVars

EndTogether == /\ calls # <<>>
               /\ CodeShows.shows = "end" /\ SourceShows = CodeShows
               /\ calls' = <<>>
               /\ Source!Next
               /\ UNCHANGED <<allVars, memory>>

\* There is nothing to emit or to compare any more.
Over == /\ Done \/ Apart \/ failed \/ (Emitted /\ program \notin Runnable)
        /\ UNCHANGED <<allVars, runVars>>

RunNext == EmitStep \/ Start \/ CodeStep \/ SourceStep
             \/ ReadTogether \/ StoreTogether \/ EndTogether \/ Over

RunSpec == RunInit /\ [][RunNext]_<<allVars, runVars>> /\ WF_<<allVars, runVars>>(RunNext)

---------------------------------------------------------------------------
(* Properties.                                                             *)

\* The code of a plain program is there.
Finished == Emitted /\ program \in Plain

\* A block is given its parameters after some edges into it are drawn and
\* before others: in the end every gateway passes as many arguments as the
\* block it leads to has parameters.
ArgumentsFitParameters ==
  Finished => \A b \in Live : insts[b] # <<>> =>
    \A pass \in Passes(b) : Len(pass[2]) = Len(params[pass[1]])

\* The same of branches.  And and Or draw theirs before the block where their
\* sides meet has its parameter, and functions, ifs and loops draw branches
\* into blocks that must not have any.
BranchesFitParameters ==
  Finished => \A b \in Live :
    insts[b] # <<>> /\ insts[b][Len(insts[b])].op = "br" =>
      \A pass \in Passes(b) : Len(pass[2]) = Len(params[pass[1]])


\* The emitted code of a program that is run means what the program means:
\* whenever both sides are about to show something it is the same -- the same
\* reads in the same order, the same stores, the same exit code -- and the
\* globals agree.
Agreement == ~Apart

\* Ifs, loops and calls never trap the emitted code in a cycle, nor leave it
\* with an operand without value: once it is started, a program that is run
\* goes on to its end.
RunsToEnd == (calls # <<>>) ~> Done
============================================================================
