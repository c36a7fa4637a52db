------------------------------ MODULE Structured ------------------------------
(***************************************************************************)
(* What a structured program means: the specification the interpreter      *)
(* (Interpreter.tla) implements.  A program is run from an agenda of tasks *)
(* still to do.  break, continue and return cut the agenda in one step,    *)
(* and a name means the innermost declaration around it in the text.       *)
(*                                                                         *)
(* A node of a program is [kind, name, kids].  Statements: Block, If (kids *)
(* are condition, then and perhaps else), While, Break, Continue, Return,  *)
(* Assign and VarDecl of a name, and any expression.  Expressions:         *)
(* IntLiteral (name is "0" or "1"), getint (the input), DeclRef, And, Or,  *)
(* Call.  A program is [globals, main, funcs]; a function is [param,       *)
(* result, body].                                                          *)
(***************************************************************************)
EXTENDS Integers, Sequences, FiniteSets

CONSTANTS
  Programs,  \* the programs considered
  MaxCalls,  \* calls that fit on the stack: one more aborts the program
  NoValue    \* no value is being handed to a task

VARIABLES
  program,   \* the program being run
  agenda,    \* what is left to do, the next task first
  acc,       \* the value the next task uses
  env,       \* where each visible name is stored
  store,     \* the value of every live variable
  status     \* "running", "exited" or "aborted"

vars == <<program, agenda, acc, env, store, status>>

---------------------------------------------------------------------------
Run(n)     == [task |-> "run", node |-> n]
Use(n)     == [task |-> "use", node |-> n]
Loop(n)    == [task |-> "loop", node |-> n]
Leave(e)   == [task |-> "leave", env |-> e]
Back(f, e) == [task |-> "back", result |-> f.result, env |-> e]
Exit       == [task |-> "exit"]

RunAll(ns) == [i \in DOMAIN ns |-> Run(ns[i])]

\* The parts of a loop's test: the condition, its outcome, the test again.
Test(n) == <<Run(n.kids[1]), Use(n), Loop(n)>>

Scopes(a) == {i \in DOMAIN a : a[i].task \in {"leave", "back"}}
Depth(a)  == 1 + Cardinality(Scopes(a))
Calls(a)  == Cardinality({i \in DOMAIN a : a[i].task = "back"})

\* A variable lives as long as the scope that declares it.
Live(s, depth) == [l \in {m \in DOMAIN s : m[1] <= depth} |-> s[l]]

GlobalEnv == LET names == {l[2] : l \in {m \in DOMAIN store : m[1] = 1}}
             IN  [x \in names |-> <<1, x>>]

Starting(p) == RunAll(p.globals) \o <<Run(p.main), Exit>>

Init == /\ program \in Programs
        /\ agenda = Starting(program)
        /\ acc = NoValue
        /\ env = <<>>
        /\ store = <<>>
        /\ status = "running"

---------------------------------------------------------------------------
Due(what) == status = "running" /\ agenda[1].task = what

Node == agenda[1].node

DueAt(kind, what) == Due(what) /\ Node.kind = kind

\* Goes on with a, handing it v if its first task is waiting for a value.
Deliver(a, v) == /\ agenda' = a
                 /\ acc' = IF a # <<>> /\ a[1].task = "use" THEN v ELSE NoValue

Proceed(a) == agenda' = a /\ acc' = NoValue

Stay == UNCHANGED <<env, store, status>>

Nearest(what) == CHOOSE i \in DOMAIN agenda :
                   /\ agenda[i].task = what
                   /\ \A j \in 1..(i - 1) : agenda[j].task # what

\* Drops the first i tasks and the scopes that end with them.
After(i) == SubSeq(agenda, i + 1, Len(agenda))
Drop(i) == LET left == {j \in Scopes(agenda) : j <= i}
               last == CHOOSE j \in left : \A k \in left : k <= j
           IN /\ env' = IF left = {} THEN env ELSE agenda[last].env
              /\ store' = Live(store, Depth(After(i)))
              /\ UNCHANGED status

Abort == status' = "aborted" /\ UNCHANGED <<agenda, acc, env, store>>

---------------------------------------------------------------------------
Literal == /\ DueAt("IntLiteral", "run")
           /\ Deliver(Tail(agenda), Node.name = "1")
           /\ Stay

Input == /\ DueAt("getint", "run")
         /\ \E v \in BOOLEAN : Deliver(Tail(agenda), v)
         /\ Stay

Read == /\ DueAt("DeclRef", "run")
        /\ Deliver(Tail(agenda), store[env[Node.name]])
        /\ Stay

\* Everything that first evaluates its one expression.
Evaluate == /\ \E kind \in {"If", "Assign", "VarDecl", "And", "Or", "Return", "Call"} :
                 DueAt(kind, "run")
            /\ Node.kids # <<>>
            /\ Proceed(<<Run(Node.kids[1]), Use(Node)>> \o Tail(agenda))
            /\ Stay

\* And and Or evaluate their right side only when the left does not decide.
ShortCircuit == /\ \/ DueAt("And", "use")
                   \/ DueAt("Or", "use")
                /\ IF acc = (Node.kind = "And")
                   THEN Proceed(<<Run(Node.kids[2])>> \o Tail(agenda))
                   ELSE Deliver(Tail(agenda), acc)
                /\ Stay

Choose == /\ DueAt("If", "use")
          /\ LET arm == IF acc THEN 2 ELSE 3
             IN  Proceed((IF arm \in DOMAIN Node.kids THEN <<Run(Node.kids[arm])>> ELSE <<>>)
                         \o Tail(agenda))
          /\ Stay

StartLoop == /\ DueAt("While", "run")
             /\ Proceed(Test(Node) \o Tail(agenda))
             /\ Stay

LoopAgain == /\ Due("loop")
             /\ Proceed(Test(Node) \o Tail(agenda))
             /\ Stay

\* The task after the outcome is the loop's next test.
LoopOn == /\ DueAt("While", "use")
          /\ Proceed(IF acc THEN <<Run(Node.kids[2])>> \o Tail(agenda)
                            ELSE Tail(Tail(agenda)))
          /\ Stay

Assign == /\ DueAt("Assign", "use")
          /\ Proceed(Tail(agenda))
          /\ store' = [store EXCEPT ![env[Node.name]] = acc]
          /\ UNCHANGED <<env, status>>

\* A map after an assignment to its entry x.
Put(f, x, v) == [y \in {x} \cup DOMAIN f |-> IF y = x THEN v ELSE f[y]]

Bind(x, v, e, a) == LET l == <<Depth(a), x>>
                    IN /\ env' = Put(e, x, l)
                       /\ store' = Put(store, l, v)

Declare == /\ DueAt("VarDecl", "use")
           /\ Proceed(Tail(agenda))
           /\ Bind(Node.name, acc, env, agenda)
           /\ UNCHANGED status

EnterBlock == /\ DueAt("Block", "run")
              /\ Proceed(RunAll(Node.kids) \o <<Leave(env)>> \o Tail(agenda))
              /\ Stay

LeaveBlock == /\ Due("leave")
              /\ Proceed(Tail(agenda))
              /\ Drop(1)

Break == /\ DueAt("Break", "run")
         /\ Proceed(After(Nearest("loop")))
         /\ Drop(Nearest("loop"))

Continue == /\ DueAt("Continue", "run")
            /\ Proceed(After(Nearest("loop") - 1))
            /\ Drop(Nearest("loop") - 1)

Callee == program.funcs[Node.name]

EnterFunction ==
  /\ \/ DueAt("Call", "run") /\ Node.kids = <<>>
     \/ DueAt("Call", "use")
  /\ Calls(agenda) < MaxCalls
  /\ Proceed(<<Run(Callee.body), Back(Callee, env)>> \o Tail(agenda))
  /\ IF Node.kids = <<>>
     THEN env' = GlobalEnv /\ UNCHANGED store
     ELSE Bind(Callee.param, acc, GlobalEnv, agenda')
  /\ UNCHANGED status

StackOverflow ==
  /\ \/ DueAt("Call", "run") /\ Node.kids = <<>>
     \/ DueAt("Call", "use")
  /\ Calls(agenda) >= MaxCalls
  /\ Abort

\* return ends the function it stands in, or the program.
Returning(v) ==
  IF Calls(agenda) > 0
  THEN Deliver(After(Nearest("back")), v) /\ Drop(Nearest("back"))
  ELSE /\ agenda' = <<>>
       /\ acc' = v
       /\ env' = <<>>
       /\ store' = <<>>
       /\ status' = "exited"

Return == \/ DueAt("Return", "run") /\ Node.kids = <<>> /\ Returning(NoValue)
          \/ DueAt("Return", "use") /\ Returning(acc)

\* Only a function without result may end without return.
FallOff == /\ Due("back")
           /\ agenda[1].result = "void"
           /\ Proceed(Tail(agenda))
           /\ Drop(1)

NoResult == /\ \/ Due("back") /\ agenda[1].result # "void"
               \/ Due("exit")
            /\ Abort

Next == /\ UNCHANGED program
        /\ \/ Literal \/ Input \/ Read \/ Evaluate \/ ShortCircuit \/ Choose
           \/ StartLoop \/ LoopAgain \/ LoopOn \/ Assign \/ Declare
           \/ EnterBlock \/ LeaveBlock \/ Break \/ Continue
           \/ EnterFunction \/ StackOverflow \/ Return \/ FallOff \/ NoResult

\* A running program always goes on: no step waits for anything.
Spec == Init /\ [][Next]_vars /\ WF_vars(Next)
============================================================================
