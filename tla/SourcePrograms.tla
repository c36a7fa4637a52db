---------------------------- MODULE SourcePrograms ----------------------------
(***************************************************************************)
(* Notation for the syntax trees that the checked programs are written in. *)
(* Nodes and programs are described in Structured.tla.                     *)
(***************************************************************************)
EXTENDS Integers, Sequences

Node(kind, name, kids) == [kind |-> kind, name |-> name, kids |-> kids]

Zero == Node("IntLiteral", "0", <<>>)
One  == Node("IntLiteral", "1", <<>>)
In   == Node("getint", "", <<>>)
Ref(x) == Node("DeclRef", x, <<>>)
Both(l, r)   == Node("And", "", <<l, r>>)
Either(l, r) == Node("Or", "", <<l, r>>)
Do(f)      == Node("Call", f, <<>>)
Do1(f, e)  == Node("Call", f, <<e>>)
DeclOnly(x) == Node("VarDecl", x, <<>>)
Decl(x, e) == Node("VarDecl", x, <<e>>)
Set(x, e)  == Node("Assign", x, <<e>>)
Seqn(ss)   == Node("Block", "", ss)
Cond(c, s) == Node("If", "", <<c, s>>)
CondElse(c, s, t) == Node("If", "", <<c, s, t>>)
Loops(c, s) == Node("While", "", <<c, s>>)
Stop == Node("Break", "", <<>>)
Skip == Node("Continue", "", <<>>)
Ret(e) == Node("Return", "", <<e>>)
RetVoid == Node("Return", "", <<>>)

NoFuncs == <<>>
Fun(result, param, body) == [result |-> result, param |-> param, body |-> Seqn(body)]
Program(globals, funcs, main) ==
  [globals |-> globals, funcs |-> funcs, main |-> Seqn(main)]

\* p, with its functions declared in the given order.
InOrder(order, p) ==
  [globals |-> p.globals, funcs |-> p.funcs, main |-> p.main, order |-> order]

\* The parts of nodes, each with whether a loop is around it.
PartsOf(nodes) ==
  UNION {{<<nd[1].kids[i], nd[2] \/ (nd[1].kind = "While" /\ i = 2)>> : i \in DOMAIN nd[1].kids} :
         nd \in nodes}

\* The nodes of the functions of some programs; none nests deeper than 12.
NodesOf(programs) ==
  LET level[k \in 0..12] ==
        IF k = 0 THEN UNION {{<<p.main, FALSE>>}
                               \union {<<p.funcs[f].body, FALSE>> : f \in DOMAIN p.funcs} :
                             p \in programs}
                 ELSE PartsOf(level[k - 1])
  IN  UNION {level[k] : k \in 0..12}
============================================================================
