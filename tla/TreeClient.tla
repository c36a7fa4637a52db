----------------------------- MODULE TreeClient -----------------------------
(***************************************************************************)
(* Any client of the syntax tree's store, calling its operations in any    *)
(* order, and what it gets: nested scopes (Scoping).                       *)
(***************************************************************************)
EXTENDS SyntaxTree, FiniteSets

CONSTANTS
  Names,     (* identifiers of the program                               *)
  Infos,     (* the symbol entries: type, declaring node, flags          *)
  NodeKinds, (* the nodes that are numbered                              *)
  Unbound,   (* a name without an entry                                  *)
  MaxEnvs, MaxNodes, MaxEntries  (* bounds                               *)

ASSUME TreeAssumption == NoNode \notin NodeKinds /\ Unbound \notin Infos

TreeInit == tree = EmptyTree

GetId(name) == tree' = WithId(tree, name)

AddNode ==
  /\ Len(tree.nodes) < MaxNodes
  /\ tree' = PushNode(tree)

FillNode(no, node) ==
  /\ no \in DOMAIN tree.nodes
  /\ tree' = SetNode(tree, no, node)

OpenEnv ==
  /\ Len(tree.envs) < MaxEnvs
  /\ tree' = PushEnv(tree)

CloseEnv == ~IsRoot(tree, tree.top) /\ tree' = PopEnv(tree)

Entries(t) ==
  {x \in (DOMAIN t.envs) \X Tables \X (DOMAIN t.ids) :
     x[3] \in DOMAIN t.envs[x[1]][x[2]].entry}

\* In the open environment, or in its parent for the function being read.
EnterSymbol(e, tab, name, info) ==
  /\ Cardinality(Entries(tree)) < MaxEntries
  /\ \/ e = tree.top
     \/ ~IsRoot(tree, tree.top) /\ e = Parent(tree, tree.top)
  /\ tree' = Enter(tree, e, tab, name, info)

AttachEnv(no) ==
  /\ no \in DOMAIN tree.nodes
  /\ tree' = SetupEnv(tree, no, tree.top)

TreeNext ==
  \/ \E n \in Names : GetId(n)
  \/ AddNode
  \/ \E no \in DOMAIN tree.nodes, k \in NodeKinds : FillNode(no, k)
  \/ OpenEnv
  \/ CloseEnv
  \/ \E e \in DOMAIN tree.envs, tab \in Tables, n \in Names, i \in Infos :
       EnterSymbol(e, tab, n, i)
  \/ \E no \in DOMAIN tree.nodes : AttachEnv(no)

TreeSpec == TreeInit /\ [][TreeNext]_tree

---------------------------------------------------------------------------
(* The store implements nested scopes.                                     *)

InfoIn(t, e, tab, name) ==
  IF Known(t, name) /\ IdFor(t, name) \in DOMAIN t.envs[e][tab].entry
  THEN t.envs[e][tab].entry[IdFor(t, name)].info ELSE Unbound

openScopes ==
  LET p == tree.envs[tree.top].path
  IN [k \in DOMAIN p |->
       [tab \in Tables |-> [n \in Names |-> InfoIn(tree, p[k], tab, n)]]]

Scopes == INSTANCE Scoping WITH scopes <- openScopes
ImplementsScoping == Scopes!Spec

\* A name means in the open environment what nested scopes say.
LookupsAgree ==
  \A tab \in Tables, n \in Names :
    LET found == Known(tree, n) /\ contains(tree, tree.top, tab, IdFor(tree, n))
    IN IF found
       THEN getInfo(tree, tree.top, tab, IdFor(tree, n)).info = Scopes!Lookup(tab, n)
       ELSE Scopes!Lookup(tab, n) = Unbound
=============================================================================
