----------------------------- MODULE SyntaxTree -----------------------------
(***************************************************************************)
(* The syntax tree as a store: the ids handed out for names, the           *)
(* environments with their symbol tables, the environment that is open,    *)
(* and the numbered nodes (SyntaxTree.cpp, Env.cpp, SymbolTable.h,         *)
(* IdAllocator.h).  The operations take a tree and give a tree, so that a  *)
(* visitor of the builder is their composition; TreeClient lets a client   *)
(* call them in any order.                                                 *)
(*                                                                         *)
(* A table's parent pointer is kept as the path of an environment: the     *)
(* environments from the root to itself.                                   *)
(***************************************************************************)
EXTENDS Naturals, Sequences

CONSTANT NoNode  (* a node that was pushed and is not set yet               *)

VARIABLE tree

Tables == {"vars", "funcs"}
EmptyTable == [entry |-> [i \in {} |-> {}], seq |-> <<>>]
NewEnv(path) == [path |-> path, vars |-> EmptyTable, funcs |-> EmptyTable]

EmptyTree ==
  [ids |-> <<>>, envs |-> <<NewEnv(<<1>>)>>, top |-> 1, nodes |-> <<>>,
   envOf |-> [n \in {} |-> 0]]

---------------------------------------------------------------------------
(* Ids: one for each name, shared by all environments.                     *)

Known(t, name) == \E i \in DOMAIN t.ids : t.ids[i] = name
IdFor(t, name) == CHOOSE i \in DOMAIN t.ids : t.ids[i] = name
\* A mutant: an id for every declaration of a name.
WithNewId(t, name) == [t EXCEPT !.ids = Append(@, name)]
WithId(t, name) == IF Known(t, name) THEN t ELSE [t EXCEPT !.ids = Append(@, name)]

---------------------------------------------------------------------------
(* Nodes.                                                                  *)

PushNode(t) == [t EXCEPT !.nodes = Append(@, NoNode)]
LastNode(t) == Len(t.nodes)
SetNode(t, no, node) ==
  IF t.nodes[no] = NoNode THEN [t EXCEPT !.nodes[no] = node] ELSE t

---------------------------------------------------------------------------
(* Environments and their tables.                                          *)

Parent(t, e) == LET p == t.envs[e].path IN p[Len(p) - 1]
IsRoot(t, e) == Len(t.envs[e].path) = 1

PushEnv(t) ==
  LET new == Len(t.envs) + 1
  IN [t EXCEPT !.envs = Append(@, NewEnv(Append(t.envs[t.top].path, new))),
               !.top = new]

PopToRoot(t) == [t EXCEPT !.top = 1] \* a mutant: every scope is closed
PopEnv(t) == [t EXCEPT !.top = Parent(t, t.top)]

SetupEnv(t, no, e) ==
  [t EXCEPT !.envOf = [n \in DOMAIN @ \cup {no} |-> IF n = no THEN e ELSE @[n]]]

\* Where on the path from the root to e the id has an entry.
HoldersAbove(t, e, tab, id) == \* a mutant: the table itself is passed over
  LET p == t.envs[e].path
  IN {k \in DOMAIN p : k < Len(p) /\ id \in DOMAIN t.envs[p[k]][tab].entry}
Holders(t, e, tab, id) ==
  LET p == t.envs[e].path
  IN {k \in DOMAIN p : id \in DOMAIN t.envs[p[k]][tab].entry}

contains(t, e, tab, id) == Holders(t, e, tab, id) # {}

getInfo(t, e, tab, id) ==
  LET p == t.envs[e].path
      H == Holders(t, e, tab, id)
      k == CHOOSE k \in H : \A j \in H : j <= k
  IN t.envs[p[k]][tab].entry[id]

\* The variable table of the root marks its entries as global.
setInfo(t, e, tab, id, info) ==
  LET old == t.envs[e][tab]
      new == [name |-> t.ids[id], info |-> info,
              isGlobal |-> tab = "vars" /\ IsRoot(t, e)]
      table == [entry |-> [i \in DOMAIN old.entry \cup {id} |->
                             IF i = id THEN new ELSE old.entry[i]],
                seq |-> IF contains(t, e, tab, id) THEN old.seq ELSE Append(old.seq, id)]
  IN [t EXCEPT !.envs[e][tab] = table]

\* Enter a name: its id, then its entry.
EnterWhereHeld(t, e, tab, name, info) == \* a mutant: the entry that is seen is replaced
  LET s == WithId(t, name)
      id == IdFor(s, name)
      H == {k \in Holders(s, e, tab, id) : \A j \in Holders(s, e, tab, id) : j <= k}
  IN setInfo(s, IF H = {} THEN e ELSE s.envs[e].path[CHOOSE k \in H : TRUE], tab, id, info)
Enter(t, e, tab, name, info) ==
  LET s == WithId(t, name) IN setInfo(s, e, tab, IdFor(s, name), info)

---------------------------------------------------------------------------
(* What the clients rely on.                                               *)

\* An id stands for one name: tables are keyed by ids alone.
IdsDistinct(t) ==
  \A i, j \in DOMAIN t.ids : t.ids[i] = t.ids[j] => i = j

\* The path of an environment ends in it, climbs, and passes only through
\* environments whose own paths are its prefixes: lookups end at the root.
PathsNested(t) ==
  \A e \in DOMAIN t.envs :
    LET p == t.envs[e].path
    IN /\ p # <<>> /\ p[1] = 1 /\ p[Len(p)] = e
       /\ \A k \in DOMAIN p :
            /\ p[k] \in DOMAIN t.envs
            /\ t.envs[p[k]].path = SubSeq(p, 1, k)
            /\ \A j \in DOMAIN p : j < k => p[j] < p[k]

\* An entry is filed under the id of its own name, and only the entries of
\* the root's variables are global.
EntriesFiled(t) ==
  \A e \in DOMAIN t.envs, tab \in Tables :
    \A id \in DOMAIN t.envs[e][tab].entry :
      /\ id \in DOMAIN t.ids
      /\ t.envs[e][tab].entry[id].name = t.ids[id]
      /\ t.envs[e][tab].entry[id].isGlobal <=> (tab = "vars" /\ e = 1)

\* The order of declaration, which the consumers walk for the global scope,
\* lists every entry of the root once, and elsewhere no id twice.
SequenceListsEntries(t) ==
  \A e \in DOMAIN t.envs, tab \in Tables :
    LET s == t.envs[e][tab].seq
        D == DOMAIN t.envs[e][tab].entry
    IN /\ \A k \in DOMAIN s : s[k] \in D
       /\ \A j, k \in DOMAIN s : s[j] = s[k] => j = k
       /\ e = 1 => \A id \in D : \E k \in DOMAIN s : s[k] = id

\* A store in order: its ids, environments, tables and sequences.
InOrder(t) == IdsDistinct(t) /\ PathsNested(t) /\ EntriesFiled(t) /\ SequenceListsEntries(t)
StoreOK == InOrder(tree)
=============================================================================
