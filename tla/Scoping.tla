------------------------------ MODULE Scoping ------------------------------
(***************************************************************************)
(* What nested scopes promise: a stack of scopes, each with a table of     *)
(* variables and a table of functions.  A scope is opened empty and closed *)
(* with all it binds; a name is bound in the innermost scope, or, for the  *)
(* function whose body is being read, in the one around it; a name means   *)
(* its innermost binding.                                                  *)
(***************************************************************************)
EXTENDS Naturals, Sequences

CONSTANTS
  Names,    (* identifiers of the program                                *)
  Infos,    (* what can be said of a declaration                         *)
  Unbound   (* a name without a binding                                  *)

VARIABLE scopes

Tables == {"vars", "funcs"}
EmptyScope == [t \in Tables |-> [n \in Names |-> Unbound]]

ScopesOK ==
  /\ scopes \in Seq([Tables -> [Names -> Infos \cup {Unbound}]])
  /\ scopes # <<>>

Init == scopes = <<EmptyScope>>

Open == scopes' = Append(scopes, EmptyScope)

Close ==
  /\ Len(scopes) > 1
  /\ scopes' = SubSeq(scopes, 1, Len(scopes) - 1)

Bind(k, t, n, i) ==
  /\ k \in DOMAIN scopes /\ k >= Len(scopes) - 1
  /\ scopes' = [scopes EXCEPT ![k][t][n] = i]

Next ==
  \/ Open
  \/ Close
  \/ \E k \in DOMAIN scopes, t \in Tables, n \in Names, i \in Infos : Bind(k, t, n, i)

Spec == Init /\ [][Next]_scopes

\* The innermost scope that binds n, and what it says of n.
Binding(t, n) == {k \in DOMAIN scopes : scopes[k][t][n] # Unbound}
Lookup(t, n) ==
  IF Binding(t, n) = {} THEN Unbound
  ELSE LET k == CHOOSE k \in Binding(t, n) : \A j \in Binding(t, n) : j <= k
       IN scopes[k][t][n]
=============================================================================
