-------------------------- MODULE TreeClientProofs --------------------------
(***************************************************************************)
(* Proofs about the store of the syntax tree, for any names and entries    *)
(* and any client: its tables and environments stay well formed.           *)
(***************************************************************************)
EXTENDS TreeClient, WellFoundedInduction, SequenceTheorems, TLAPS

---------------------------------------------------------------------------
(* Types.                                                                  *)

Entry == [name : Names, info : Infos, isGlobal : BOOLEAN]

TableOK(T) ==
  /\ T = [entry |-> T.entry, seq |-> T.seq]
  /\ T.entry \in [DOMAIN T.entry -> Entry]
  /\ DOMAIN T.entry \subseteq Nat
  /\ T.seq \in Seq(Nat)

EnvOK(v) ==
  /\ v = [path |-> v.path, vars |-> v.vars, funcs |-> v.funcs]
  /\ v.path \in Seq(Nat)
  /\ TableOK(v.vars) /\ TableOK(v.funcs)

IsSeq(s) == s \in Seq({s[i] : i \in DOMAIN s})

\* A store's records and sequences are well formed.
StoreShape(t) ==
  /\ t = [ids |-> t.ids, envs |-> t.envs, top |-> t.top, nodes |-> t.nodes,
          envOf |-> t.envOf]
  /\ t.ids \in Seq(Names)
  /\ IsSeq(t.envs)
  /\ \A e \in DOMAIN t.envs : EnvOK(t.envs[e])

\* The inductive invariant.
StoreInv(t) == StoreShape(t) /\ t.top \in DOMAIN t.envs /\ InOrder(t)
IInv == StoreInv(tree)

---------------------------------------------------------------------------
(* The operations, field by field.                                         *)

\* A name gets an id of its own and the others keep theirs.
LEMMA WithIdFacts ==
  ASSUME NEW t, StoreShape(t), IdsDistinct(t), NEW n \in Names
  PROVE  /\ WithId(t, n) = [t EXCEPT !.ids = WithId(t, n).ids]
         /\ StoreShape(WithId(t, n)) /\ IdsDistinct(WithId(t, n))
         /\ DOMAIN t.ids \subseteq DOMAIN WithId(t, n).ids
         /\ \A i \in DOMAIN t.ids : WithId(t, n).ids[i] = t.ids[i]
         /\ Known(WithId(t, n), n)
<1> DEFINE new == Append(t.ids, n)
           s == WithId(t, n)
<1>1. CASE Known(t, n)
  <2>1. s = t
    BY <1>1 DEF WithId
  <2>2. t = [t EXCEPT !.ids = t.ids]
    BY DEF StoreShape
  <2>3. QED BY <1>1, <2>1, <2>2
<1>2. CASE ~Known(t, n)
  <2>1. s = [t EXCEPT !.ids = new]
    BY <1>2 DEF WithId
  <2>2. s.ids = new /\ s.envs = t.envs /\ s = [t EXCEPT !.ids = s.ids]
    BY <2>1 DEF StoreShape
  <2>3. /\ new \in Seq(Names) /\ Len(new) = Len(t.ids) + 1
        /\ \A i \in 1..Len(t.ids) : new[i] = t.ids[i]
        /\ new[Len(t.ids) + 1] = n
        /\ DOMAIN new = 1..(Len(t.ids) + 1) /\ DOMAIN t.ids = 1..Len(t.ids)
        /\ Len(t.ids) \in Nat
    BY AppendProperties DEF StoreShape
  <2>4. \A i \in DOMAIN t.ids : t.ids[i] # n
    BY <1>2 DEF Known
  <2>5. \A i, j \in DOMAIN new : new[i] = new[j] => i = j
    BY <2>3, <2>4 DEF IdsDistinct
  <2>6. Known(s, n)
    BY <2>2, <2>3 DEF Known
  <2>7. DOMAIN t.ids \subseteq DOMAIN new
    BY <2>3
  <2> HIDE DEF new
  <2>8. StoreShape(s)
    BY <2>1, <2>2, <2>3 DEF StoreShape
  <2>9. IdsDistinct(s)
    BY <2>2, <2>5 DEF IdsDistinct
  <2> HIDE DEF s
  <2>10. \A i \in DOMAIN t.ids : s.ids[i] = t.ids[i]
    BY <2>2, <2>3
  <2>11. QED BY <2>2, <2>6, <2>7, <2>8, <2>9, <2>10 DEF s
<1> QED BY <1>1, <1>2

\* The id of a known name is an id, and its name is that name.
LEMMA IdForFacts ==
  ASSUME NEW t, NEW n, Known(t, n)
  PROVE  IdFor(t, n) \in DOMAIN t.ids /\ t.ids[IdFor(t, n)] = n
  BY DEF Known, IdFor

\* A sequence with one element replaced is a sequence as long as it was.
LEMMA ReplacedSeq ==
  ASSUME NEW s, IsSeq(s), NEW k \in DOMAIN s, NEW x
  PROVE  LET u == [s EXCEPT ![k] = x] IN
         /\ IsSeq(u) /\ DOMAIN u = DOMAIN s /\ Len(u) = Len(s) /\ u[k] = x
         /\ \A j \in DOMAIN s : j # k => u[j] = s[j]
<1> DEFINE u == [s EXCEPT ![k] = x]
           R == {s[i] : i \in DOMAIN s}
<1>1. s \in Seq(R)
  BY DEF IsSeq
<1>2. DOMAIN s = 1..Len(s) /\ Len(s) \in Nat
  BY <1>1, LenProperties
<1>3. DOMAIN u = DOMAIN s /\ u[k] = x /\ \A j \in DOMAIN s : j # k => u[j] = s[j]
  BY <1>2
<1>4. u \in [1..Len(s) -> {u[i] : i \in DOMAIN u}]
  BY <1>2, <1>3
<1>5. u \in Seq({u[i] : i \in DOMAIN u})
  <2> HIDE DEF u
  <2>1. \E n \in Nat : u \in [1..n -> {u[i] : i \in DOMAIN u}]
    BY <1>2, <1>4
  <2>2. QED BY <2>1, SeqDef, Zenon
<1>6. Len(u) = Len(s)
  BY <1>2, <1>3, <1>5, LenProperties
<1>7. QED BY <1>3, <1>5, <1>6 DEF IsSeq

\* u is t with the entry of id written to one table of one environment.
WritesTable(t, u, e, tab, id, info) ==
  /\ u = [t EXCEPT !.envs = u.envs]
  /\ StoreShape(u)
  /\ DOMAIN u.envs = DOMAIN t.envs
  /\ \A f \in DOMAIN t.envs : u.envs[f].path = t.envs[f].path
  /\ \A f \in DOMAIN t.envs, tb \in Tables :
       <<f, tb>> # <<e, tab>> => u.envs[f][tb] = t.envs[f][tb]
  /\ DOMAIN u.envs[e][tab].entry = DOMAIN t.envs[e][tab].entry \cup {id}
  /\ \A i \in DOMAIN t.envs[e][tab].entry :
       i # id => u.envs[e][tab].entry[i] = t.envs[e][tab].entry[i]
  /\ u.envs[e][tab].entry[id] =
       [name |-> t.ids[id], info |-> info, isGlobal |-> tab = "vars" /\ IsRoot(t, e)]
  /\ u.envs[e][tab].seq =
       IF contains(t, e, tab, id) THEN t.envs[e][tab].seq
       ELSE Append(t.envs[e][tab].seq, id)

\* setInfo writes one table of one environment.
LEMMA SetInfoFacts ==
  ASSUME NEW t, StoreShape(t), NEW e \in DOMAIN t.envs, NEW tab \in Tables,
         NEW id \in DOMAIN t.ids, NEW info \in Infos
  PROVE  WritesTable(t, setInfo(t, e, tab, id, info), e, tab, id, info)
<1> DEFINE old == t.envs[e][tab]
           value == [name |-> t.ids[id], info |-> info,
                     isGlobal |-> tab = "vars" /\ IsRoot(t, e)]
           entry == [i \in DOMAIN old.entry \cup {id} |->
                       IF i = id THEN value ELSE old.entry[i]]
           seq == IF contains(t, e, tab, id) THEN old.seq ELSE Append(old.seq, id)
           table == [entry |-> entry, seq |-> seq]
           env == [t.envs[e] EXCEPT ![tab] = table]
           envs == [t.envs EXCEPT ![e] = env]
           u == setInfo(t, e, tab, id, info)
<1>1. u = [t EXCEPT !.envs = envs]
  BY DEF setInfo
<1>2. u.envs = envs /\ u.ids = t.ids /\ u.top = t.top
  BY <1>1 DEF StoreShape
<1>3. EnvOK(t.envs[e]) /\ TableOK(old)
  <2>1. EnvOK(t.envs[e])
    BY DEF StoreShape
  <2>2. old = t.envs[e].vars \/ old = t.envs[e].funcs
    BY DEF Tables
  <2>3. QED BY <2>1, <2>2 DEF EnvOK
<1>4. value \in Entry
  <2>1. t.ids[id] \in Names
    BY DEF StoreShape
  <2>2. (tab = "vars" /\ IsRoot(t, e)) \in BOOLEAN
    OBVIOUS
  <2>3. QED BY <2>1, <2>2 DEF Entry
<1>5. id \in Nat
  <2>1. t.ids \in Seq(Names)
    BY DEF StoreShape
  <2>2. QED BY <2>1, LenProperties
<1>6. TableOK(table)
  <2>1. entry \in [DOMAIN old.entry \cup {id} -> Entry] /\ DOMAIN entry \subseteq Nat
    BY <1>3, <1>4, <1>5 DEF TableOK
  <2>2. seq \in Seq(Nat)
    BY <1>3, <1>5, AppendProperties DEF TableOK
  <2> HIDE DEF entry, seq
  <2>3. QED BY <2>1, <2>2 DEF TableOK
<1> HIDE DEF entry, seq, value
<1>7. /\ EnvOK(env) /\ env.path = t.envs[e].path /\ env[tab] = table
      /\ \A tb \in Tables : tb # tab => env[tb] = t.envs[e][tb]
  <2>1. CASE tab = "vars"
    BY <1>3, <1>6, <2>1 DEF EnvOK, Tables
  <2>2. CASE tab = "funcs"
    BY <1>3, <1>6, <2>2 DEF EnvOK, Tables
  <2>3. QED BY <2>1, <2>2 DEF Tables
<1> HIDE DEF env
<1>8. /\ IsSeq(envs) /\ DOMAIN envs = DOMAIN t.envs /\ envs[e] = env
      /\ \A f \in DOMAIN t.envs : f # e => envs[f] = t.envs[f]
  BY ReplacedSeq DEF StoreShape
<1> HIDE DEF envs
<1>9. \A f \in DOMAIN t.envs : EnvOK(envs[f]) /\ envs[f].path = t.envs[f].path
  BY <1>7, <1>8 DEF StoreShape
<1>10. StoreShape(u)
  BY <1>1, <1>2, <1>8, <1>9 DEF StoreShape
<1>11. \A f \in DOMAIN t.envs, tb \in Tables :
         <<f, tb>> # <<e, tab>> => envs[f][tb] = t.envs[f][tb]
  BY <1>7, <1>8
<1>12. u.envs[e][tab] = table
  BY <1>2, <1>7, <1>8
<1>13. /\ DOMAIN table.entry = DOMAIN old.entry \cup {id}
       /\ \A i \in DOMAIN old.entry : i # id => table.entry[i] = old.entry[i]
       /\ table.entry[id] = value /\ table.seq = seq
  BY DEF entry
<1>14. u = [t EXCEPT !.envs = u.envs]
  BY <1>1, <1>2
<1> HIDE DEF table, u
<1>15. /\ DOMAIN u.envs = DOMAIN t.envs
       /\ \A f \in DOMAIN t.envs : u.envs[f].path = t.envs[f].path
       /\ \A f \in DOMAIN t.envs, tb \in Tables :
            <<f, tb>> # <<e, tab>> => u.envs[f][tb] = t.envs[f][tb]
  BY <1>2, <1>8, <1>9, <1>11
<1>16. /\ DOMAIN u.envs[e][tab].entry = DOMAIN t.envs[e][tab].entry \cup {id}
       /\ \A i \in DOMAIN t.envs[e][tab].entry :
            i # id => u.envs[e][tab].entry[i] = t.envs[e][tab].entry[i]
  BY <1>12, <1>13
<1>17. u.envs[e][tab].entry[id] =
         [name |-> t.ids[id], info |-> info, isGlobal |-> tab = "vars" /\ IsRoot(t, e)]
  BY <1>12, <1>13 DEF value
<1>18. u.envs[e][tab].seq =
         IF contains(t, e, tab, id) THEN t.envs[e][tab].seq
         ELSE Append(t.envs[e][tab].seq, id)
  BY <1>12, <1>13 DEF seq
<1>19. WritesTable(t, u, e, tab, id, info)
  BY <1>10, <1>14, <1>15, <1>16, <1>17, <1>18 DEF WritesTable
<1>20. QED BY <1>19 DEF u

---------------------------------------------------------------------------
(* Paths.                                                                  *)

\* The path of an environment is a sequence of environments with itself last.
LEMMA PathFacts ==
  ASSUME NEW t, StoreShape(t), PathsNested(t), NEW e \in DOMAIN t.envs
  PROVE  LET p == t.envs[e].path IN
         /\ p \in Seq(Nat) /\ Len(p) \in Nat \ {0} /\ DOMAIN p = 1..Len(p)
         /\ p[1] = 1 /\ p[Len(p)] = e
         /\ \A k \in 1..Len(p) : p[k] \in DOMAIN t.envs
<1> DEFINE p == t.envs[e].path
<1>1. p \in Seq(Nat)
  BY DEF StoreShape, EnvOK
<1>2. p # <<>> /\ p[1] = 1 /\ p[Len(p)] = e /\ \A k \in DOMAIN p : p[k] \in DOMAIN t.envs
  BY DEF PathsNested
<1> HIDE DEF p
<1>3. Len(p) \in Nat \ {0} /\ DOMAIN p = 1..Len(p)
  BY <1>1, <1>2, EmptySeq, LenProperties
<1>4. QED BY <1>1, <1>2, <1>3 DEF p

\* The prefix of a path that ends in one of its environments is its path.
LEMMA PrefixPath ==
  ASSUME NEW t, StoreShape(t), PathsNested(t), NEW e \in DOMAIN t.envs,
         NEW k \in 1..Len(t.envs[e].path)
  PROVE  LET p == t.envs[e].path
             q == t.envs[p[k]].path
         IN /\ q = SubSeq(p, 1, k) /\ Len(q) = k /\ DOMAIN q = 1..k
            /\ \A j \in 1..k : q[j] = p[j]
<1> DEFINE p == t.envs[e].path
           q == SubSeq(p, 1, k)
<1>1. p \in Seq(Nat) /\ DOMAIN p = 1..Len(p) /\ Len(p) \in Nat
  BY PathFacts
<1>2. t.envs[p[k]].path = q
  BY <1>1 DEF PathsNested
<1>3. \A i \in 1..k : p[i] \in Nat
  BY <1>1, ElementOfSeq
<1>4. q \in Seq(Nat) /\ Len(q) = k /\ \A j \in 1..k : q[j] = p[j]
  <2>1. k \in Int /\ 1 \in Int /\ 1 <= k /\ k - 1 + 1 = k
    BY <1>1
  <2>2. /\ q \in Seq(Nat) /\ Len(q) = k - 1 + 1
        /\ \A j \in 1..(k - 1 + 1) : q[j] = p[1 + j - 1]
    BY <1>3, <2>1, SubSeqProperties
  <2>3. \A j \in 1..k : 1 + j - 1 = j
    OBVIOUS
  <2>4. QED BY <2>1, <2>2, <2>3
<1>5. DOMAIN q = 1..k
  BY <1>4, LenProperties
<1> HIDE DEF p, q
<1>6. QED BY <1>2, <1>4, <1>5 DEF p, q

\* The root is the first environment.
LEMMA RootIsFirst ==
  ASSUME NEW t, StoreShape(t), PathsNested(t), NEW e \in DOMAIN t.envs
  PROVE  IsRoot(t, e) <=> e = 1
<1> DEFINE p == t.envs[e].path
<1>1. Len(p) \in Nat \ {0} /\ p[1] = 1 /\ p[Len(p)] = e
  BY PathFacts
<1>2. ASSUME Len(p) = 1 PROVE e = 1
  BY <1>1, <1>2
<1>3. ASSUME e = 1 PROVE Len(p) = 1
  <2>1. 1 \in 1..Len(p)
    BY <1>1
  <2>2. \A k \in 1..Len(p) : Len(t.envs[p[k]].path) = k
    BY PrefixPath
  <2>3. Len(t.envs[p[1]].path) = 1
    BY <2>1, <2>2
  <2>4. QED BY <1>1, <1>3, <2>3
<1>4. QED BY <1>2, <1>3 DEF IsRoot

---------------------------------------------------------------------------
(* Each operation keeps the store in order.                                *)

\* Handing out an id.
LEMMA WithIdInv ==
  ASSUME NEW t, StoreInv(t), NEW n \in Names
  PROVE  StoreInv(WithId(t, n))
<1> DEFINE s == WithId(t, n)
<1>1. /\ s = [t EXCEPT !.ids = s.ids] /\ StoreShape(s) /\ IdsDistinct(s)
      /\ DOMAIN t.ids \subseteq DOMAIN s.ids
      /\ \A i \in DOMAIN t.ids : s.ids[i] = t.ids[i]
  BY WithIdFacts DEF StoreInv, InOrder
<1> HIDE DEF s
<1>2. s.envs = t.envs /\ s.top = t.top
  BY <1>1 DEF StoreInv, StoreShape
<1>3. PathsNested(s) /\ SequenceListsEntries(s)
  BY <1>2 DEF StoreInv, InOrder, PathsNested, SequenceListsEntries
<1>4. EntriesFiled(s)
  BY <1>1, <1>2 DEF StoreInv, InOrder, EntriesFiled
<1>5. StoreInv(s)
  BY <1>1, <1>2, <1>3, <1>4 DEF StoreInv, InOrder
<1>6. QED BY <1>5 DEF s

\* Order is a matter of ids and environments.
LEMMA SameTables ==
  ASSUME NEW t, InOrder(t), NEW u, u.ids = t.ids, u.envs = t.envs
  PROVE  InOrder(u)
<1>1. IdsDistinct(u) /\ PathsNested(u) /\ EntriesFiled(u) /\ SequenceListsEntries(u)
  BY DEF InOrder, IdsDistinct, PathsNested, EntriesFiled, SequenceListsEntries
<1>2. QED BY <1>1 DEF InOrder

\* Changing nodes, or attaching environments to them.
LEMMA NodesInv ==
  ASSUME NEW t, StoreInv(t), NEW u, StoreShape(u),
         u.ids = t.ids, u.envs = t.envs, u.top = t.top
  PROVE  StoreInv(u)
  BY SameTables DEF StoreInv

\* Closing the open environment.
LEMMA PopEnvInv ==
  ASSUME NEW t, StoreInv(t), ~IsRoot(t, t.top)
  PROVE  StoreInv(PopEnv(t)) /\ PopEnv(t) = [t EXCEPT !.top = Parent(t, t.top)]
<1> DEFINE p == t.envs[t.top].path
           u == PopEnv(t)
<1>1. u = [t EXCEPT !.top = Parent(t, t.top)]
  BY DEF PopEnv
<1>2. u.ids = t.ids /\ u.envs = t.envs /\ u.top = p[Len(p) - 1]
  BY <1>1 DEF StoreInv, StoreShape, Parent
<1>3. Len(p) \in Nat \ {0} /\ \A k \in 1..Len(p) : p[k] \in DOMAIN t.envs
  BY PathFacts DEF StoreInv, InOrder
<1>4. Len(p) - 1 \in 1..Len(p)
  <2>1. Len(p) # 1
    BY DEF IsRoot
  <2>2. \A n \in Nat \ {0} : n # 1 => n - 1 \in 1..n
    OBVIOUS
  <2>3. QED BY <1>3, <2>1, <2>2, Zenon
<1>5. u.top \in DOMAIN u.envs
  BY <1>2, <1>3, <1>4
<1>6. StoreShape(u)
  BY <1>1, <1>2 DEF StoreInv, StoreShape
<1> HIDE DEF u
<1>7. InOrder(u)
  BY <1>2, SameTables DEF StoreInv
<1>8. StoreInv(u)
  BY <1>5, <1>6, <1>7 DEF StoreInv
<1>9. QED BY <1>1, <1>8 DEF u

\* Opening an environment below the open one.
LEMMA PushEnvFacts ==
  ASSUME NEW t, StoreInv(t)
  PROVE  LET u == PushEnv(t)
             n == Len(t.envs)
             p == t.envs[t.top].path
         IN /\ n \in Nat /\ DOMAIN t.envs = 1..n /\ DOMAIN u.envs = 1..(n + 1)
            /\ \A e \in 1..n : u.envs[e] = t.envs[e]
            /\ u.envs[n + 1] = NewEnv(Append(p, n + 1))
            /\ u.top = n + 1 /\ u.ids = t.ids
            /\ StoreShape(u)
<1> DEFINE n == Len(t.envs)
           p == t.envs[t.top].path
           new == NewEnv(Append(p, n + 1))
           envs == Append(t.envs, new)
           u == PushEnv(t)
           R == {t.envs[i] : i \in DOMAIN t.envs}
<1>1. t.envs \in Seq(R) /\ StoreShape(t)
  BY DEF StoreInv, StoreShape, IsSeq
<1>2. n \in Nat /\ DOMAIN t.envs = 1..n
  BY <1>1, LenProperties
<1>3. u = [t EXCEPT !.envs = envs, !.top = n + 1]
  BY DEF PushEnv
<1>4. u.envs = envs /\ u.top = n + 1 /\ u.ids = t.ids
  BY <1>1, <1>3 DEF StoreShape
<1>5. t.envs \in Seq(R \cup {new}) /\ new \in R \cup {new}
  BY <1>1, SeqMonotonic
<1>6. /\ envs \in Seq(R \cup {new}) /\ Len(envs) = n + 1
      /\ \A i \in 1..n : envs[i] = t.envs[i]
      /\ envs[n + 1] = new
  BY <1>5, AppendProperties
<1>7. DOMAIN envs = 1..(n + 1)
  BY <1>6, LenProperties
<1>8. p \in Seq(Nat)
  BY PathFacts DEF StoreInv, InOrder
<1>9. EnvOK(new)
  <2>1. Append(p, n + 1) \in Seq(Nat)
    BY <1>2, <1>8, AppendProperties
  <2>2. TableOK(EmptyTable)
    <3>1. EmptyTable.entry = [i \in {} |-> {}] /\ EmptyTable.seq = <<>>
          /\ EmptyTable = [entry |-> EmptyTable.entry, seq |-> EmptyTable.seq]
      BY DEF EmptyTable
    <3>2. EmptyTable.seq \in Seq(Nat)
      BY <3>1, EmptySeq
    <3>3. EmptyTable.entry \in [DOMAIN EmptyTable.entry -> Entry] /\ DOMAIN EmptyTable.entry = {}
      BY <3>1
    <3>4. QED BY <3>1, <3>2, <3>3 DEF TableOK
  <2>3. QED BY <2>1, <2>2 DEF EnvOK, NewEnv
<1> HIDE DEF new
<1>10. \A e \in 1..(n + 1) : EnvOK(envs[e])
  <2>1. \A e \in 1..n : EnvOK(t.envs[e])
    BY <1>1, <1>2 DEF StoreShape
  <2>2. \A e \in 1..(n + 1) : e \in 1..n \/ e = n + 1
    BY <1>2
  <2>3. QED BY <1>6, <1>9, <2>1, <2>2
<1>11. IsSeq(envs)
  <2> DEFINE Q == {envs[i] : i \in DOMAIN envs}
  <2>1. n + 1 \in Nat /\ envs \in [1..(n + 1) -> Q]
    BY <1>2, <1>6, <1>7, LenProperties
  <2> HIDE DEF Q
  <2>2. \E k \in Nat : envs \in [1..k -> Q]
    BY <2>1
  <2>3. envs \in Seq(Q)
    BY <2>2, SeqDef, Zenon
  <2>4. QED BY <2>3 DEF IsSeq, Q
<1> HIDE DEF envs
<1>12. StoreShape(u)
  BY <1>1, <1>3, <1>4, <1>7, <1>10, <1>11 DEF StoreShape
<1>13. QED BY <1>2, <1>4, <1>6, <1>7, <1>12 DEF new

\* A climbing sequence stays one when a greater number is appended, and keeps
\* its prefixes.
LEMMA ExtendedPath ==
  ASSUME NEW p \in Seq(Nat), NEW m \in Nat, Len(p) # 0,
         \A k \in 1..Len(p) : p[k] < m,
         \A j, k \in 1..Len(p) : j < k => p[j] < p[k]
  PROVE  LET q == Append(p, m) IN
         /\ q \in Seq(Nat) /\ q # <<>> /\ Len(q) = Len(p) + 1 /\ DOMAIN q = 1..(Len(p) + 1)
         /\ \A k \in 1..Len(p) : q[k] = p[k] /\ SubSeq(q, 1, k) = SubSeq(p, 1, k)
         /\ q[Len(p) + 1] = m
         /\ SubSeq(q, 1, Len(p) + 1) = q
         /\ \A j, k \in 1..(Len(p) + 1) : j < k => q[j] < q[k]
<1> DEFINE q == Append(p, m)
           l == Len(p)
<1>1. /\ q \in Seq(Nat) /\ Len(q) = l + 1
      /\ \A k \in 1..l : q[k] = p[k]
      /\ q[l + 1] = m
  BY AppendProperties
<1>2. DOMAIN q = 1..(l + 1) /\ l \in Nat
  BY <1>1, LenProperties
<1>3. q # <<>>
  BY <1>1, <1>2, EmptySeq
<1>4. SubSeq(q, 1, l + 1) = q
  BY <1>1, SubSeqFull
<1>5. \A k \in 1..l : p[k] \in Nat
  BY ElementOfSeq
<1> HIDE DEF q
<1>6. ASSUME NEW k \in 1..l PROVE SubSeq(q, 1, k) = SubSeq(p, 1, k)
  <2>1. k \in Int /\ 1 \in Int /\ k - 1 + 1 = k
    BY <1>2
  <2>2. \A i \in 1..k : p[i] = q[i] /\ p[i] \in Nat /\ q[i] \in Nat
    BY <1>1, <1>2, <1>5
  <2>3. /\ SubSeq(p, 1, k) \in Seq(Nat) /\ Len(SubSeq(p, 1, k)) = k
        /\ \A i \in 1..k : SubSeq(p, 1, k)[i] = p[1 + i - 1]
    BY <1>2, <2>1, <2>2, SubSeqProperties
  <2>4. /\ SubSeq(q, 1, k) \in Seq(Nat) /\ Len(SubSeq(q, 1, k)) = k
        /\ \A i \in 1..k : SubSeq(q, 1, k)[i] = q[1 + i - 1]
    BY <1>2, <2>1, <2>2, SubSeqProperties
  <2>5. \A i \in 1..k : 1 + i - 1 = i
    OBVIOUS
  <2>6. \A i \in 1..k : SubSeq(p, 1, k)[i] = SubSeq(q, 1, k)[i]
    BY <2>2, <2>3, <2>4, <2>5
  <2>7. QED BY <2>3, <2>4, <2>6, SeqEqual
<1>7. ASSUME NEW j \in 1..(l + 1), NEW k \in 1..(l + 1), j < k PROVE q[j] < q[k]
  <2>1. j \in 1..l /\ (k \in 1..l \/ k = l + 1)
    BY <1>2, <1>7
  <2>2. QED BY <1>1, <1>7, <2>1
<1>8. /\ q \in Seq(Nat) /\ q # <<>> /\ Len(q) = l + 1 /\ DOMAIN q = 1..(l + 1)
      /\ \A k \in 1..l : q[k] = p[k] /\ SubSeq(q, 1, k) = SubSeq(p, 1, k)
      /\ q[l + 1] = m
      /\ SubSeq(q, 1, l + 1) = q
      /\ \A j, k \in 1..(l + 1) : j < k => q[j] < q[k]
  BY <1>1, <1>2, <1>3, <1>4, <1>6, <1>7
<1>9. QED BY <1>8 DEF q

\* The path of the environment at the end of the list, one level below p's.
LEMMA PushEnvPath ==
  ASSUME NEW t, StoreInv(t)
  PROVE  LET n == Len(t.envs)
             p == t.envs[t.top].path
             q == Append(p, n + 1)
         IN /\ q # <<>> /\ q[1] = 1 /\ Len(q) = Len(p) + 1 /\ DOMAIN q = 1..(Len(p) + 1)
            /\ q[Len(q)] = n + 1 /\ SubSeq(q, 1, Len(q)) = q
            /\ \A k \in 1..Len(p) : q[k] = p[k] /\ p[k] \in 1..n
                                   /\ t.envs[q[k]].path = SubSeq(q, 1, k)
            /\ \A j, k \in 1..(Len(p) + 1) : j < k => q[j] < q[k]
<1> DEFINE n == Len(t.envs)
           p == t.envs[t.top].path
           q == Append(p, n + 1)
<1>1. n \in Nat /\ DOMAIN t.envs = 1..n
  BY PushEnvFacts
<1>2. StoreShape(t) /\ t.top \in DOMAIN t.envs /\ PathsNested(t)
  BY DEF StoreInv, InOrder
<1>3. /\ p \in Seq(Nat) /\ Len(p) \in Nat \ {0} /\ DOMAIN p = 1..Len(p) /\ p[1] = 1
      /\ \A k \in 1..Len(p) : p[k] \in 1..n
  BY <1>1, <1>2, PathFacts
<1>4. /\ \A j, k \in DOMAIN p : j < k => p[j] < p[k]
      /\ \A k \in DOMAIN p : t.envs[p[k]].path = SubSeq(p, 1, k)
  BY <1>2 DEF PathsNested
<1> HIDE DEF p, n, q
<1>5. \A k \in 1..Len(p) : p[k] < n + 1
  BY <1>1, <1>3
<1>6. n + 1 \in Nat /\ Len(p) # 0 /\ 1 \in 1..Len(p)
  BY <1>1, <1>3
<1>7. /\ q \in Seq(Nat) /\ q # <<>> /\ Len(q) = Len(p) + 1 /\ DOMAIN q = 1..(Len(p) + 1)
      /\ \A k \in 1..Len(p) : q[k] = p[k] /\ SubSeq(q, 1, k) = SubSeq(p, 1, k)
      /\ q[Len(p) + 1] = n + 1
      /\ SubSeq(q, 1, Len(p) + 1) = q
      /\ \A j, k \in 1..(Len(p) + 1) : j < k => q[j] < q[k]
  BY <1>3, <1>4, <1>5, <1>6, ExtendedPath DEF q
<1>8. \A k \in 1..Len(p) : q[k] = p[k] /\ p[k] \in 1..n
                           /\ t.envs[q[k]].path = SubSeq(q, 1, k)
  BY <1>3, <1>4, <1>7
<1>9. q[1] = 1
  BY <1>3, <1>6, <1>7
<1>10. QED BY <1>7, <1>8, <1>9 DEF p, n, q

\* Opening an environment keeps the store in order.
LEMMA PushEnvInv ==
  ASSUME NEW t, StoreInv(t)
  PROVE  StoreInv(PushEnv(t))
<1> DEFINE u == PushEnv(t)
           n == Len(t.envs)
           p == t.envs[t.top].path
           q == Append(p, n + 1)
<1>1. /\ n \in Nat /\ DOMAIN t.envs = 1..n /\ DOMAIN u.envs = 1..(n + 1)
      /\ \A e \in 1..n : u.envs[e] = t.envs[e]
      /\ u.envs[n + 1] = NewEnv(q)
      /\ u.top = n + 1 /\ u.ids = t.ids
      /\ StoreShape(u)
  BY PushEnvFacts
<1>2. StoreShape(t) /\ t.top \in 1..n /\ InOrder(t)
  BY <1>1 DEF StoreInv
<1>4. Len(p) \in Nat
  BY <1>1, <1>2, PathFacts DEF InOrder
<1>5. /\ q # <<>> /\ q[1] = 1 /\ Len(q) = Len(p) + 1 /\ DOMAIN q = 1..(Len(p) + 1)
      /\ q[Len(q)] = n + 1 /\ SubSeq(q, 1, Len(q)) = q
      /\ \A k \in 1..Len(p) : q[k] \in 1..n /\ t.envs[q[k]].path = SubSeq(q, 1, k)
      /\ \A j, k \in 1..(Len(p) + 1) : j < k => q[j] < q[k]
  BY PushEnvPath
<1> HIDE DEF u, n, p, q
<1>3. u.envs[n + 1].path = q /\ \A tab \in Tables : u.envs[n + 1][tab] = EmptyTable
  BY <1>1 DEF NewEnv, Tables
<1>6. \A e \in 1..(n + 1) : e \in 1..n \/ e = n + 1
  BY <1>1
<1>7. \A k \in 1..(Len(p) + 1) : k \in 1..Len(p) \/ k = Len(q)
  BY <1>4, <1>5
<1>8. PathsNested(u)
  <2> SUFFICES ASSUME NEW e \in 1..(n + 1), NEW r, r = u.envs[e].path
               PROVE  /\ r # <<>> /\ r[1] = 1 /\ r[Len(r)] = e
                      /\ \A k \in DOMAIN r :
                           /\ r[k] \in DOMAIN u.envs
                           /\ u.envs[r[k]].path = SubSeq(r, 1, k)
                           /\ \A j \in DOMAIN r : j < k => r[j] < r[k]
    BY <1>1 DEF PathsNested
  <2>1. CASE e \in 1..n
    <3>1. r = t.envs[e].path
      BY <1>1, <2>1
    <3>2. /\ r # <<>> /\ r[1] = 1 /\ r[Len(r)] = e
          /\ \A k \in DOMAIN r :
               /\ r[k] \in 1..n
               /\ t.envs[r[k]].path = SubSeq(r, 1, k)
               /\ \A j \in DOMAIN r : j < k => r[j] < r[k]
      <4>1. PathsNested(t) /\ e \in DOMAIN t.envs
        BY <1>1, <1>2, <2>1 DEF InOrder
      <4>2. /\ r # <<>> /\ r[1] = 1 /\ r[Len(r)] = e
            /\ \A k \in DOMAIN r :
                 /\ r[k] \in DOMAIN t.envs
                 /\ t.envs[r[k]].path = SubSeq(r, 1, k)
                 /\ \A j \in DOMAIN r : j < k => r[j] < r[k]
        <5> DEFINE w == t.envs[e].path
        <5>1. /\ w # <<>> /\ w[1] = 1 /\ w[Len(w)] = e
              /\ \A k \in DOMAIN w :
                   /\ w[k] \in DOMAIN t.envs
                   /\ t.envs[w[k]].path = SubSeq(w, 1, k)
                   /\ \A j \in DOMAIN w : j < k => w[j] < w[k]
          BY <4>1 DEF PathsNested
        <5> HIDE DEF w
        <5>2. r = w
          BY <3>1 DEF w
        <5>3. QED BY <5>1, <5>2
      <4>3. QED BY <1>1, <4>2
    <3>3. \A m \in 1..n : m \in DOMAIN u.envs /\ u.envs[m] = t.envs[m]
      BY <1>1
    <3>4. QED BY <3>2, <3>3
  <2>2. CASE e = n + 1
    <3>1. r = q
      BY <1>3, <2>2
    <3>2. \A m \in 1..n : m \in DOMAIN u.envs /\ u.envs[m] = t.envs[m]
      BY <1>1
    <3>3. n + 1 \in DOMAIN u.envs
      BY <1>1
    <3>4. \A k \in 1..(Len(p) + 1) : q[k] \in DOMAIN u.envs /\ u.envs[q[k]].path = SubSeq(q, 1, k)
      BY <1>3, <1>5, <1>7, <3>2, <3>3
    <3>5. QED BY <1>5, <2>2, <3>1, <3>4
  <2>3. QED BY <1>6, <2>1, <2>2
<1>9. \A tab \in Tables : DOMAIN u.envs[n + 1][tab].entry = {} /\ u.envs[n + 1][tab].seq = <<>>
  BY <1>3 DEF EmptyTable
<1>10. EntriesFiled(u)
  <2> SUFFICES ASSUME NEW e \in 1..(n + 1), NEW tab \in Tables,
                      NEW id \in DOMAIN u.envs[e][tab].entry
               PROVE  /\ id \in DOMAIN u.ids
                      /\ u.envs[e][tab].entry[id].name = u.ids[id]
                      /\ u.envs[e][tab].entry[id].isGlobal <=> (tab = "vars" /\ e = 1)
    BY <1>1 DEF EntriesFiled
  <2>1. e \in 1..n /\ u.envs[e] = t.envs[e]
    BY <1>1, <1>6, <1>9
  <2>2. QED BY <1>1, <1>2, <2>1 DEF InOrder, EntriesFiled
<1>11. SequenceListsEntries(u)
  <2> SUFFICES ASSUME NEW e \in 1..(n + 1), NEW tab \in Tables
               PROVE  LET s == u.envs[e][tab].seq
                          D == DOMAIN u.envs[e][tab].entry
                      IN /\ \A k \in DOMAIN s : s[k] \in D
                         /\ \A j, k \in DOMAIN s : s[j] = s[k] => j = k
                         /\ e = 1 => \A id \in D : \E k \in DOMAIN s : s[k] = id
    BY <1>1 DEF SequenceListsEntries
  <2>1. CASE e \in 1..n
    BY <1>1, <1>2, <2>1 DEF InOrder, SequenceListsEntries
  <2>2. CASE e = n + 1
    <3>1. DOMAIN u.envs[e][tab].seq = {} /\ DOMAIN u.envs[e][tab].entry = {}
      BY <1>9, <2>2
    <3>2. QED BY <3>1
  <2>3. QED BY <1>6, <2>1, <2>2
<1>12. IdsDistinct(u)
  BY <1>1, <1>2 DEF InOrder, IdsDistinct
<1>13. u.top \in DOMAIN u.envs
  BY <1>1
<1>14. StoreInv(u)
  BY <1>1, <1>8, <1>10, <1>11, <1>12, <1>13 DEF StoreInv, InOrder
<1>15. QED BY <1>14 DEF u

\* A table that is written holds the entry; a root that is asked for an id
\* answers from its own table.
LEMMA ContainsFacts ==
  ASSUME NEW t, StoreShape(t), PathsNested(t), NEW e \in DOMAIN t.envs, NEW tab, NEW id
  PROVE  /\ id \in DOMAIN t.envs[e][tab].entry => contains(t, e, tab, id)
         /\ e = 1 /\ contains(t, e, tab, id) => id \in DOMAIN t.envs[e][tab].entry
<1> DEFINE p == t.envs[e].path
<1>1. /\ Len(p) \in Nat \ {0} /\ DOMAIN p = 1..Len(p) /\ p[1] = 1 /\ p[Len(p)] = e
      /\ e = 1 => Len(p) = 1
  BY PathFacts, RootIsFirst DEF IsRoot
<1>2. contains(t, e, tab, id) <=> \E k \in DOMAIN p : id \in DOMAIN t.envs[p[k]][tab].entry
  BY DEF contains, Holders
<1> HIDE DEF p
<1>3. ASSUME id \in DOMAIN t.envs[e][tab].entry PROVE contains(t, e, tab, id)
  <2>1. Len(p) \in DOMAIN p
    BY <1>1
  <2>2. QED BY <1>1, <1>2, <1>3, <2>1
<1>4. ASSUME e = 1, contains(t, e, tab, id) PROVE id \in DOMAIN t.envs[e][tab].entry
  <2>1. PICK k \in DOMAIN p : id \in DOMAIN t.envs[p[k]][tab].entry
    BY <1>2, <1>4
  <2>2. k = 1
    BY <1>1, <1>4
  <2>3. QED BY <1>1, <1>4, <2>1, <2>2
<1>5. QED BY <1>3, <1>4

\* Appending a new element to a sequence without repetitions.
LEMMA AppendedOnce ==
  ASSUME NEW S, NEW s \in Seq(S), NEW x \in S, \A k \in DOMAIN s : s[k] # x,
         \A j, k \in DOMAIN s : s[j] = s[k] => j = k
  PROVE  LET r == Append(s, x) IN
         /\ \A j, k \in DOMAIN r : r[j] = r[k] => j = k
         /\ \A k \in DOMAIN r : r[k] = x \/ \E j \in DOMAIN s : r[k] = s[j]
         /\ \E k \in DOMAIN r : r[k] = x
         /\ \A j \in DOMAIN s : \E k \in DOMAIN r : r[k] = s[j]
<1> DEFINE r == Append(s, x)
<1>1. /\ Len(r) = Len(s) + 1 /\ r \in Seq(S)
      /\ \A i \in 1..Len(s) : r[i] = s[i]
      /\ r[Len(s) + 1] = x
  BY AppendProperties
<1>2. DOMAIN r = 1..(Len(s) + 1) /\ DOMAIN s = 1..Len(s) /\ Len(s) \in Nat
  BY <1>1, LenProperties
<1> HIDE DEF r
<1>3. \A k \in DOMAIN r : k \in DOMAIN s \/ k = Len(s) + 1
  BY <1>2
<1>4. \A k \in DOMAIN s : k \in DOMAIN r /\ r[k] = s[k]
  BY <1>1, <1>2
<1>5. Len(s) + 1 \in DOMAIN r
  BY <1>2
<1>6. \A j, k \in DOMAIN r : r[j] = r[k] => j = k
  BY <1>1, <1>3, <1>4
<1>7. QED BY <1>1, <1>3, <1>4, <1>5, <1>6 DEF r

\* Writing an entry keeps the store in order.
LEMMA SetInfoInv ==
  ASSUME NEW t, StoreInv(t), NEW e \in DOMAIN t.envs, NEW tab \in Tables,
         NEW id \in DOMAIN t.ids, NEW info \in Infos
  PROVE  StoreInv(setInfo(t, e, tab, id, info))
<1> DEFINE u == setInfo(t, e, tab, id, info)
<1>1. WritesTable(t, u, e, tab, id, info)
  BY SetInfoFacts DEF StoreInv
<1> HIDE DEF u
<1>2. StoreShape(t) /\ t.top \in DOMAIN t.envs /\ IdsDistinct(t) /\ PathsNested(t)
      /\ EntriesFiled(t) /\ SequenceListsEntries(t)
  BY DEF StoreInv, InOrder
<1>3. u.ids = t.ids /\ u.top = t.top
  <2>1. u = [t EXCEPT !.envs = u.envs]
    BY <1>1 DEF WritesTable
  <2>2. QED BY <1>2, <2>1 DEF StoreShape
<1>4. /\ StoreShape(u) /\ DOMAIN u.envs = DOMAIN t.envs
      /\ \A f \in DOMAIN t.envs : u.envs[f].path = t.envs[f].path
      /\ \A f \in DOMAIN t.envs, tb \in Tables :
           <<f, tb>> # <<e, tab>> => u.envs[f][tb] = t.envs[f][tb]
  BY <1>1 DEF WritesTable
<1>5. PathsNested(u)
  <2> SUFFICES ASSUME NEW f \in DOMAIN t.envs, NEW p, p = u.envs[f].path
               PROVE  /\ p # <<>> /\ p[1] = 1 /\ p[Len(p)] = f
                      /\ \A k \in DOMAIN p :
                           /\ p[k] \in DOMAIN u.envs
                           /\ u.envs[p[k]].path = SubSeq(p, 1, k)
                           /\ \A j \in DOMAIN p : j < k => p[j] < p[k]
    BY <1>4 DEF PathsNested
  <2> DEFINE w == t.envs[f].path
  <2>1. /\ w # <<>> /\ w[1] = 1 /\ w[Len(w)] = f
        /\ \A k \in DOMAIN w :
             /\ w[k] \in DOMAIN t.envs
             /\ t.envs[w[k]].path = SubSeq(w, 1, k)
             /\ \A j \in DOMAIN w : j < k => w[j] < w[k]
    BY <1>2 DEF PathsNested
  <2> HIDE DEF w
  <2>2. p = w
    BY <1>4 DEF w
  <2>3. QED BY <1>4, <2>1, <2>2
<1>6. EntriesFiled(u)
  <2> SUFFICES ASSUME NEW f \in DOMAIN t.envs, NEW tb \in Tables,
                      NEW i \in DOMAIN u.envs[f][tb].entry
               PROVE  /\ i \in DOMAIN t.ids
                      /\ u.envs[f][tb].entry[i].name = t.ids[i]
                      /\ u.envs[f][tb].entry[i].isGlobal <=> (tb = "vars" /\ f = 1)
    BY <1>3, <1>4 DEF EntriesFiled
  <2>1. CASE <<f, tb>> # <<e, tab>>
    <3>1. u.envs[f][tb] = t.envs[f][tb]
      BY <1>4, <2>1
    <3>2. QED BY <1>2, <3>1 DEF EntriesFiled
  <2>2. CASE f = e /\ tb = tab /\ i = id
    <3>1. u.envs[e][tab].entry[id] =
            [name |-> t.ids[id], info |-> info, isGlobal |-> tab = "vars" /\ IsRoot(t, e)]
      BY <1>1 DEF WritesTable
    <3>2. IsRoot(t, e) <=> e = 1
      BY <1>2, RootIsFirst
    <3>3. PICK g \in BOOLEAN : g = (tab = "vars" /\ IsRoot(t, e))
      OBVIOUS
    <3>4. u.envs[e][tab].entry[id] = [name |-> t.ids[id], info |-> info, isGlobal |-> g]
      BY <3>1, <3>3
    <3>5. u.envs[e][tab].entry[id].name = t.ids[id] /\ u.envs[e][tab].entry[id].isGlobal = g
      BY <3>4
    <3>6. QED BY <2>2, <3>2, <3>3, <3>5
  <2>3. CASE f = e /\ tb = tab /\ i # id
    <3>1. i \in DOMAIN t.envs[e][tab].entry
          /\ u.envs[e][tab].entry[i] = t.envs[e][tab].entry[i]
      BY <1>1, <2>3 DEF WritesTable
    <3>2. QED BY <1>2, <2>3, <3>1 DEF EntriesFiled
  <2>4. QED BY <2>1, <2>2, <2>3
<1>7. SequenceListsEntries(u)
  <2> SUFFICES ASSUME NEW f \in DOMAIN t.envs, NEW tb \in Tables
               PROVE  LET s == u.envs[f][tb].seq
                          D == DOMAIN u.envs[f][tb].entry
                      IN /\ \A k \in DOMAIN s : s[k] \in D
                         /\ \A j, k \in DOMAIN s : s[j] = s[k] => j = k
                         /\ f = 1 => \A i \in D : \E k \in DOMAIN s : s[k] = i
    BY <1>4 DEF SequenceListsEntries
  <2> SUFFICES ASSUME NEW s, NEW D,
                      s = u.envs[f][tb].seq, D = DOMAIN u.envs[f][tb].entry
               PROVE  /\ \A k \in DOMAIN s : s[k] \in D
                      /\ \A j, k \in DOMAIN s : s[j] = s[k] => j = k
                      /\ f = 1 => \A i \in D : \E k \in DOMAIN s : s[k] = i
    OBVIOUS
  <2> DEFINE old == t.envs[f][tb].seq
             Old == DOMAIN t.envs[f][tb].entry
  <2>1. /\ \A k \in DOMAIN old : old[k] \in Old
        /\ \A j, k \in DOMAIN old : old[j] = old[k] => j = k
        /\ f = 1 => \A i \in Old : \E k \in DOMAIN old : old[k] = i
    BY <1>2 DEF SequenceListsEntries
  <2>2. CASE <<f, tb>> # <<e, tab>>
    <3>1. u.envs[f][tb] = t.envs[f][tb]
      BY <1>4, <2>2
    <3>2. s = old /\ D = Old
      BY <3>1
    <3> HIDE DEF old, Old
    <3>3. QED BY <2>1, <3>2
  <2>3. CASE f = e /\ tb = tab /\ contains(t, e, tab, id)
    <3>1. s = old /\ D = Old \cup {id}
      BY <1>1, <2>3 DEF WritesTable
    <3>2. f = 1 => id \in Old
      BY <1>2, <2>3, ContainsFacts
    <3> HIDE DEF old, Old
    <3>3. QED BY <2>1, <3>1, <3>2
  <2>4. CASE f = e /\ tb = tab /\ ~contains(t, e, tab, id)
    <3>1. s = Append(old, id) /\ D = Old \cup {id}
      BY <1>1, <2>4 DEF WritesTable
    <3>2. id \notin Old
      BY <1>2, <2>4, ContainsFacts
    <3>3. old \in Seq(Nat) /\ id \in Nat
      <4>1. EnvOK(t.envs[f]) /\ t.ids \in Seq(Names)
        BY <1>2 DEF StoreShape
      <4>2. TableOK(t.envs[f][tb])
        BY <4>1 DEF EnvOK, Tables
      <4>3. old \in Seq(Nat)
        BY <4>2 DEF TableOK
      <4>4. DOMAIN t.ids = 1..Len(t.ids)
        BY <4>1, LenProperties
      <4>5. QED BY <4>3, <4>4
    <3> HIDE DEF old, Old
    <3>4. \A k \in DOMAIN old : old[k] # id
      BY <2>1, <3>2
    <3>5. /\ \A j, k \in DOMAIN s : s[j] = s[k] => j = k
          /\ \A k \in DOMAIN s : s[k] = id \/ \E j \in DOMAIN old : s[k] = old[j]
          /\ \E k \in DOMAIN s : s[k] = id
          /\ \A j \in DOMAIN old : \E k \in DOMAIN s : s[k] = old[j]
      <4> DEFINE r == Append(old, id)
      <4>1. /\ \A j, k \in DOMAIN r : r[j] = r[k] => j = k
            /\ \A k \in DOMAIN r : r[k] = id \/ \E j \in DOMAIN old : r[k] = old[j]
            /\ \E k \in DOMAIN r : r[k] = id
            /\ \A j \in DOMAIN old : \E k \in DOMAIN r : r[k] = old[j]
        BY <2>1, <3>3, <3>4, AppendedOnce
      <4>2. s = r
        BY <3>1
      <4> HIDE DEF r
      <4>3. QED BY <4>1, <4>2
    <3>6. \A k \in DOMAIN s : s[k] \in D
      BY <2>1, <3>1, <3>5
    <3>7. f = 1 => \A i \in D : \E k \in DOMAIN s : s[k] = i
      BY <2>1, <3>1, <3>5
    <3>8. QED BY <3>5, <3>6, <3>7
  <2>5. QED BY <2>2, <2>3, <2>4
<1>8. IdsDistinct(u)
  BY <1>2, <1>3 DEF IdsDistinct
<1>9. StoreInv(u)
  BY <1>2, <1>3, <1>4, <1>5, <1>6, <1>7, <1>8 DEF StoreInv, InOrder
<1>10. QED BY <1>9 DEF u

\* Entering a name keeps the store in order.
LEMMA EnterInv ==
  ASSUME NEW t, StoreInv(t), NEW e \in DOMAIN t.envs, NEW tab \in Tables,
         NEW n \in Names, NEW info \in Infos
  PROVE  StoreInv(Enter(t, e, tab, n, info))
<1> DEFINE s == WithId(t, n)
<1>1. StoreInv(s)
  BY WithIdInv
<1>2. s = [t EXCEPT !.ids = s.ids] /\ Known(s, n)
  BY WithIdFacts DEF StoreInv, InOrder
<1>3. Enter(t, e, tab, n, info) = setInfo(s, e, tab, IdFor(s, n), info)
  BY DEF Enter
<1> HIDE DEF s
<1>4. s.envs = t.envs
  BY <1>2 DEF StoreInv, StoreShape
<1>5. IdFor(s, n) \in DOMAIN s.ids
  BY <1>2, IdForFacts
<1>6. QED BY <1>1, <1>3, <1>4, <1>5, SetInfoInv

---------------------------------------------------------------------------
(* The store stays in order whatever its client does.                      *)

\* The empty tree is in order.
LEMMA InitInv == TreeInit => StoreInv(tree)
<1> SUFFICES ASSUME TreeInit PROVE StoreInv(tree)
  OBVIOUS
<1> DEFINE root == NewEnv(<<1>>)
<1>1. tree = [ids |-> <<>>, envs |-> <<root>>, top |-> 1, nodes |-> <<>>,
              envOf |-> [n \in {} |-> 0]]
  BY DEF TreeInit, EmptyTree
<1>2. root.path = <<1>> /\ root.vars = EmptyTable /\ root.funcs = EmptyTable
  BY DEF NewEnv
<1>3. /\ EmptyTable = [entry |-> EmptyTable.entry, seq |-> EmptyTable.seq]
      /\ EmptyTable.seq = <<>> /\ DOMAIN EmptyTable.entry = {}
      /\ EmptyTable.entry \in [{} -> Entry]
  BY DEF EmptyTable
<1>4. EnvOK(root)
  <2>1. TableOK(EmptyTable)
    BY <1>3, EmptySeq DEF TableOK
  <2>2. <<1>> \in Seq(Nat)
    OBVIOUS
  <2>3. root = [path |-> root.path, vars |-> root.vars, funcs |-> root.funcs]
    BY DEF NewEnv
  <2>4. QED BY <1>2, <2>1, <2>2, <2>3 DEF EnvOK
<1> HIDE DEF root
<1>5. DOMAIN tree.envs = {1} /\ tree.envs[1] = root /\ tree.ids = <<>> /\ tree.top = 1
  BY <1>1
<1>6. IsSeq(tree.envs)
  <2>1. tree.envs \in [1..1 -> {tree.envs[i] : i \in DOMAIN tree.envs}]
    BY <1>1
  <2>2. \E k \in Nat : tree.envs \in [1..k -> {tree.envs[i] : i \in DOMAIN tree.envs}]
    BY <2>1
  <2>3. QED BY <2>2, SeqDef, Zenon DEF IsSeq
<1>7. StoreShape(tree)
  <2>1. tree.ids \in Seq(Names)
    BY <1>5, EmptySeq
  <2>2. tree = [ids |-> tree.ids, envs |-> tree.envs, top |-> tree.top,
                nodes |-> tree.nodes, envOf |-> tree.envOf]
    BY <1>1
  <2>3. QED BY <1>4, <1>5, <1>6, <2>1, <2>2 DEF StoreShape
<1>8. IdsDistinct(tree)
  BY <1>5 DEF IdsDistinct
<1>9. PathsNested(tree)
  <2>1. tree.envs[1].path = <<1>>
    BY <1>2, <1>5
  <2>2. /\ <<1>> # <<>> /\ <<1>>[1] = 1 /\ Len(<<1>>) = 1 /\ DOMAIN <<1>> = {1}
        /\ SubSeq(<<1>>, 1, 1) = <<1>>
    <3>1. <<1>> \in Seq(Nat) /\ Len(<<1>>) = 1 /\ <<1>>[1] = 1
      OBVIOUS
    <3>2. SubSeq(<<1>>, 1, 1) = <<1>>
      <4>1. \A r \in Seq(Nat) : Len(r) = 1 => SubSeq(r, 1, 1) = r
        BY SubSeqFull
      <4>2. QED BY <3>1, <4>1, Zenon
    <3>4. DOMAIN <<1>> = {1}
      OBVIOUS
    <3>3. <<1>> # <<>>
      BY <3>1, EmptySeq
    <3>5. QED BY <3>1, <3>2, <3>3, <3>4
  <2>3. QED BY <1>5, <2>1, <2>2 DEF PathsNested
<1>10. \A tab \in Tables : tree.envs[1][tab] = EmptyTable
  BY <1>2, <1>5 DEF Tables
<1>11. EntriesFiled(tree) /\ SequenceListsEntries(tree)
  BY <1>3, <1>5, <1>10 DEF EntriesFiled, SequenceListsEntries
<1>12. QED BY <1>5, <1>7, <1>8, <1>9, <1>11 DEF StoreInv, InOrder

\* Every operation keeps it in order.
LEMMA StepInv == StoreInv(tree) /\ [TreeNext]_tree => StoreInv(tree')
<1> SUFFICES ASSUME StoreInv(tree), [TreeNext]_tree PROVE StoreInv(tree')
  OBVIOUS
<1>1. ASSUME NEW n \in Names, GetId(n) PROVE StoreInv(tree')
  BY <1>1, WithIdInv DEF GetId
<1>2. CASE AddNode
  <2>1. tree' = [tree EXCEPT !.nodes = Append(tree.nodes, NoNode)]
    BY <1>2 DEF AddNode, PushNode
  <2>2. /\ tree'.ids = tree.ids /\ tree'.envs = tree.envs /\ tree'.top = tree.top
        /\ StoreShape(tree')
    BY <2>1 DEF StoreInv, StoreShape
  <2>3. QED BY <2>2, NodesInv
<1>3. ASSUME NEW no \in DOMAIN tree.nodes, NEW k \in NodeKinds, FillNode(no, k)
      PROVE  StoreInv(tree')
  <2>1. \/ tree' = [tree EXCEPT !.nodes = [tree.nodes EXCEPT ![no] = k]]
        \/ tree' = tree
    BY <1>3 DEF FillNode, SetNode
  <2>2. /\ tree'.ids = tree.ids /\ tree'.envs = tree.envs /\ tree'.top = tree.top
        /\ StoreShape(tree')
    BY <2>1 DEF StoreInv, StoreShape
  <2>3. QED BY <2>2, NodesInv
<1>4. CASE OpenEnv
  BY <1>4, PushEnvInv DEF OpenEnv
<1>5. CASE CloseEnv
  BY <1>5, PopEnvInv DEF CloseEnv
<1>6. ASSUME NEW e \in DOMAIN tree.envs, NEW tab \in Tables, NEW n \in Names,
             NEW i \in Infos, EnterSymbol(e, tab, n, i)
      PROVE  StoreInv(tree')
  BY <1>6, EnterInv DEF EnterSymbol
<1>7. ASSUME NEW no \in DOMAIN tree.nodes, AttachEnv(no) PROVE StoreInv(tree')
  <2>1. PICK f : tree' = [tree EXCEPT !.envOf = f]
    BY <1>7 DEF AttachEnv, SetupEnv
  <2>2. /\ tree'.ids = tree.ids /\ tree'.envs = tree.envs /\ tree'.top = tree.top
        /\ StoreShape(tree')
    BY <2>1 DEF StoreInv, StoreShape
  <2>3. QED BY <2>2, NodesInv
<1>8. CASE UNCHANGED tree
  BY <1>8
<1>9. QED BY <1>1, <1>2, <1>3, <1>4, <1>5, <1>6, <1>7, <1>8 DEF TreeNext

\* Ids stay one to a name, paths nested, entries filed under their names and
\* the root's sequence complete (SyntaxTree.cpp, SymbolTable.h), for any number
\* of names, environments and entries.
THEOREM StoreStaysInOrder == TreeSpec => []StoreOK
<1>1. TreeInit => IInv
  BY InitInv DEF IInv
<1>2. IInv /\ [TreeNext]_tree => IInv'
  BY StepInv DEF IInv
<1>3. IInv => StoreOK
  BY DEF IInv, StoreInv, StoreOK
<1>4. QED BY <1>1, <1>2, <1>3, PTL DEF TreeSpec

---------------------------------------------------------------------------
(* What the open environments show of the names.                           *)

ScopeAt(t, e) == [tab \in Tables |-> [n \in Names |-> InfoIn(t, e, tab, n)]]
Shown(t) ==
  LET p == t.envs[t.top].path IN [k \in DOMAIN p |-> ScopeAt(t, p[k])]
Scope == [Tables -> [Names -> Infos \cup {Unbound}]]

\* An environment says something of a name exactly when it has its entry.
LEMMA InfoInFacts ==
  ASSUME NEW t, StoreInv(t), NEW e \in DOMAIN t.envs, NEW tab \in Tables, NEW n \in Names
  PROVE  /\ InfoIn(t, e, tab, n) \in Infos \cup {Unbound}
         /\ InfoIn(t, e, tab, n) # Unbound <=>
              Known(t, n) /\ IdFor(t, n) \in DOMAIN t.envs[e][tab].entry
<1>1. EnvOK(t.envs[e])
  BY DEF StoreInv, StoreShape
<1>2. TableOK(t.envs[e][tab])
  BY <1>1 DEF EnvOK, Tables
<1>3. \A i \in DOMAIN t.envs[e][tab].entry : t.envs[e][tab].entry[i].info \in Infos
  BY <1>2 DEF TableOK, Entry
<1>4. QED BY <1>3, TreeAssumption DEF InfoIn

\* The scopes shown are one for each environment of the open path.
LEMMA ShownFacts ==
  ASSUME NEW t, StoreInv(t)
  PROVE  LET p == t.envs[t.top].path IN
         /\ Shown(t) \in Seq(Scope) /\ Len(Shown(t)) = Len(p) /\ DOMAIN Shown(t) = 1..Len(p)
         /\ \A k \in 1..Len(p) : p[k] \in DOMAIN t.envs /\ Shown(t)[k] = ScopeAt(t, p[k])
<1> DEFINE p == t.envs[t.top].path
<1>1. /\ Len(p) \in Nat /\ DOMAIN p = 1..Len(p)
      /\ \A k \in 1..Len(p) : p[k] \in DOMAIN t.envs
  BY PathFacts DEF StoreInv, InOrder
<1>2. \A e \in DOMAIN t.envs : ScopeAt(t, e) \in Scope
  BY InfoInFacts DEF ScopeAt, Scope
<1>3. Shown(t) = [k \in DOMAIN p |-> ScopeAt(t, p[k])]
  BY DEF Shown
<1> HIDE DEF p
<1>4. Shown(t) \in [1..Len(p) -> Scope]
  BY <1>1, <1>2, <1>3
<1>5. \E n \in Nat : Shown(t) \in [1..n -> Scope]
  BY <1>1, <1>4
<1>6. Shown(t) \in Seq(Scope)
  BY <1>5, SeqDef, Zenon
<1>7. Len(Shown(t)) = Len(p)
  BY <1>1, <1>4, <1>6, LenProperties
<1>8. DOMAIN Shown(t) = 1..Len(p) /\ \A k \in 1..Len(p) : Shown(t)[k] = ScopeAt(t, p[k])
  BY <1>1, <1>3
<1>9. QED BY <1>1, <1>6, <1>7, <1>8 DEF p

\* What is shown depends on ids and environments.
LEMMA SameShown ==
  ASSUME NEW t, NEW u, u.ids = t.ids, u.envs = t.envs, u.top = t.top
  PROVE  Shown(u) = Shown(t)
<1>1. \A n : Known(u, n) = Known(t, n) /\ IdFor(u, n) = IdFor(t, n)
  BY DEF Known, IdFor
<1>2. \A e, tab, n : InfoIn(u, e, tab, n) = InfoIn(t, e, tab, n)
  BY <1>1 DEF InfoIn
<1>3. \A e : ScopeAt(u, e) = ScopeAt(t, e)
  BY <1>2 DEF ScopeAt
<1>4. QED BY <1>3 DEF Shown

\* A name with its id: the choice of IdFor is no choice.
LEMMA IdForIs ==
  ASSUME NEW t, IdsDistinct(t), NEW i \in DOMAIN t.ids
  PROVE  Known(t, t.ids[i]) /\ IdFor(t, t.ids[i]) = i
<1>1. Known(t, t.ids[i])
  BY DEF Known
<1>2. IdFor(t, t.ids[i]) \in DOMAIN t.ids /\ t.ids[IdFor(t, t.ids[i])] = t.ids[i]
  BY <1>1, IdForFacts
<1>3. QED BY <1>1, <1>2 DEF IdsDistinct

\* A new id shows nothing new.
LEMMA WithIdInfo ==
  ASSUME NEW t, StoreInv(t), NEW n \in Names, NEW e \in DOMAIN t.envs, NEW tab \in Tables,
         NEW m \in Names
  PROVE  InfoIn(WithId(t, n), e, tab, m) = InfoIn(t, e, tab, m)
<1> DEFINE s == WithId(t, n)
<1>1. /\ s = [t EXCEPT !.ids = s.ids] /\ StoreShape(s) /\ IdsDistinct(s)
      /\ DOMAIN t.ids \subseteq DOMAIN s.ids
      /\ \A i \in DOMAIN t.ids : s.ids[i] = t.ids[i]
  BY WithIdFacts DEF StoreInv, InOrder
<1> HIDE DEF s
<1>2. s.envs = t.envs
  BY <1>1 DEF StoreInv, StoreShape
<1>3. \A i \in DOMAIN t.envs[e][tab].entry : i \in DOMAIN t.ids
  BY DEF StoreInv, InOrder, EntriesFiled
<1>4. CASE Known(t, m)
  <2>1. IdFor(t, m) \in DOMAIN t.ids /\ t.ids[IdFor(t, m)] = m
    BY <1>4, IdForFacts
  <2>2. Known(s, m) /\ IdFor(s, m) = IdFor(t, m)
    BY <1>1, <2>1, IdForIs
  <2>3. QED BY <1>2, <1>4, <2>2 DEF InfoIn, s
<1>5. CASE ~Known(t, m)
  <2>1. ASSUME Known(s, m) PROVE IdFor(s, m) \notin DOMAIN t.envs[e][tab].entry
    <3>1. IdFor(s, m) \in DOMAIN s.ids /\ s.ids[IdFor(s, m)] = m
      BY <2>1, IdForFacts
    <3>2. IdFor(s, m) \notin DOMAIN t.ids
      BY <1>1, <1>5, <3>1 DEF Known
    <3>3. QED BY <1>3, <3>2
  <2>2. QED BY <1>2, <1>5, <2>1 DEF InfoIn, s
<1>6. QED BY <1>4, <1>5

\* An entry shows in its environment, under its name, and nowhere else.
LEMMA SetInfoInfo ==
  ASSUME NEW t, StoreInv(t), NEW e \in DOMAIN t.envs, NEW tab \in Tables,
         NEW id \in DOMAIN t.ids, NEW info \in Infos,
         NEW f \in DOMAIN t.envs, NEW tb \in Tables, NEW m \in Names
  PROVE  InfoIn(setInfo(t, e, tab, id, info), f, tb, m) =
           IF f = e /\ tb = tab /\ m = t.ids[id] THEN info ELSE InfoIn(t, f, tb, m)
<1> DEFINE u == setInfo(t, e, tab, id, info)
<1>1. WritesTable(t, u, e, tab, id, info)
  BY SetInfoFacts DEF StoreInv
<1> HIDE DEF u
<1>2. StoreShape(t) /\ IdsDistinct(t)
  BY DEF StoreInv, InOrder
<1>3. u.ids = t.ids
  <2>1. u = [t EXCEPT !.envs = u.envs]
    BY <1>1 DEF WritesTable
  <2>2. QED BY <1>2, <2>1 DEF StoreShape
<1>4. Known(u, m) = Known(t, m) /\ IdFor(u, m) = IdFor(t, m)
  BY <1>3 DEF Known, IdFor
<1>5. CASE f = e /\ tb = tab /\ m = t.ids[id]
  <2>1. Known(t, m) /\ IdFor(t, m) = id
    BY <1>2, <1>5, IdForIs
  <2>2. id \in DOMAIN u.envs[e][tab].entry
    BY <1>1 DEF WritesTable
  <2>3. u.envs[e][tab].entry[id].info = info
    <3>1. u.envs[e][tab].entry[id] =
            [name |-> t.ids[id], info |-> info, isGlobal |-> tab = "vars" /\ IsRoot(t, e)]
      BY <1>1 DEF WritesTable
    <3>2. PICK g \in BOOLEAN : g = (tab = "vars" /\ IsRoot(t, e))
      OBVIOUS
    <3>3. u.envs[e][tab].entry[id] = [name |-> t.ids[id], info |-> info, isGlobal |-> g]
      BY <3>1, <3>2
    <3>4. QED BY <3>3
  <2>4. InfoIn(u, f, tb, m) = info
    BY <1>4, <1>5, <2>1, <2>2, <2>3 DEF InfoIn
  <2>5. QED BY <1>5, <2>4 DEF u
<1>6. CASE f = e /\ tb = tab /\ m # t.ids[id]
  <2>1. Known(t, m) => IdFor(t, m) # id
    BY <1>6, IdForFacts
  <2>2. /\ DOMAIN u.envs[e][tab].entry = DOMAIN t.envs[e][tab].entry \cup {id}
        /\ \A i \in DOMAIN t.envs[e][tab].entry :
             i # id => u.envs[e][tab].entry[i] = t.envs[e][tab].entry[i]
    BY <1>1 DEF WritesTable
  <2>3. InfoIn(u, f, tb, m) = InfoIn(t, f, tb, m)
    BY <1>4, <1>6, <2>1, <2>2 DEF InfoIn
  <2>4. QED BY <1>6, <2>3 DEF u
<1>7. CASE ~(f = e /\ tb = tab)
  <2>1. u.envs[f][tb] = t.envs[f][tb]
    BY <1>1, <1>7 DEF WritesTable
  <2>2. InfoIn(u, f, tb, m) = InfoIn(t, f, tb, m)
    BY <1>4, <2>1 DEF InfoIn
  <2>3. QED BY <1>7, <2>2 DEF u
<1>8. QED BY <1>5, <1>6, <1>7

---------------------------------------------------------------------------
(* The store implements nested scopes.                                     *)

\* Handing out an id shows the same scopes.
LEMMA WithIdShown ==
  ASSUME NEW t, StoreInv(t), NEW n \in Names
  PROVE  Shown(WithId(t, n)) = Shown(t)
<1> DEFINE s == WithId(t, n)
           p == t.envs[t.top].path
<1>1. s.envs = t.envs /\ s.top = t.top
  <2>1. s = [t EXCEPT !.ids = s.ids]
    BY WithIdFacts DEF StoreInv, InOrder
  <2> HIDE DEF s
  <2>2. QED BY <2>1 DEF StoreInv, StoreShape
<1>2. DOMAIN p = 1..Len(p) /\ \A k \in 1..Len(p) : p[k] \in DOMAIN t.envs
  BY PathFacts DEF StoreInv, InOrder
<1>3. \A e \in DOMAIN t.envs, tab \in Tables, m \in Names : InfoIn(s, e, tab, m) = InfoIn(t, e, tab, m)
  BY WithIdInfo
<1> HIDE DEF s
<1>4. \A e \in DOMAIN t.envs : ScopeAt(s, e) = ScopeAt(t, e)
  BY <1>3 DEF ScopeAt
<1>5. Shown(s) = Shown(t)
  BY <1>1, <1>2, <1>4 DEF Shown
<1>6. QED BY <1>5 DEF s

\* Opening an environment opens an empty scope.
LEMMA PushEnvShown ==
  ASSUME NEW t, StoreInv(t)
  PROVE  Shown(PushEnv(t)) = Append(Shown(t), Scopes!EmptyScope)
<1> DEFINE u == PushEnv(t)
           n == Len(t.envs)
           p == t.envs[t.top].path
           q == Append(p, n + 1)
<1>1. /\ n \in Nat /\ DOMAIN t.envs = 1..n /\ DOMAIN u.envs = 1..(n + 1)
      /\ \A e \in 1..n : u.envs[e] = t.envs[e]
      /\ u.envs[n + 1] = NewEnv(q)
      /\ u.top = n + 1 /\ u.ids = t.ids
  BY PushEnvFacts
<1>2. /\ Len(q) = Len(p) + 1
      /\ q[Len(q)] = n + 1
      /\ \A k \in 1..Len(p) : q[k] = p[k] /\ p[k] \in 1..n
  BY PushEnvPath
<1>3. StoreInv(u)
  BY PushEnvInv
<1>4. /\ Shown(t) \in Seq(Scope) /\ Len(Shown(t)) = Len(p) /\ Len(p) \in Nat
      /\ \A k \in 1..Len(p) : Shown(t)[k] = ScopeAt(t, p[k])
  BY ShownFacts, PathFacts DEF StoreInv, InOrder
<1>5. LET r == u.envs[u.top].path IN
      /\ Shown(u) \in Seq(Scope) /\ Len(Shown(u)) = Len(r)
      /\ \A k \in 1..Len(r) : Shown(u)[k] = ScopeAt(u, r[k])
  BY <1>3, ShownFacts
<1> HIDE DEF u, n, p, q
<1>6. u.envs[u.top].path = q /\ \A tab \in Tables : u.envs[n + 1][tab] = EmptyTable
  BY <1>1 DEF NewEnv, Tables
<1>7. \A k \in 1..Len(p) : ScopeAt(u, p[k]) = ScopeAt(t, p[k])
  <2>1. \A m : Known(u, m) = Known(t, m) /\ IdFor(u, m) = IdFor(t, m)
    BY <1>1 DEF Known, IdFor
  <2>2. \A e \in 1..n, tab \in Tables, m \in Names : InfoIn(u, e, tab, m) = InfoIn(t, e, tab, m)
    BY <1>1, <2>1 DEF InfoIn
  <2>3. \A e \in 1..n : ScopeAt(u, e) = ScopeAt(t, e)
    BY <2>2 DEF ScopeAt
  <2>4. QED BY <1>2, <2>3
<1>8. ScopeAt(u, n + 1) = Scopes!EmptyScope
  <2>1. \A tab \in Tables, m \in Names : InfoIn(u, n + 1, tab, m) = Unbound
    BY <1>6 DEF InfoIn, EmptyTable
  <2>2. QED BY <2>1 DEF ScopeAt, Scopes!EmptyScope, Scopes!Tables, Tables
<1>9. Scopes!EmptyScope \in Scope
  BY DEF Scopes!EmptyScope, Scope, Scopes!Tables, Tables
<1>10. /\ Append(Shown(t), Scopes!EmptyScope) \in Seq(Scope)
       /\ Len(Append(Shown(t), Scopes!EmptyScope)) = Len(p) + 1
       /\ \A k \in 1..Len(p) : Append(Shown(t), Scopes!EmptyScope)[k] = Shown(t)[k]
       /\ Append(Shown(t), Scopes!EmptyScope)[Len(p) + 1] = Scopes!EmptyScope
  BY <1>4, <1>9, AppendProperties
<1>11. /\ Shown(u) \in Seq(Scope) /\ Len(Shown(u)) = Len(p) + 1
       /\ \A k \in 1..(Len(p) + 1) : Shown(u)[k] = ScopeAt(u, q[k])
  BY <1>2, <1>5, <1>6
<1>12. \A k \in 1..(Len(p) + 1) : k \in 1..Len(p) \/ k = Len(p) + 1
  BY <1>4
<1>13. \A k \in 1..(Len(p) + 1) :
         Shown(u)[k] = Append(Shown(t), Scopes!EmptyScope)[k]
  BY <1>2, <1>4, <1>7, <1>8, <1>10, <1>11, <1>12
<1>14. Shown(u) = Append(Shown(t), Scopes!EmptyScope)
  BY <1>10, <1>11, <1>13, SeqEqual
<1>15. QED BY <1>14 DEF u

\* Closing the open environment closes the innermost scope.
LEMMA PopEnvShown ==
  ASSUME NEW t, StoreInv(t), ~IsRoot(t, t.top)
  PROVE  /\ Len(Shown(t)) > 1
         /\ Shown(PopEnv(t)) = SubSeq(Shown(t), 1, Len(Shown(t)) - 1)
<1> DEFINE u == PopEnv(t)
           p == t.envs[t.top].path
           l == Len(p)
           r == u.envs[u.top].path
<1>1. StoreInv(u) /\ u = [t EXCEPT !.top = p[l - 1]]
  BY PopEnvInv DEF Parent
<1>2. u.ids = t.ids /\ u.envs = t.envs /\ u.top = p[l - 1]
  BY <1>1 DEF StoreInv, StoreShape
<1>3. l \in Nat /\ l > 1 /\ l - 1 \in 1..l /\ l - 1 \in Nat
  <2>1. l \in Nat \ {0} /\ l # 1
    BY PathFacts DEF StoreInv, InOrder, IsRoot
  <2>2. \A m \in Nat \ {0} : m # 1 => m > 1 /\ m - 1 \in 1..m /\ m - 1 \in Nat
    OBVIOUS
  <2>3. QED BY <2>1, <2>2, Zenon
<1>4. Len(r) = l - 1 /\ \A j \in 1..(l - 1) : r[j] = p[j]
  <2>1. \A k \in 1..l : /\ Len(t.envs[p[k]].path) = k
                        /\ \A j \in 1..k : t.envs[p[k]].path[j] = p[j]
    BY PrefixPath DEF StoreInv, InOrder
  <2>2. r = t.envs[p[l - 1]].path
    BY <1>2
  <2> HIDE DEF r, p, l
  <2>3. QED BY <1>3, <2>1, <2>2
<1>5. /\ Shown(t) \in Seq(Scope) /\ Len(Shown(t)) = l
      /\ \A k \in 1..l : Shown(t)[k] = ScopeAt(t, p[k])
  BY ShownFacts
<1>6. /\ Shown(u) \in Seq(Scope) /\ Len(Shown(u)) = Len(r)
      /\ \A k \in 1..Len(r) : Shown(u)[k] = ScopeAt(u, r[k])
  BY <1>1, ShownFacts
<1> HIDE DEF u, p, l, r
<1>7. \A e : ScopeAt(u, e) = ScopeAt(t, e)
  <2>1. \A m : Known(u, m) = Known(t, m) /\ IdFor(u, m) = IdFor(t, m)
    BY <1>2 DEF Known, IdFor
  <2>2. \A e, tab, m : InfoIn(u, e, tab, m) = InfoIn(t, e, tab, m)
    BY <1>2, <2>1 DEF InfoIn
  <2>3. QED BY <2>2 DEF ScopeAt
<1>8. \A k \in 1..(l - 1) : k \in 1..l /\ Shown(t)[k] \in Scope
  <2>1. \A k \in 1..(l - 1) : k \in 1..l
    BY <1>3
  <2>2. QED BY <1>5, <2>1, ElementOfSeq
<1>9. \A k \in 1..(l - 1) : Shown(u)[k] = Shown(t)[k]
  BY <1>4, <1>5, <1>6, <1>7, <1>8
<1>10. /\ SubSeq(Shown(t), 1, l - 1) \in Seq(Scope)
       /\ Len(SubSeq(Shown(t), 1, l - 1)) = l - 1
       /\ \A k \in 1..(l - 1) : SubSeq(Shown(t), 1, l - 1)[k] = Shown(t)[k]
  <2>1. (l - 1) - 1 + 1 = l - 1 /\ 1 \in Int /\ l - 1 \in Int /\ 1 <= l
        /\ \A k \in 1..(l - 1) : 1 + k - 1 = k
    BY <1>3
  <2> DEFINE m == l - 1
  <2>2. m \in Int /\ 1 \in Int /\ 1 <= m + 1 /\ m - 1 + 1 = m
    BY <1>3
  <2>3. \A k \in 1..m : Shown(t)[k] \in Scope
    BY <1>8
  <2> HIDE DEF m
  <2>4. /\ SubSeq(Shown(t), 1, m) \in Seq(Scope)
        /\ Len(SubSeq(Shown(t), 1, m)) = m
        /\ \A k \in 1..m : SubSeq(Shown(t), 1, m)[k] = Shown(t)[1 + k - 1]
    BY <2>2, <2>3, SubSeqProperties
  <2>5. QED BY <2>1, <2>4 DEF m
<1>11. Shown(u) = SubSeq(Shown(t), 1, l - 1)
  BY <1>4, <1>6, <1>9, <1>10, SeqEqual
<1>12. QED BY <1>3, <1>5, <1>11 DEF u

BoundAt(s, k, tab, n, info) == [s EXCEPT ![k][tab][n] = info]

\* Entering a name binds it in the scope of its environment.
LEMMA EnterShown ==
  ASSUME NEW t, StoreInv(t), NEW k \in DOMAIN t.envs[t.top].path, NEW tab \in Tables,
         NEW n \in Names, NEW info \in Infos
  PROVE  Shown(Enter(t, t.envs[t.top].path[k], tab, n, info)) =
           BoundAt(Shown(t), k, tab, n, info)
<1> DEFINE p == t.envs[t.top].path
           s == WithId(t, n)
           id == IdFor(s, n)
           u == setInfo(s, p[k], tab, id, info)
<1>1. u = Enter(t, p[k], tab, n, info)
  BY DEF Enter
<1>2. StoreInv(s) /\ Known(s, n)
  BY WithIdInv, WithIdFacts DEF StoreInv, InOrder
<1>3. s.envs = t.envs /\ s.top = t.top
  <2>1. s = [t EXCEPT !.ids = s.ids]
    BY WithIdFacts DEF StoreInv, InOrder
  <2> HIDE DEF s
  <2>2. QED BY <2>1 DEF StoreInv, StoreShape
<1>4. /\ DOMAIN p = 1..Len(p) /\ Len(p) \in Nat /\ k \in 1..Len(p)
      /\ \A j \in 1..Len(p) : p[j] \in DOMAIN t.envs
  BY PathFacts DEF StoreInv, InOrder
<1>5. \A j \in 1..Len(p) : p[j] = p[k] => j = k
  <2>1. PathsNested(t) /\ t.top \in DOMAIN t.envs
    BY DEF StoreInv, InOrder
  <2>2. \A i, j \in DOMAIN p : j < i => p[j] < p[i]
    BY <2>1 DEF PathsNested
  <2>3. p \in Seq(Nat)
    BY PathFacts DEF StoreInv, InOrder
  <2> HIDE DEF p
  <2>4. \A j \in 1..Len(p) : p[j] \in Nat
    BY <1>4, <2>3, ElementOfSeq
  <2>5. \A j \in 1..Len(p) : j = k \/ j < k \/ k < j
    BY <1>4
  <2>6. QED BY <1>4, <2>2, <2>4, <2>5
<1>6. id \in DOMAIN s.ids /\ s.ids[id] = n
  BY <1>2, IdForFacts
<1>7. p[k] \in DOMAIN s.envs
  BY <1>3, <1>4
<1>8. WritesTable(s, u, p[k], tab, id, info)
  BY <1>2, <1>6, <1>7, SetInfoFacts DEF StoreInv
<1>9. \A f \in DOMAIN t.envs, tb \in Tables, m \in Names :
        InfoIn(u, f, tb, m) = IF f = p[k] /\ tb = tab /\ m = n THEN info ELSE InfoIn(t, f, tb, m)
  <2>1. \A f \in DOMAIN s.envs, tb \in Tables, m \in Names :
          InfoIn(u, f, tb, m) = IF f = p[k] /\ tb = tab /\ m = s.ids[id] THEN info
                                ELSE InfoIn(s, f, tb, m)
    BY <1>2, <1>6, <1>7, SetInfoInfo
  <2>2. \A f \in DOMAIN t.envs, tb \in Tables, m \in Names :
          InfoIn(s, f, tb, m) = InfoIn(t, f, tb, m)
    BY WithIdInfo
  <2> HIDE DEF s, u, id, p
  <2>3. QED BY <1>3, <1>6, <2>1, <2>2
<1>10. Shown(t) = [j \in 1..Len(p) |-> ScopeAt(t, p[j])]
  <2>1. Shown(t) = [j \in DOMAIN p |-> ScopeAt(t, p[j])]
    BY DEF Shown
  <2> HIDE DEF p
  <2>2. QED BY <1>4, <2>1
<1>11. Shown(u) = [j \in 1..Len(p) |-> ScopeAt(u, p[j])]
  <2> HIDE DEF s, id, u
  <2>1. u.top = t.top /\ u.envs[u.top].path = p
    <3>1. u = [s EXCEPT !.envs = u.envs]
      BY <1>8 DEF WritesTable
    <3>2. u.top = s.top
      BY <1>2, <3>1 DEF StoreInv, StoreShape
    <3>3. s.top \in DOMAIN s.envs
      BY <1>2 DEF StoreInv
    <3>4. u.envs[s.top].path = s.envs[s.top].path
      BY <1>8, <3>3 DEF WritesTable
    <3>5. QED BY <1>3, <3>2, <3>4
  <2>2. Shown(u) = [j \in DOMAIN p |-> ScopeAt(u, p[j])]
    BY <2>1 DEF Shown
  <2> HIDE DEF p
  <2>3. QED BY <1>4, <2>2
<1> HIDE DEF p, s, id, u
<1>12. \A j \in 1..Len(p) : j # k => ScopeAt(u, p[j]) = ScopeAt(t, p[j])
  <2>1. \A j \in 1..Len(p), tb \in Tables, m \in Names :
          j # k => InfoIn(u, p[j], tb, m) = InfoIn(t, p[j], tb, m)
    BY <1>4, <1>5, <1>9
  <2>2. QED BY <2>1 DEF ScopeAt
<1>13. ScopeAt(u, p[k]) = [ScopeAt(t, p[k]) EXCEPT ![tab][n] = info]
  <2>1. \A tb \in Tables, m \in Names :
          InfoIn(u, p[k], tb, m) =
            IF tb = tab /\ m = n THEN info ELSE InfoIn(t, p[k], tb, m)
    BY <1>4, <1>9
  <2>2. QED BY <2>1 DEF ScopeAt
<1>14. Shown(u) = [Shown(t) EXCEPT ![k] = ScopeAt(u, p[k])]
  BY <1>4, <1>10, <1>11, <1>12
<1>15. Shown(t)[k] = ScopeAt(t, p[k])
  BY <1>4, <1>10
<1>16. [Shown(t) EXCEPT ![k][tab][n] = info] =
         [Shown(t) EXCEPT ![k] = [Shown(t)[k] EXCEPT ![tab][n] = info]]
  OBVIOUS
<1>17. Shown(u) = [Shown(t) EXCEPT ![k][tab][n] = info]
  BY <1>13, <1>14, <1>15, <1>16
<1>18. QED BY <1>1, <1>17 DEF p, BoundAt

\* The scopes of the refinement mapping are the ones shown.
LEMMA OpenScopesShown == openScopes = Shown(tree)
  BY DEF openScopes, Shown, ScopeAt

\* The store of the syntax tree (SyntaxTree.cpp, SymbolTable.h) gives its
\* client nested scopes: every operation is one of theirs or shows nothing.
THEOREM StoreImplementsScoping == TreeSpec => ImplementsScoping
<1>1. TreeInit => Scopes!Init
  <2> SUFFICES ASSUME TreeInit PROVE openScopes = <<Scopes!EmptyScope>>
    BY DEF Scopes!Init
  <2>1. StoreInv(tree)
    BY InitInv
  <2>2. /\ tree.top = 1 /\ tree.envs[1].path = <<1>> /\ tree.ids = <<>>
    BY DEF TreeInit, EmptyTree, NewEnv
  <2>3. \A tab, n : InfoIn(tree, 1, tab, n) = Unbound
    BY <2>2 DEF InfoIn, Known
  <2>4. ScopeAt(tree, 1) = Scopes!EmptyScope
    BY <2>3 DEF ScopeAt, Scopes!EmptyScope, Scopes!Tables, Tables
  <2>5. Shown(tree) = [k \in DOMAIN <<1>> |-> ScopeAt(tree, <<1>>[k])]
    BY <2>2 DEF Shown
  <2>6. Shown(tree) = <<Scopes!EmptyScope>>
    BY <2>4, <2>5
  <2>7. QED BY <2>6, OpenScopesShown
<1>2. IInv /\ [TreeNext]_tree => [Scopes!Next]_openScopes
  <2> SUFFICES ASSUME StoreInv(tree), [TreeNext]_tree
               PROVE  [Scopes!Next]_(openScopes)
    BY DEF IInv
  <2>0. openScopes = Shown(tree) /\ openScopes' = Shown(tree')
    <3>1. openScopes = Shown(tree)
      BY OpenScopesShown
    <3>2. openScopes' = Shown(tree')
      BY DEF openScopes, Shown, ScopeAt
    <3>3. QED BY <3>1, <3>2
  <2>1. ASSUME NEW n \in Names, GetId(n) PROVE openScopes' = openScopes
    BY <2>0, <2>1, WithIdShown DEF GetId
  <2>2. CASE AddNode
    <3>1. tree' = [tree EXCEPT !.nodes = Append(tree.nodes, NoNode)]
      BY <2>2 DEF AddNode, PushNode
    <3>2. tree'.ids = tree.ids /\ tree'.envs = tree.envs /\ tree'.top = tree.top
      BY <3>1 DEF StoreInv, StoreShape
    <3>3. QED BY <2>0, <3>2, SameShown
  <2>3. ASSUME NEW no \in DOMAIN tree.nodes, NEW k \in NodeKinds, FillNode(no, k)
        PROVE  openScopes' = openScopes
    <3>1. \/ tree' = [tree EXCEPT !.nodes = [tree.nodes EXCEPT ![no] = k]]
          \/ tree' = tree
      BY <2>3 DEF FillNode, SetNode
    <3>2. tree'.ids = tree.ids /\ tree'.envs = tree.envs /\ tree'.top = tree.top
      BY <3>1 DEF StoreInv, StoreShape
    <3>3. QED BY <2>0, <3>2, SameShown
  <2>4. CASE OpenEnv
    <3>1. Shown(tree') = Append(Shown(tree), Scopes!EmptyScope)
      BY <2>4, PushEnvShown DEF OpenEnv
    <3>2. QED BY <2>0, <3>1 DEF Scopes!Next, Scopes!Open
  <2>5. CASE CloseEnv
    <3>1. Len(Shown(tree)) > 1 /\ Shown(tree') = SubSeq(Shown(tree), 1, Len(Shown(tree)) - 1)
      BY <2>5, PopEnvShown DEF CloseEnv
    <3>2. QED BY <2>0, <3>1 DEF Scopes!Next, Scopes!Close
  <2>6. ASSUME NEW e \in DOMAIN tree.envs, NEW tab \in Tables, NEW n \in Names,
               NEW i \in Infos, EnterSymbol(e, tab, n, i)
        PROVE  Scopes!Next
    <3> DEFINE p == tree.envs[tree.top].path
               l == Len(p)
    <3>1. l \in Nat \ {0} /\ DOMAIN p = 1..l /\ p[l] = tree.top
      BY PathFacts DEF StoreInv, InOrder
    <3>2. l \in 1..l /\ (l # 1 => l - 1 \in 1..l /\ l - 1 >= l - 1) /\ l >= l - 1
      <4>1. \A m \in Nat \ {0} :
              m \in 1..m /\ (m # 1 => m - 1 \in 1..m /\ m - 1 >= m - 1) /\ m >= m - 1
        OBVIOUS
      <4>2. QED BY <3>1, <4>1, Zenon
    <3>3. PICK k \in 1..l : p[k] = e /\ k >= l - 1
      <4>1. CASE e = tree.top
        BY <3>1, <3>2, <4>1
      <4>2. CASE ~IsRoot(tree, tree.top) /\ e = Parent(tree, tree.top)
        <5>1. l # 1 /\ e = p[l - 1]
          BY <4>2 DEF IsRoot, Parent
        <5> HIDE DEF p, l
        <5>2. QED BY <3>2, <5>1
      <4>3. QED BY <2>6, <4>1, <4>2 DEF EnterSymbol
    <3>4. Shown(tree') = BoundAt(Shown(tree), k, tab, n, i)
      <4>1. tree' = Enter(tree, p[k], tab, n, i) /\ k \in DOMAIN p
        BY <2>6, <3>1, <3>3 DEF EnterSymbol
      <4>2. QED BY <4>1, EnterShown
    <3>5. Len(Shown(tree)) = l /\ DOMAIN Shown(tree) = 1..l
      BY ShownFacts
    <3> HIDE DEF p, l
    <3>6. k \in DOMAIN openScopes /\ k >= Len(openScopes) - 1
      BY <2>0, <3>3, <3>5
    <3>7. Scopes!Bind(k, tab, n, i)
      BY <2>0, <3>4, <3>6 DEF Scopes!Bind, BoundAt
    <3>8. QED BY <3>6, <3>7 DEF Scopes!Next, Scopes!Tables, Tables
  <2>7. ASSUME NEW no \in DOMAIN tree.nodes, AttachEnv(no) PROVE openScopes' = openScopes
    <3>1. PICK f : tree' = [tree EXCEPT !.envOf = f]
      BY <2>7 DEF AttachEnv, SetupEnv
    <3>2. tree'.ids = tree.ids /\ tree'.envs = tree.envs /\ tree'.top = tree.top
      BY <3>1 DEF StoreInv, StoreShape
    <3>3. QED BY <2>0, <3>2, SameShown
  <2>8. CASE UNCHANGED tree
    BY <2>0, <2>8
  <2>9. QED BY <2>1, <2>2, <2>3, <2>4, <2>5, <2>6, <2>7, <2>8 DEF TreeNext
<1>3. TreeInit => IInv
  BY InitInv DEF IInv
<1>4. IInv /\ [TreeNext]_tree => IInv'
  BY StepInv DEF IInv
<1>5. QED BY <1>1, <1>2, <1>3, <1>4, PTL DEF TreeSpec, ImplementsScoping, Scopes!Spec

\* A set of positions that is not empty has a last one.
LEMMA HasGreatest ==
  ASSUME NEW l \in Nat, NEW H, H \subseteq 1..l, H # {}
  PROVE  \E m \in H : \A j \in H : j <= m
<1> DEFINE R == {ss \in Nat \X Nat : ss[1] < ss[2]}
           S == {n \in Nat : \E h \in H : h = l - n}
<1>1. IsWellFoundedOn(R, Nat)
  BY NatLessThanWellFounded DEF OpToRel
<1>2. S \subseteq Nat /\ S # {}
  <2>1. PICK h \in H : h \in 1..l
    OBVIOUS
  <2>2. l - h \in Nat /\ h = l - (l - h)
    BY <2>1
  <2>3. QED BY <2>2
<1> HIDE DEF R
<1>3. PICK x \in S : \A y \in S : <<y, x>> \notin R
  BY <1>1, <1>2, WFMin
<1>4. PICK m \in H : m = l - x /\ m \in 1..l
  OBVIOUS
<1>5. ASSUME NEW j \in H PROVE j <= m
  <2>1. j \in 1..l
    OBVIOUS
  <2>2. l - j \in Nat /\ j = l - (l - j)
    BY <2>1
  <2>3. <<l - j, x>> \notin R
    BY <1>3, <2>2
  <2>4. ~(l - j < x)
    BY <2>2, <2>3 DEF R
  <2> HIDE DEF S
  <2>5. x \in Nat
    BY <1>3 DEF S
  <2>6. QED BY <1>4, <2>1, <2>4, <2>5
<1>6. QED BY <1>5

\* A name looked up in the open environment (SymbolTable.h, seek) means its
\* innermost binding, and a name no scope binds is not found.
THEOREM LookupsFollowScopes == TreeSpec => []LookupsAgree
<1>1. StoreInv(tree) => LookupsAgree
  <2> SUFFICES ASSUME StoreInv(tree), NEW tab \in Tables, NEW n \in Names
               PROVE  LET found == Known(tree, n) /\ contains(tree, tree.top, tab, IdFor(tree, n))
                      IN IF found
                         THEN getInfo(tree, tree.top, tab, IdFor(tree, n)).info = Scopes!Lookup(tab, n)
                         ELSE Scopes!Lookup(tab, n) = Unbound
    BY DEF LookupsAgree
  <2> DEFINE p == tree.envs[tree.top].path
             id == IdFor(tree, n)
             H == Holders(tree, tree.top, tab, id)
             B == Scopes!Binding(tab, n)
  <2>1. DOMAIN p = 1..Len(p) /\ \A k \in 1..Len(p) : p[k] \in DOMAIN tree.envs
    BY PathFacts DEF StoreInv, InOrder
  <2>2. /\ DOMAIN openScopes = 1..Len(p)
        /\ \A k \in 1..Len(p) : openScopes[k][tab][n] = InfoIn(tree, p[k], tab, n)
    <3>1. openScopes = Shown(tree)
      BY OpenScopesShown
    <3>2. /\ DOMAIN Shown(tree) = 1..Len(p)
          /\ \A k \in 1..Len(p) : Shown(tree)[k] = ScopeAt(tree, p[k])
      BY ShownFacts
    <3> HIDE DEF p
    <3>3. QED BY <3>1, <3>2 DEF ScopeAt
  <2>3. \A k \in 1..Len(p) :
          InfoIn(tree, p[k], tab, n) # Unbound <=>
            Known(tree, n) /\ id \in DOMAIN tree.envs[p[k]][tab].entry
    BY <2>1, InfoInFacts
  <2>4. H = {k \in 1..Len(p) : id \in DOMAIN tree.envs[p[k]][tab].entry}
    BY <2>1 DEF Holders
  <2>5. B = {k \in 1..Len(p) : InfoIn(tree, p[k], tab, n) # Unbound}
    BY <2>2 DEF Scopes!Binding
  <2>6. CASE ~Known(tree, n)
    <3>1. B = {}
      BY <2>3, <2>5, <2>6
    <3>2. Scopes!Lookup(tab, n) = Unbound
      BY <3>1 DEF Scopes!Lookup
    <3>3. QED BY <2>6, <3>2
  <2>7. CASE Known(tree, n)
    <3>0. Len(p) \in Nat
      BY PathFacts DEF StoreInv, InOrder
    <3>1. B = H
      BY <2>3, <2>4, <2>5, <2>7
    <3>2. contains(tree, tree.top, tab, id) <=> H # {}
      BY DEF contains
    <3>3. CASE H = {}
      BY <3>1, <3>2, <3>3 DEF Scopes!Lookup
    <3>4. CASE H # {}
      <4> DEFINE k == CHOOSE k \in H : \A j \in H : j <= k
      <4>1. getInfo(tree, tree.top, tab, id) = tree.envs[p[k]][tab].entry[id]
        BY DEF getInfo
      <4>2. Scopes!Lookup(tab, n) = openScopes[k][tab][n]
        BY <3>1, <3>4 DEF Scopes!Lookup
      <4>3. k \in H
        <5>1. H \subseteq 1..Len(p) /\ H # {}
          BY <2>4, <3>4
        <5>2. \E m \in H : \A j \in H : j <= m
          <6> HIDE DEF H
          <6>1. QED BY <3>0, <5>1, HasGreatest
        <5> HIDE DEF H
        <5>3. QED BY <5>2
      <4> HIDE DEF k
      <4>4. k \in 1..Len(p) /\ id \in DOMAIN tree.envs[p[k]][tab].entry
        BY <2>4, <4>3
      <4>5. InfoIn(tree, p[k], tab, n) = tree.envs[p[k]][tab].entry[id].info
        BY <2>7, <4>4 DEF InfoIn
      <4>6. QED BY <2>2, <2>7, <3>2, <3>4, <4>1, <4>2, <4>4, <4>5
    <3>5. QED BY <3>3, <3>4
  <2>8. QED BY <2>6, <2>7
<1>2. TreeInit => IInv
  BY InitInv DEF IInv
<1>3. IInv /\ [TreeNext]_tree => IInv'
  BY StepInv DEF IInv
<1>4. IInv => LookupsAgree
  BY <1>1 DEF IInv
<1>5. QED BY <1>2, <1>3, <1>4, PTL DEF TreeSpec
=============================================================================
