-------------------------- MODULE StructuredProofs --------------------------
(***************************************************************************)
(* A proof that the interpreter takes the steps of the structured program, *)
(* for any programs and any depth of calls.                                *)
(*                                                                         *)
(* The refinement mapping is first written with operators of the state, so *)
(* that it can be unfolded before and after a step.  What the frames have  *)
(* left to do is the agenda; a frame that owns a context marks it there.   *)
(* To cut the agenda back to a frame is to leave the contexts above it, so *)
(* a transfer, which the interpreter hands down frame by frame, is one     *)
(* step of the structured program and then no steps at all.                *)
(***************************************************************************)
EXTENDS InterpreterProofs

---------------------------------------------------------------------------
(* The structured program that frames and contexts stand for.              *)

\* The names around frame i's own context.
Outer(fr, s, i) == SeenIn(s)[Depth(fr, i) - 1]

\* What frame f has left to do, with `outer' around its own context.
Todo(p, f, outer) ==
  LET n == f.node
      rest(k) == [j \in 1..(Len(n.kids) - k) |-> Task("run", n.kids[j + k])]
  IN  CASE n.kind = "Enter" -> rest(f.pc) \o <<[task |-> "exit"]>>
        [] n.kind # "Enter" /\ f.pc = 0 -> <<Task("run", n)>>
        [] n.kind = "Block" /\ f.pc > 0 ->
             rest(f.pc - 1) \o <<[task |-> "leave", env |-> outer]>>
        [] n.kind = "While" /\ f.pc = 1 -> <<Task("use", n), Task("loop", n)>>
        [] n.kind = "While" /\ f.pc = 2 -> <<Task("loop", n)>>
        [] n.kind = "Call" /\ f.pc = 2 ->
             <<[task |-> "back", result |-> p.funcs[n.name].result, env |-> outer]>>
        [] n.kind \notin {"Enter", "Block", "While"} /\ f.pc = 1 -> <<Task("use", n)>>
        [] n.kind \in {"And", "Or", "If"} /\ f.pc = 2 -> <<>>

\* What the first i frames have left to do.
Jobs(p, fr, s) ==
  LET tasks[i \in 0..Len(fr)] ==
        IF i = 0 THEN <<>> ELSE Todo(p, fr[i], Outer(fr, s, i)) \o tasks[i - 1]
  IN  tasks

TakersIn(fr, r) == LET kind == IF r.is = "return" THEN "Call" ELSE "While"
                   IN  {i \in DOMAIN fr : fr[i].node.kind = kind /\ fr[i].pc = 2}
TakerIn(fr, r) == CHOOSE i \in TakersIn(fr, r) : \A j \in TakersIn(fr, r) : j <= i
ExitingIn(fr, r, st) == st # "aborted" /\ r.is = "return" /\ TakersIn(fr, r) = {}
IsTransfer(r) == ~(r.is = "none") /\ ~(r.is = "value")
StayingIn(fr, r, st) ==
  IF ExitingIn(fr, r, st) THEN 0 ELSE IF IsTransfer(r) THEN TakerIn(fr, r) - 1 ELSE Len(fr)
AgendaIn(p, fr, r, s, st) ==
  (IF r.is = "continue" THEN <<Task("loop", fr[TakerIn(fr, r)].node)>> ELSE <<>>)
    \o Jobs(p, fr, s)[StayingIn(fr, r, st)]
AccOf(a, v) == IF a # <<>> /\ a[1].task = "use" THEN v ELSE NoValue
AccIn(p, fr, r, s, st) ==
  IF ExitingIn(fr, r, st) THEN r.v ELSE AccOf(AgendaIn(p, fr, r, s, st), r.v)
DepthIn(fr, r, s, st) == IF IsTransfer(r) THEN Depth(fr, StayingIn(fr, r, st)) ELSE Len(s)
StoreOf(s, d) ==
  LET places == UNION {{<<e, x>> : x \in DOMAIN s[e].vals} : e \in 1..d}
  IN  [l \in places |-> s[l[1]].vals[l[2]]]
EnvIn(fr, r, s, st) ==
  IF ExitingIn(fr, r, st) THEN Nothing ELSE SeenIn(s)[DepthIn(fr, r, s, st)]
StoreIn(fr, r, s, st) ==
  IF ExitingIn(fr, r, st) THEN Nothing ELSE StoreOf(s, DepthIn(fr, r, s, st))
StatusIn(fr, r, st) == IF ExitingIn(fr, r, st) THEN "exited" ELSE st

\* The bars, as functions of the state.
LEMMA BarsAre ==
  /\ agendaBar = AgendaIn(program, frames, return_value, scopes, status)
  /\ accBar = AccIn(program, frames, return_value, scopes, status)
  /\ envBar = EnvIn(frames, return_value, scopes, status)
  /\ storeBar = StoreIn(frames, return_value, scopes, status)
  /\ statusBar = StatusIn(frames, return_value, status)
<1>1. Takers = TakersIn(frames, return_value)
  BY DEF Takers, TakersIn
<1>2. Taker = TakerIn(frames, return_value)
  BY <1>1, Zenon DEF Taker, TakerIn
<1>3. Exiting <=> ExitingIn(frames, return_value, status)
  BY <1>1 DEF Exiting, ExitingIn
<1>4. _isCFD <=> IsTransfer(return_value)
  BY DEF _isCFD, _isNone, _isValue, IsTransfer
<1>5. Staying = StayingIn(frames, return_value, status)
  BY <1>2, <1>3, <1>4 DEF Staying, StayingIn
<1>6. \A i : ScopesOf(i) = Depth(frames, i)
  BY DEF ScopesOf, Depth, Owned
<1>7. \A i : TasksOf(i) = Todo(program, frames[i], Outer(frames, scopes, i))
  BY <1>6, Zenon DEF TasksOf, Todo, Outer, Visible
<1>8. Remaining = Jobs(program, frames, scopes)
  BY <1>7, Zenon DEF Remaining, Jobs
<1>9. agendaBar = AgendaIn(program, frames, return_value, scopes, status)
  BY <1>2, <1>5, <1>8 DEF agendaBar, AgendaIn
<1>10. accBar = AccIn(program, frames, return_value, scopes, status)
  BY <1>3, <1>9 DEF accBar, AccIn, AccOf
<1>11. scopesBar = DepthIn(frames, return_value, scopes, status)
  BY <1>4, <1>5, <1>6 DEF scopesBar, DepthIn
<1>12. envBar = EnvIn(frames, return_value, scopes, status)
  BY <1>3, <1>11 DEF envBar, EnvIn, Visible
<1>13. storeBar = StoreIn(frames, return_value, scopes, status)
  <2>1. \A l : ValueAt(l) = scopes[l[1]].vals[l[2]]
    BY DEF ValueAt
  <2>2. CASE Exiting
    BY <1>3, <2>2 DEF storeBar, StoreIn
  <2>3. CASE ~Exiting
    BY <1>3, <1>11, <2>1, <2>3, Zenon DEF storeBar, StoreIn, StoreOf
  <2>4. QED BY <2>2, <2>3
<1>14. statusBar = StatusIn(frames, return_value, status)
  BY <1>3 DEF statusBar, StatusIn
<1>15. QED BY <1>9, <1>10, <1>12, <1>13, <1>14

\* The bars after a step.
LEMMA BarsNext ==
  /\ agendaBar' = AgendaIn(program', frames', return_value', scopes', status')
  /\ accBar' = AccIn(program', frames', return_value', scopes', status')
  /\ envBar' = EnvIn(frames', return_value', scopes', status')
  /\ storeBar' = StoreIn(frames', return_value', scopes', status')
  /\ statusBar' = StatusIn(frames', return_value', status')
<1>1. (/\ agendaBar = AgendaIn(program, frames, return_value, scopes, status)
       /\ accBar = AccIn(program, frames, return_value, scopes, status)
       /\ envBar = EnvIn(frames, return_value, scopes, status)
       /\ storeBar = StoreIn(frames, return_value, scopes, status)
       /\ statusBar = StatusIn(frames, return_value, status))'
  BY BarsAre, PTL
<1>2. QED BY <1>1

\* A step that changes nothing is none of the structured program.
LEMMA BarsStay ==
  ASSUME UNCHANGED vars
  PROVE  UNCHANGED Abstract!vars
<1>1. /\ program' = program /\ frames' = frames /\ return_value' = return_value
      /\ scopes' = scopes /\ status' = status
  BY DEF vars
<1>2. UNCHANGED <<agendaBar, accBar, envBar, storeBar, statusBar>>
  BY <1>1, BarsAre, BarsNext
<1>3. QED BY <1>1, <1>2 DEF Abstract!vars

\* A maps the first l frames to what they have left to do.
Rolls(A, p, fr, s, l) ==
  A = [i \in 0..l |-> IF i = 0 THEN <<>> ELSE Todo(p, fr[i], Outer(fr, s, i)) \o A[i - 1]]

Rolled(A, p, fr, s) ==
  A[0] = <<>> /\ \A i \in 1..Len(fr) : A[i] = Todo(p, fr[i], Outer(fr, s, i)) \o A[i - 1]

\* There is a map of the tasks of any number of frames, by induction on it.
LEMMA JobsExist ==
  ASSUME NEW p, NEW fr, NEW s, NEW l \in Nat
  PROVE  \E f : Rolls(f, p, fr, s, l)
<1> DEFINE T == {k \in Nat : ~ \E f : Rolls(f, p, fr, s, k)}
<1>1. SUFFICES ASSUME T # {} PROVE FALSE
  OBVIOUS
<1>2. PICK m \in T : \A k \in T : m <= k
  <2>1. T \subseteq Nat
    OBVIOUS
  <2> HIDE DEF T
  <2>2. QED BY <1>1, <2>1, Least
<1>3. m # 0
  <2> DEFINE f == [i \in 0..0 |-> <<>>]
  <2>1. \A i \in 0..0 : f[i] = IF i = 0 THEN <<>> ELSE Todo(p, fr[i], Outer(fr, s, i)) \o f[i - 1]
    OBVIOUS
  <2>2. f = [i \in 0..0 |-> f[i]]
    OBVIOUS
  <2> HIDE DEF f
  <2>3. Rolls(f, p, fr, s, 0)
    BY <2>1, <2>2 DEF Rolls
  <2>4. QED BY <1>2, <2>3
<1>4. m - 1 \in Nat /\ ~(m <= m - 1)
  BY <1>2, <1>3
<1>5. PICK f : Rolls(f, p, fr, s, m - 1)
  BY <1>2, <1>4
<1> DEFINE g == [i \in 0..m |-> IF i = m THEN Todo(p, fr[m], Outer(fr, s, m)) \o f[m - 1] ELSE f[i]]
<1>6. \A i \in 0..m : g[i] = IF i = 0 THEN <<>> ELSE Todo(p, fr[i], Outer(fr, s, i)) \o g[i - 1]
  <2> SUFFICES ASSUME NEW i \in 0..m
               PROVE  g[i] = IF i = 0 THEN <<>> ELSE Todo(p, fr[i], Outer(fr, s, i)) \o g[i - 1]
    OBVIOUS
  <2>1. CASE i = m
    <3>1. m - 1 \in 0..m /\ m - 1 # m
      BY <1>4
    <3>2. g[m - 1] = f[m - 1]
      BY <3>1
    <3>3. QED BY <1>3, <2>1, <3>2
  <2>2. CASE i # m
    <3>1. i \in 0..(m - 1) /\ g[i] = f[i]
      BY <1>4, <2>2
    <3>2. f[i] = IF i = 0 THEN <<>> ELSE Todo(p, fr[i], Outer(fr, s, i)) \o f[i - 1]
      BY <1>5, <3>1 DEF Rolls
    <3>3. i # 0 => g[i - 1] = f[i - 1]
      <4>1. i # 0 => i - 1 \in 0..m /\ i - 1 # m
        BY <1>4, <3>1
      <4>2. QED BY <4>1
    <3>4. QED BY <3>1, <3>2, <3>3
  <2>3. QED BY <2>1, <2>2
<1>7. Rolls(g, p, fr, s, m)
  <2>1. g = [i \in 0..m |-> g[i]]
    OBVIOUS
  <2> HIDE DEF g
  <2>2. QED BY <1>6, <2>1 DEF Rolls
<1>8. QED BY <1>2, <1>7

\* The tasks of the frames, one frame after the other.
LEMMA JobsDef ==
  ASSUME NEW p, NEW fr, NEW s, Len(fr) \in Nat
  PROVE  Rolled(Jobs(p, fr, s), p, fr, s)
<1> DEFINE A == Jobs(p, fr, s)
<1>1. \E f : Rolls(f, p, fr, s, Len(fr))
  BY JobsExist
<1>2. Rolls(A, p, fr, s, Len(fr))
  <2>1. A = CHOOSE f : Rolls(f, p, fr, s, Len(fr))
    BY DEF Jobs, Rolls
  <2>2. QED BY <1>1, <2>1
<1> HIDE DEF A
<1>3. 0 \in 0..Len(fr) /\ \A i \in 1..Len(fr) : i \in 0..Len(fr) /\ i # 0
  OBVIOUS
<1>4. A[0] = <<>>
  BY <1>2, <1>3 DEF Rolls
<1>5. \A i \in 1..Len(fr) : A[i] = Todo(p, fr[i], Outer(fr, s, i)) \o A[i - 1]
  BY <1>2, <1>3 DEF Rolls
<1>6. QED BY <1>4, <1>5 DEF A, Rolled

\* Frames that stay have the same left to do.
LEMMA JobsSame ==
  ASSUME NEW p, NEW fr, NEW s, NEW gr, NEW u, Len(fr) \in Nat, Len(gr) \in Nat,
         NEW k \in Nat, k <= Len(fr), k <= Len(gr),
         \A i \in 1..k : Todo(p, fr[i], Outer(fr, s, i)) = Todo(p, gr[i], Outer(gr, u, i))
  PROVE  \A i \in 0..k : Jobs(p, fr, s)[i] = Jobs(p, gr, u)[i]
<1> DEFINE A == Jobs(p, fr, s)
           B == Jobs(p, gr, u)
           T == {i \in 0..k : A[i] # B[i]}
<1>1. SUFFICES ASSUME T # {} PROVE FALSE
  OBVIOUS
<1>2. PICK m \in T : \A i \in T : m <= i
  <2>1. T \subseteq Nat
    OBVIOUS
  <2> HIDE DEF T
  <2>2. QED BY <1>1, <2>1, Least
<1>9. Rolled(A, p, fr, s) /\ Rolled(B, p, gr, u)
  BY JobsDef
<1> HIDE DEF A, B
<1>3. A[0] = B[0]
  BY <1>9 DEF Rolled
<1>4. m # 0 /\ m \in 0..k /\ A[m] # B[m]
  BY <1>2, <1>3
<1>5. m \in 1..Len(fr) /\ m \in 1..Len(gr) /\ m \in 1..k /\ m - 1 \in 0..k /\ ~(m <= m - 1)
  BY <1>4
<1>6. A[m - 1] = B[m - 1]
  BY <1>2, <1>5
<1>7. /\ A[m] = Todo(p, fr[m], Outer(fr, s, m)) \o A[m - 1]
      /\ B[m] = Todo(p, gr[m], Outer(gr, u, m)) \o B[m - 1]
  BY <1>5, <1>9 DEF Rolled
<1>8. QED BY <1>4, <1>5, <1>6, <1>7

---------------------------------------------------------------------------
(* The tasks of one frame.                                                 *)

\* The visits of the parts after the first k.
Runs(ns, k) == [j \in 1..(Len(ns) - k) |-> Task("run", ns[j + k])]

LEMMA RunsFacts ==
  ASSUME NEW ns, Len(ns) \in Nat, NEW k \in 0..Len(ns)
  PROVE  /\ IsSeq(Runs(ns, k)) /\ Len(Runs(ns, k)) = Len(ns) - k
         /\ \A j \in 1..(Len(ns) - k) : Runs(ns, k)[j] = Task("run", ns[j + k])
<1> DEFINE r == Runs(ns, k)
<1>1. r = [j \in 1..(Len(ns) - k) |-> Task("run", ns[j + k])] /\ Len(ns) - k \in Nat
  BY DEF Runs
<1> HIDE DEF r
<1>2. \A j \in 1..(Len(ns) - k) : r[j] = Task("run", ns[j + k])
  BY <1>1
<1>3. r = [j \in 1..(Len(ns) - k) |-> r[j]]
  BY <1>1
<1>4. IsSeq(r) /\ Len(r) = Len(ns) - k
  BY <1>1, <1>3, FunctionIsSeq
<1>5. QED BY <1>2, <1>4 DEF r

\* The first of the visits, and the others.
LEMMA RunsNext ==
  ASSUME NEW ns, Len(ns) \in Nat, NEW k \in 0..Len(ns), k # Len(ns)
  PROVE  Runs(ns, k) = <<Task("run", ns[k + 1])>> \o Runs(ns, k + 1)
<1> DEFINE r == Runs(ns, k)
           q == Runs(ns, k + 1)
           t == <<Task("run", ns[k + 1])>> \o q
<1>1. /\ IsSeq(r) /\ Len(r) = Len(ns) - k
      /\ \A j \in 1..(Len(ns) - k) : r[j] = Task("run", ns[j + k])
  BY RunsFacts
<1>2. k + 1 \in 0..Len(ns)
  OBVIOUS
<1>3. /\ IsSeq(q) /\ Len(q) = Len(ns) - (k + 1)
      /\ \A j \in 1..(Len(ns) - (k + 1)) : q[j] = Task("run", ns[j + (k + 1)])
  BY <1>2, RunsFacts
<1> HIDE DEF r, q
<1>4. /\ IsSeq(t) /\ Len(t) = Len(q) + 1 /\ t[1] = Task("run", ns[k + 1])
      /\ \A i \in 1..Len(q) : t[i + 1] = q[i]
  BY <1>3, ConsFacts
<1> HIDE DEF t
<1>5. Len(t) = Len(r)
  BY <1>1, <1>3, <1>4
<1>6. \A i \in 1..Len(r) : r[i] = t[i]
  <2> SUFFICES ASSUME NEW i \in 1..Len(r) PROVE r[i] = t[i]
    OBVIOUS
  <2>1. i \in 1..(Len(ns) - k)
    BY <1>1
  <2>2. CASE i = 1
    <3>1. i + k = k + 1
      BY <2>2
    <3>2. QED BY <1>1, <1>4, <2>1, <2>2, <3>1
  <2>3. CASE i # 1
    <3>1. i - 1 \in 1..Len(q) /\ i - 1 + 1 = i /\ i - 1 + (k + 1) = i + k
          /\ i - 1 \in 1..(Len(ns) - (k + 1))
      BY <1>3, <2>1, <2>3
    <3>2. t[i] = q[i - 1]
      BY <1>4, <3>1
    <3>3. q[i - 1] = Task("run", ns[i + k])
      BY <1>3, <3>1
    <3>4. QED BY <1>1, <2>1, <3>2, <3>3
  <2>4. QED BY <2>2, <2>3
<1>7. r = t
  BY <1>1, <1>4, <1>5, <1>6, SameSeq
<1>8. QED BY <1>7 DEF r, q, t

\* After the last part there is nothing.
LEMMA RunsEnd ==
  ASSUME NEW ns, Len(ns) \in Nat
  PROVE  Runs(ns, Len(ns)) = <<>>
<1>1. Len(ns) \in 0..Len(ns) /\ Len(ns) - Len(ns) = 0
  OBVIOUS
<1>2. IsSeq(Runs(ns, Len(ns))) /\ Len(Runs(ns, Len(ns))) = Len(ns) - Len(ns)
  BY <1>1, RunsFacts
<1>3. QED BY <1>1, <1>2, EmptyFacts

\* The tasks that end a block, a call and the program.
LeaveTo(outer) == [task |-> "leave", env |-> outer]
BackTo(p, n, outer) == [task |-> "back", result |-> p.funcs[n.name].result, env |-> outer]
ExitTask == [task |-> "exit"]

\* What is left to do, by the kind of the node.
LEMMA TodoIs ==
  ASSUME NEW p, NEW f, NEW outer
  PROVE  LET n == f.node
             t == Todo(p, f, outer)
         IN
         /\ n.kind = "Enter" => t = Runs(n.kids, f.pc) \o <<ExitTask>>
         /\ n.kind # "Enter" /\ f.pc = 0 => t = <<Task("run", n)>>
         /\ n.kind = "Block" /\ f.pc > 0 /\ f.pc # 0 => t = Runs(n.kids, f.pc - 1) \o <<LeaveTo(outer)>>
         /\ n.kind = "While" /\ f.pc = 1 => t = <<Task("use", n)>> \o <<Task("loop", n)>>
         /\ n.kind = "While" /\ f.pc = 2 => t = <<Task("loop", n)>>
         /\ n.kind = "Call" /\ f.pc = 2 => t = <<BackTo(p, n, outer)>>
         /\ n.kind \notin {"Enter", "Block", "While"} /\ f.pc = 1 => t = <<Task("use", n)>>
         /\ n.kind \in {"And", "Or", "If"} /\ f.pc = 2 => t = <<>>
<1> DEFINE n == f.node
           t == Todo(p, f, outer)
<1>1. n.kind = "Enter" => t = Runs(n.kids, f.pc) \o <<ExitTask>>
  BY DEF Todo, Runs, ExitTask
<1>2. n.kind # "Enter" /\ f.pc = 0 => t = <<Task("run", n)>>
  BY DEF Todo
<1>3. n.kind = "Block" /\ f.pc > 0 /\ f.pc # 0 => t = Runs(n.kids, f.pc - 1) \o <<LeaveTo(outer)>>
  BY DEF Todo, Runs, LeaveTo
<1>4. n.kind = "While" /\ f.pc = 1 => t = <<Task("use", n)>> \o <<Task("loop", n)>>
  <2>1. <<Task("use", n)>> \o <<Task("loop", n)>> = <<Task("use", n), Task("loop", n)>>
    BY TwoFacts
  <2>2. n.kind = "While" /\ f.pc = 1 => t = <<Task("use", n), Task("loop", n)>>
    BY DEF Todo
  <2>3. QED BY <2>1, <2>2
<1>5. n.kind = "While" /\ f.pc = 2 => t = <<Task("loop", n)>>
  BY DEF Todo
<1>6. n.kind = "Call" /\ f.pc = 2 => t = <<BackTo(p, n, outer)>>
  BY DEF Todo, BackTo
<1>7. n.kind \notin {"Enter", "Block", "While"} /\ f.pc = 1 => t = <<Task("use", n)>>
  BY DEF Todo
<1>8. n.kind \in {"And", "Or", "If"} /\ f.pc = 2 => t = <<>>
  BY DEF Todo
<1>9. QED BY <1>1, <1>2, <1>3, <1>4, <1>5, <1>6, <1>7, <1>8

\* The three that the steps below need most.
LEMMA TodoBegins ==
  ASSUME NEW p, NEW f, NEW outer, f.node.kind # "Enter", f.pc = 0
  PROVE  Todo(p, f, outer) = <<Task("run", f.node)>>
  BY DEF Todo

LEMMA TodoUses ==
  ASSUME NEW p, NEW f, NEW outer, f.node.kind \notin {"Enter", "Block", "While"}, f.pc = 1
  PROVE  Todo(p, f, outer) = <<Task("use", f.node)>>
  BY TodoIs

LEMMA TodoLoops ==
  ASSUME NEW p, NEW f, NEW outer, f.node.kind = "While", f.pc = 2
  PROVE  Todo(p, f, outer) = <<Task("loop", f.node)>>
  BY TodoIs

\* A frame of the shape the invariants give it.
FrameOK(f) ==
  /\ f.node.kind \in Kinds /\ f.pc \in Nat /\ PcOK(f)
  /\ IsSeq(f.node.kids) /\ Len(f.node.kids) \in Nat

\* What is left to do ends with leaving the frame's own context, if it has
\* one, and leaves no other; only a loop is tested again.
Shows(t, f, outer) ==
  /\ IsSeq(t)
  /\ OwnsScope(f) => Len(t) # 0 /\ t[Len(t)].env = outer
  /\ f.node.kind = "Call" /\ f.pc = 2 => t[Len(t)].task = "back"
  /\ OwnsScope(f) => t[Len(t)].task \in {"leave", "back"}
  /\ \A i \in 1..Len(t) : t[i].task \in {"leave", "back"} => OwnsScope(f) /\ i = Len(t)
  /\ \A i \in 1..Len(t) : t[i].task = "back" => f.node.kind = "Call" /\ f.pc = 2
  /\ \A i \in 1..Len(t) : t[i].task = "loop" => f.node.kind = "While"

\* A task alone.
LEMMA OneShows ==
  ASSUME NEW x, NEW f, NEW outer,
         OwnsScope(f) => x.task \in {"leave", "back"} /\ x.env = outer,
         x.task \in {"leave", "back"} => OwnsScope(f),
         f.node.kind = "Call" /\ f.pc = 2 => x.task = "back",
         x.task = "back" => f.node.kind = "Call" /\ f.pc = 2,
         x.task = "loop" => f.node.kind = "While"
  PROVE  Shows(<<x>>, f, outer)
<1> DEFINE t == <<x>>
<1>1. IsSeq(t) /\ Len(t) = 1 /\ t[1] = x
  BY OneFacts
<1> HIDE DEF t
<1>2. \A i \in 1..Len(t) : i = 1 /\ t[i] = x /\ i = Len(t)
  BY <1>1
<1>3. Shows(t, f, outer)
  BY <1>1, <1>2 DEF Shows
<1>4. QED BY <1>3 DEF t

\* Visits, and a task after them.
LEMMA RunsShow ==
  ASSUME NEW ns, Len(ns) \in Nat, NEW k \in 0..Len(ns), NEW x, NEW f, NEW outer,
         OwnsScope(f) => x.task \in {"leave", "back"} /\ x.env = outer,
         x.task \in {"leave", "back"} => OwnsScope(f),
         f.node.kind # "Call", x.task # "back", x.task # "loop"
  PROVE  Shows(Runs(ns, k) \o <<x>>, f, outer)
<1> DEFINE r == Runs(ns, k)
           e == <<x>>
           t == r \o e
<1>1. /\ IsSeq(r) /\ Len(r) \in Nat
      /\ \A j \in 1..Len(r) : r[j].task = "run"
  <2>1. IsSeq(r) /\ Len(r) = Len(ns) - k
        /\ \A j \in 1..(Len(ns) - k) : r[j] = Task("run", ns[j + k])
    BY RunsFacts
  <2> HIDE DEF r
  <2>2. \A j \in 1..Len(r) : r[j] = Task("run", ns[j + k])
    BY <2>1
  <2>3. \A m : Task("run", m).task = "run"
    BY DEF Task
  <2>4. Len(ns) - k \in Nat
    OBVIOUS
  <2>5. QED BY <2>1, <2>2, <2>3, <2>4
<1>2. IsSeq(e) /\ Len(e) = 1 /\ e[1] = x
  BY OneFacts
<1>8. IsSeq(r)
  BY <1>1
<1>9. IsSeq(e)
  BY <1>2
<1> HIDE DEF r, e
<1>10. /\ IsSeq(t) /\ Len(t) = Len(r) + Len(e)
       /\ \A i \in 1..Len(r) : t[i] = r[i]
       /\ \A i \in 1..Len(e) : t[Len(r) + i] = e[i]
  BY <1>8, <1>9, ConcatFacts
<1>3. Len(t) = Len(r) + 1
  BY <1>2, <1>10
<1> HIDE DEF t
<1>4. t[Len(t)] = x
  <2>1. 1 \in 1..Len(e)
    BY <1>2
  <2>2. \A i \in 1..Len(e) : t[Len(r) + i] = e[i]
    BY <1>10
  <2>4. t[Len(r) + 1] = e[1]
    BY <2>1, <2>2
  <2>3. QED BY <1>2, <1>3, <2>4
<1>5. \A i \in 1..Len(t) : i = Len(t) \/ t[i].task = "run"
  BY <1>1, <1>3, <1>10
<1>6. Len(t) # 0
  BY <1>1, <1>3
<1>7. Shows(t, f, outer)
  BY <1>10, <1>4, <1>5, <1>6 DEF Shows
<1>11. QED BY <1>7 DEF t, r, e

\* What every frame has left to do.
LEMMA TodoShows ==
  ASSUME NEW p, NEW f, FrameOK(f), NEW outer
  PROVE  Shows(Todo(p, f, outer), f, outer)
<1> DEFINE n == f.node
           t == Todo(p, f, outer)
<1>1. /\ n.kind = "Enter" => t = Runs(n.kids, f.pc) \o <<ExitTask>>
      /\ n.kind # "Enter" /\ f.pc = 0 => t = <<Task("run", n)>>
      /\ n.kind = "Block" /\ f.pc > 0 /\ f.pc # 0 => t = Runs(n.kids, f.pc - 1) \o <<LeaveTo(outer)>>
      /\ n.kind = "While" /\ f.pc = 1 => t = <<Task("use", n)>> \o <<Task("loop", n)>>
      /\ n.kind = "While" /\ f.pc = 2 => t = <<Task("loop", n)>>
      /\ n.kind = "Call" /\ f.pc = 2 => t = <<BackTo(p, n, outer)>>
      /\ n.kind \notin {"Enter", "Block", "While"} /\ f.pc = 1 => t = <<Task("use", n)>>
      /\ n.kind \in {"And", "Or", "If"} /\ f.pc = 2 => t = <<>>
  BY TodoIs
<1> HIDE DEF t
<1>2. f.pc \in Nat /\ n.kind \in Kinds /\ PcOK(f) /\ Len(n.kids) \in Nat
  BY DEF FrameOK
<1>3. CASE n.kind = "Enter"
  <2>1. f.pc \in 0..Len(n.kids) /\ ~OwnsScope(f)
    BY <1>2, <1>3 DEF PcOK, OwnsScope
  <2>2. ExitTask.task = "exit"
    BY DEF ExitTask
  <2>3. Shows(Runs(n.kids, f.pc) \o <<ExitTask>>, f, outer)
    BY <1>2, <1>3, <2>1, <2>2, RunsShow
  <2>4. QED BY <1>1, <1>3, <2>3 DEF t
<1>4. CASE n.kind # "Enter" /\ f.pc = 0
  <2>1. ~OwnsScope(f) /\ Task("run", n).task = "run"
    BY <1>4 DEF OwnsScope, Task
  <2>2. Shows(<<Task("run", n)>>, f, outer)
    BY <1>4, <2>1, OneShows
  <2>3. QED BY <1>1, <1>4, <2>2 DEF t
<1>5. CASE n.kind = "Block" /\ f.pc # 0
  <2>1. f.pc > 0 /\ f.pc - 1 \in 0..Len(n.kids) /\ OwnsScope(f)
    BY <1>2, <1>5 DEF PcOK, OwnsScope
  <2>2. LeaveTo(outer).task = "leave" /\ LeaveTo(outer).env = outer
    BY DEF LeaveTo
  <2>3. Shows(Runs(n.kids, f.pc - 1) \o <<LeaveTo(outer)>>, f, outer)
    BY <1>2, <1>5, <2>1, <2>2, RunsShow
  <2>4. QED BY <1>1, <1>5, <2>1, <2>3 DEF t
<1>6. CASE n.kind = "While" /\ f.pc = 1
  <2> DEFINE u == Task("use", n)
             e == <<Task("loop", n)>>
             q == <<u>> \o e
  <2>1. ~OwnsScope(f) /\ u.task = "use" /\ Task("loop", n).task = "loop"
    BY <1>6 DEF OwnsScope, Task
  <2> HIDE DEF u
  <2>2. IsSeq(e) /\ Len(e) = 1 /\ e[1] = Task("loop", n)
    BY OneFacts
  <2> HIDE DEF e
  <2>3. IsSeq(q) /\ Len(q) = Len(e) + 1 /\ q[1] = u /\ \A i \in 1..Len(e) : q[i + 1] = e[i]
    <3>1. IsSeq(e)
      BY <2>2
    <3>2. QED BY <3>1, ConsFacts
  <2> HIDE DEF q
  <2>4. Len(q) = 2 /\ q[2] = Task("loop", n)
    <3>1. 1 \in 1..Len(e) /\ 1 + 1 = 2
      BY <2>2
    <3>2. QED BY <2>2, <2>3, <3>1
  <2>5. \A i \in 1..Len(q) : q[i].task \in {"use", "loop"}
    <3>1. \A i \in 1..Len(q) : i = 1 \/ i = 2
      BY <2>4
    <3>2. QED BY <2>1, <2>3, <2>4, <3>1
  <2>6. Shows(q, f, outer)
    <3>1. f.node.kind = "While" /\ f.node.kind # "Call"
      BY <1>6
    <3>2. QED BY <3>1, <2>1, <2>3, <2>5 DEF Shows
  <2>7. QED BY <1>1, <1>6, <2>6 DEF t, q, e, u
<1>7. CASE n.kind = "While" /\ f.pc = 2
  <2>1. ~OwnsScope(f) /\ Task("loop", n).task = "loop"
    BY <1>7 DEF OwnsScope, Task
  <2>2. Shows(<<Task("loop", n)>>, f, outer)
    BY <1>7, <2>1, OneShows
  <2>3. QED BY <1>1, <1>7, <2>2 DEF t
<1>8. CASE n.kind = "Call" /\ f.pc = 2
  <2>1. OwnsScope(f) /\ BackTo(p, n, outer).task = "back" /\ BackTo(p, n, outer).env = outer
    BY <1>8 DEF OwnsScope, BackTo
  <2>2. Shows(<<BackTo(p, n, outer)>>, f, outer)
    BY <1>8, <2>1, OneShows
  <2>3. QED BY <1>1, <1>8, <2>2 DEF t
<1>9. CASE n.kind \notin {"Enter", "Block", "While"} /\ f.pc = 1
  <2>1. ~OwnsScope(f) /\ Task("use", n).task = "use"
    BY <1>9 DEF OwnsScope, Task
  <2>2. Shows(<<Task("use", n)>>, f, outer)
    BY <1>9, <2>1, OneShows
  <2>3. QED BY <1>1, <1>9, <2>2 DEF t
<1>10. CASE n.kind \in {"And", "Or", "If"} /\ f.pc = 2
  <2> DEFINE e == <<>>
  <2>1. ~OwnsScope(f)
    BY <1>10 DEF OwnsScope
  <2>2. IsSeq(e) /\ Len(e) = 0
    BY EmptyFacts
  <2>3. t = e
    BY <1>1, <1>10
  <2> HIDE DEF e
  <2>4. \A i \in 1..Len(e) : FALSE
    BY <2>2
  <2>5. Shows(e, f, outer)
    <3>1. f.node.kind # "Call"
      BY <1>10
    <3>2. QED BY <3>1, <2>1, <2>2, <2>4 DEF Shows
  <2>6. QED BY <2>3, <2>5 DEF t
<1>11. QED
  <2>1. \/ n.kind = "Enter" \/ (n.kind # "Enter" /\ f.pc = 0) \/ (n.kind = "Block" /\ f.pc # 0)
        \/ (n.kind = "While" /\ f.pc = 1) \/ (n.kind = "While" /\ f.pc = 2)
        \/ (n.kind = "Call" /\ f.pc = 2)
        \/ (n.kind \notin {"Enter", "Block", "While"} /\ f.pc = 1)
        \/ (n.kind \in {"And", "Or", "If"} /\ f.pc = 2)
    BY <1>2 DEF PcOK, Kinds, Expressions, Statements
  <2>2. QED BY <1>3, <1>4, <1>5, <1>6, <1>7, <1>8, <1>9, <1>10, <2>1 DEF t

---------------------------------------------------------------------------
(* The scopes and calls of an agenda.                                      *)

Marks(a, W) == {i \in DOMAIN a : a[i].task \in W}

\* Two agendas, one after the other, mark what each of them marks.
LEMMA MarksConcat ==
  ASSUME NEW t, IsSeq(t), NEW b, IsSeq(b), NEW W
  PROVE  /\ Cardinality(Marks(t \o b, W)) = Cardinality(Marks(t, W)) + Cardinality(Marks(b, W))
         /\ Cardinality(Marks(t, W)) \in Nat /\ Cardinality(Marks(b, W)) \in Nat
<1> DEFINE r == t \o b
           S == Marks(t, W)
           T == Marks(b, W)
           m == Len(t)
           U == {m + i : i \in T}
<1>1. /\ IsSeq(r) /\ Len(r) = Len(t) + Len(b)
      /\ \A i \in 1..Len(t) : r[i] = t[i]
      /\ \A i \in 1..Len(b) : r[Len(t) + i] = b[i]
  BY ConcatFacts
<1>2. /\ Len(t) \in Nat /\ DOMAIN t = 1..Len(t) /\ Len(b) \in Nat /\ DOMAIN b = 1..Len(b)
  BY SeqFacts
<1>3. DOMAIN r = 1..Len(r)
  BY <1>1, SeqFacts
<1> HIDE DEF r
<1>4. S \subseteq 1..Len(t) /\ T \subseteq 1..Len(b)
  BY <1>2 DEF Marks
<1>5. IsFiniteSet(S) /\ IsFiniteSet(T)
  <2>1. IsFiniteSet(1..Len(t)) /\ IsFiniteSet(1..Len(b))
    BY <1>2, FS_Interval
  <2> HIDE DEF S, T
  <2>2. QED BY <1>4, <2>1, FS_Subset
<1>6. Marks(r, W) = S \cup U
  <2>1. ASSUME NEW i \in Marks(r, W) PROVE i \in S \cup U
    <3>1. i \in 1..(Len(t) + Len(b)) /\ r[i].task \in W
      BY <1>1, <1>3 DEF Marks
    <3>2. CASE i <= Len(t)
      <4>1. i \in 1..Len(t)
        BY <1>2, <3>1, <3>2
      <4>2. QED BY <1>1, <1>2, <3>1, <4>1 DEF Marks
    <3>3. CASE ~(i <= Len(t))
      <4>1. i - m \in 1..Len(b) /\ i = m + (i - m)
        BY <1>2, <3>1, <3>3
      <4>2. r[i] = b[i - m]
        BY <1>1, <4>1
      <4>3. i - m \in T
        BY <1>2, <3>1, <4>1, <4>2 DEF Marks
      <4>4. QED BY <4>1, <4>3
    <3>4. QED BY <3>2, <3>3
  <2>2. ASSUME NEW i \in S PROVE i \in Marks(r, W)
    <3>1. i \in 1..Len(t) /\ t[i].task \in W
      BY <1>2 DEF Marks
    <3>2. i \in 1..Len(r) /\ r[i] = t[i]
      BY <1>1, <1>2, <3>1
    <3>3. QED BY <1>3, <3>1, <3>2 DEF Marks
  <2>3. ASSUME NEW j \in T PROVE m + j \in Marks(r, W)
    <3>1. j \in 1..Len(b) /\ b[j].task \in W
      BY <1>2 DEF Marks
    <3>2. m + j \in 1..Len(r) /\ r[m + j] = b[j]
      BY <1>1, <1>2, <3>1
    <3>3. QED BY <1>3, <3>1, <3>2 DEF Marks
  <2>4. QED BY <2>1, <2>2, <2>3
<1>7. S \cap U = {}
  <2>1. \A i \in S, j \in T : i # m + j
    BY <1>2, <1>4
  <2>2. QED BY <2>1
<1> HIDE DEF S, T
<1>8. IsFiniteSet(U) /\ Cardinality(U) = Cardinality(T)
  <2> DEFINE f == [i \in T |-> m + i]
  <2>1. \A i, j \in T : m + i = m + j => i = j
    BY <1>2, <1>4
  <2>2. f \in Bijection(T, U)
    <3>1. f \in [T -> U] /\ \A i \in T : f[i] = m + i
      OBVIOUS
    <3>2. \A u \in U : \E i \in T : f[i] = u
      OBVIOUS
    <3> HIDE DEF f
    <3>3. \A i, j \in T : f[i] = f[j] => i = j
      BY <2>1, <3>1
    <3>4. QED BY <3>1, <3>2, <3>3 DEF Bijection, Injection, Surjection, IsInjective
  <2> HIDE DEF f, U
  <2>3. ExistsBijection(T, U)
    BY <2>2 DEF ExistsBijection
  <2>4. QED BY <1>5, <2>3, FS_Bijection
<1> HIDE DEF U
<1>9. Cardinality(S) \in Nat /\ Cardinality(T) \in Nat /\ Cardinality({}) = 0
  BY <1>5, FS_CardinalityType, FS_EmptySet
<1>10. Cardinality(S \cup U) = Cardinality(S) + Cardinality(U) - Cardinality(S \cap U)
  <2>1. IsFiniteSet(S)
    BY <1>5
  <2>2. IsFiniteSet(U)
    BY <1>8
  <2>3. QED BY <2>1, <2>2, FS_Union
<1>11. Cardinality(S \cup U) = Cardinality(S) + Cardinality(T)
  <2>1. Cardinality(S \cap U) = 0
    BY <1>7, <1>9
  <2> DEFINE x == Cardinality(S)
             y == Cardinality(T)
  <2>2. x \in Nat /\ y \in Nat /\ Cardinality(S \cup U) = x + y - 0
    BY <1>8, <1>9, <1>10, <2>1
  <2> HIDE DEF x, y
  <2>3. Cardinality(S \cup U) = x + y
    BY <2>2
  <2>4. QED BY <2>3 DEF x, y
<1>12. QED BY <1>6, <1>9, <1>11 DEF r, S, T

\* How many of the first n frames are calls of a function's body.
InCall(f) == f.node.kind = "Call" /\ f.pc = 2
CallsIn(fr, n) == Cardinality({j \in 1..n : InCall(fr[j])})
OneCall(f) == IF InCall(f) THEN 1 ELSE 0

\* One more frame counts one more call if it is one.
LEMMA CallsNext ==
  ASSUME NEW fr, NEW n \in Nat
  PROVE  CallsIn(fr, n) \in Nat /\ CallsIn(fr, n + 1) = CallsIn(fr, n) + OneCall(fr[n + 1])
<1> DEFINE S == {j \in 1..n : InCall(fr[j])}
           T == {j \in 1..(n + 1) : InCall(fr[j])}
<1>1. IsFiniteSet(S)
  <2>1. IsFiniteSet(1..n) /\ S \subseteq 1..n
    BY FS_Interval
  <2>2. QED BY <2>1, FS_Subset
<1>2. Cardinality(S) \in Nat
  BY <1>1, FS_CardinalityType
<1>0. CallsIn(fr, n) = Cardinality(S) /\ CallsIn(fr, n + 1) = Cardinality(T)
  BY DEF CallsIn
<1>3. CASE InCall(fr[n + 1])
  <2>1. T = S \cup {n + 1} /\ n + 1 \notin S
    BY <1>3
  <2>2. Cardinality(T) = Cardinality(S) + 1
    BY <1>1, <2>1, FS_AddElement
  <2> HIDE DEF S, T
  <2>3. QED BY <1>0, <1>2, <1>3, <2>2 DEF OneCall
<1>4. CASE ~InCall(fr[n + 1])
  <2>1. T = S
    BY <1>4
  <2> HIDE DEF S, T
  <2>2. QED BY <1>0, <1>2, <1>4, <2>1 DEF OneCall
<1>5. QED BY <1>3, <1>4

\* A frame's tasks mark its own context and its own call.
LEMMA ShowsMarks ==
  ASSUME NEW t, NEW f, NEW outer, Shows(t, f, outer)
  PROVE  /\ Cardinality(Marks(t, {"leave", "back"})) = One(f)
         /\ Cardinality(Marks(t, {"back"})) = OneCall(f)
<1> DEFINE n == Len(t)
<1>1. IsSeq(t) /\ n \in Nat /\ DOMAIN t = 1..n
  BY SeqFacts DEF Shows
<1>2. Cardinality({}) = 0 /\ Cardinality({n}) = 1
  BY FS_EmptySet, FS_Singleton
<1>3. CASE OwnsScope(f)
  <2>1. n \in 1..n /\ t[n].task \in {"leave", "back"}
    <3>1. n # 0 /\ t[n].task \in {"leave", "back"}
      BY <1>3 DEF Shows
    <3> HIDE DEF n
    <3>2. QED BY <1>1, <3>1
  <2>2. \A i \in 1..n : t[i].task \in {"leave", "back"} => i = n
    BY DEF Shows
  <2>3. Marks(t, {"leave", "back"}) = {n}
    BY <1>1, <2>1, <2>2 DEF Marks
  <2>4. CASE InCall(f)
    <3>1. t[n].task = "back"
      BY <2>4 DEF InCall, Shows
    <3>2. Marks(t, {"back"}) = {n}
      BY <1>1, <2>1, <2>2, <3>1 DEF Marks
    <3>3. QED BY <1>2, <1>3, <2>3, <2>4, <3>2 DEF One, OneCall
  <2>5. CASE ~InCall(f)
    <3>1. Marks(t, {"back"}) = {}
      BY <1>1, <2>5 DEF Marks, Shows, InCall
    <3>2. QED BY <1>2, <1>3, <2>3, <2>5, <3>1 DEF One, OneCall
  <2>6. QED BY <2>4, <2>5
<1>4. CASE ~OwnsScope(f)
  <2>1. Marks(t, {"leave", "back"}) = {} /\ Marks(t, {"back"}) = {}
    BY <1>1, <1>4 DEF Marks, Shows
  <2>2. ~InCall(f)
    BY <1>4 DEF InCall, OwnsScope
  <2>3. QED BY <1>2, <1>4, <2>1, <2>2 DEF One, OneCall
<1>5. QED BY <1>3, <1>4

\* Frames of the right shape.
Shaped(fr) == IsSeq(fr) /\ Len(fr) \in Nat /\ \A i \in 1..Len(fr) : FrameOK(fr[i])

\* An agenda that is a stack of frames has their scopes and their calls.
Counted(a, fr, k) ==
  /\ IsSeq(a)
  /\ Cardinality(Marks(a, {"leave", "back"})) = Owned(fr, k)
  /\ Cardinality(Marks(a, {"back"})) = CallsIn(fr, k)

LEMMA JobsCounted ==
  ASSUME NEW p, NEW fr, NEW s, Shaped(fr), NEW k \in 0..Len(fr)
  PROVE  Counted(Jobs(p, fr, s)[k], fr, k)
<1> DEFINE A == Jobs(p, fr, s)
           T == {i \in 0..Len(fr) : ~Counted(A[i], fr, i)}
<1>0. Len(fr) \in Nat /\ \A i \in 1..Len(fr) : FrameOK(fr[i])
  BY DEF Shaped
<1>1. SUFFICES ASSUME T # {} PROVE FALSE
  OBVIOUS
<1>2. PICK m \in T : \A i \in T : m <= i
  <2>1. T \subseteq Nat
    BY <1>0
  <2> HIDE DEF T
  <2>2. QED BY <1>1, <2>1, Least
<1>3. Rolled(A, p, fr, s)
  BY <1>0, JobsDef
<1> HIDE DEF A
<1>4. A[0] = <<>>
  BY <1>3 DEF Rolled
<1>5. Counted(A[0], fr, 0)
  <2> DEFINE e == <<>>
  <2>1. IsSeq(e) /\ Len(e) = 0
    BY EmptyFacts
  <2>2. A[0] = e
    BY <1>4
  <2> HIDE DEF e
  <2>3. DOMAIN e = {}
    BY <2>1, SeqFacts
  <2>4. \A W : Marks(e, W) = {}
    BY <2>3 DEF Marks
  <2>5. Owned(fr, 0) = 0 /\ CallsIn(fr, 0) = 0
    <3>1. {j \in 1..0 : OwnsScope(fr[j])} = {} /\ {j \in 1..0 : InCall(fr[j])} = {}
      OBVIOUS
    <3>2. QED BY <3>1, FS_EmptySet DEF Owned, CallsIn
  <2>6. QED BY <2>1, <2>2, <2>4, <2>5, FS_EmptySet DEF Counted
<1>6. m \in 0..Len(fr) /\ ~Counted(A[m], fr, m) /\ m # 0
  BY <1>2, <1>5
<1>7. m \in 1..Len(fr) /\ m - 1 \in 0..Len(fr) /\ ~(m <= m - 1) /\ m - 1 \in Nat /\ m - 1 + 1 = m
  BY <1>0, <1>6
<1>8. Counted(A[m - 1], fr, m - 1)
  BY <1>2, <1>7
<1> DEFINE b == A[m - 1]
           t == Todo(p, fr[m], Outer(fr, s, m))
<1>9. A[m] = t \o b
  BY <1>3, <1>7 DEF Rolled
<1>10. Shows(t, fr[m], Outer(fr, s, m))
  BY <1>0, <1>7, TodoShows
<1>11. IsSeq(t)
  BY <1>10 DEF Shows
<1>12. IsSeq(b)
  BY <1>8 DEF Counted
<1>13. /\ Cardinality(Marks(t, {"leave", "back"})) = One(fr[m])
       /\ Cardinality(Marks(t, {"back"})) = OneCall(fr[m])
  BY <1>10, ShowsMarks
<1>14. /\ Owned(fr, m - 1) \in Nat /\ Owned(fr, m - 1 + 1) = Owned(fr, m - 1) + One(fr[m - 1 + 1])
       /\ CallsIn(fr, m - 1) \in Nat
       /\ CallsIn(fr, m - 1 + 1) = CallsIn(fr, m - 1) + OneCall(fr[m - 1 + 1])
  BY <1>7, OwnedNext, CallsNext
<1> HIDE DEF t, b
<1>15. IsSeq(t \o b)
  BY <1>11, <1>12, ConcatFacts
<1>16. \A W : Cardinality(Marks(t \o b, W)) = Cardinality(Marks(t, W)) + Cardinality(Marks(b, W))
  BY <1>11, <1>12, MarksConcat
<1>17. /\ Cardinality(Marks(b, {"leave", "back"})) = Owned(fr, m - 1)
       /\ Cardinality(Marks(b, {"back"})) = CallsIn(fr, m - 1)
  BY <1>8 DEF Counted, b
<1>18. One(fr[m]) \in Nat /\ OneCall(fr[m]) \in Nat
  BY DEF One, OneCall
<1>19. /\ Owned(fr, m) = Owned(fr, m - 1) + One(fr[m])
       /\ CallsIn(fr, m) = CallsIn(fr, m - 1) + OneCall(fr[m])
  BY <1>7, <1>14
<1>20. /\ Cardinality(Marks(t \o b, {"leave", "back"})) = Owned(fr, m)
       /\ Cardinality(Marks(t \o b, {"back"})) = CallsIn(fr, m)
  <2>1. /\ Cardinality(Marks(t \o b, {"leave", "back"})) = One(fr[m]) + Owned(fr, m - 1)
        /\ Cardinality(Marks(t \o b, {"back"})) = OneCall(fr[m]) + CallsIn(fr, m - 1)
    BY <1>13, <1>16, <1>17
  <2>2. QED BY <1>14, <1>18, <1>19, <2>1
<1>21. Counted(A[m], fr, m)
  BY <1>9, <1>15, <1>20 DEF Counted
<1>22. QED BY <1>6, <1>21

---------------------------------------------------------------------------
(* Cutting an agenda.                                                      *)

\* A bounded set of numbers has a greatest.
LEMMA Greatest ==
  ASSUME NEW T, NEW n \in Nat, T \subseteq 0..n, T # {}
  PROVE  \E m \in T : \A k \in T : k <= m
<1> DEFINE R == {n - k : k \in T}
<1>1. R \subseteq Nat /\ R # {}
  <2>1. \A k \in T : k \in 0..n
    OBVIOUS
  <2>2. \A k \in 0..n : n - k \in Nat
    OBVIOUS
  <2>3. QED BY <2>1, <2>2
<1>2. PICK r \in R : \A q \in R : r <= q
  <2> HIDE DEF R
  <2>1. QED BY <1>1, Least
<1>3. PICK m \in T : r = n - m
  BY <1>2
<1>4. \A k \in T : k <= m
  <2> SUFFICES ASSUME NEW k \in T PROVE k <= m
    OBVIOUS
  <2>1. n - m <= n - k
    BY <1>2, <1>3
  <2>2. m \in 0..n /\ k \in 0..n
    BY <1>3
  <2>3. QED BY <2>1, <2>2
<1>5. QED BY <1>4

GreatestOf(S) == CHOOSE j \in S : \A k \in S : k <= j

\* It is the only one.
LEMMA GreatestIs ==
  ASSUME NEW S, S \subseteq Int, NEW m \in S, \A k \in S : k <= m
  PROVE  GreatestOf(S) = m
<1>1. GreatestOf(S) \in S /\ m <= GreatestOf(S)
  BY DEF GreatestOf
<1>2. GreatestOf(S) <= m /\ GreatestOf(S) \in Int /\ m \in Int
  BY <1>1
<1> DEFINE g == GreatestOf(S)
<1> HIDE DEF g
<1>3. g = m
  BY <1>1, <1>2 DEF g
<1>4. QED BY <1>3 DEF g

\* The names that are seen when the first i tasks of a are dropped, where e
\* is seen before.
LeftIn(a, i) == {j \in Marks(a, {"leave", "back"}) : j <= i}
CutEnv(a, i, e) == IF LeftIn(a, i) = {} THEN e ELSE a[GreatestOf(LeftIn(a, i))].env

\* They are those around the last context dropped.
LEMMA CutConcat ==
  ASSUME NEW t, NEW f, NEW outer, Shows(t, f, outer), NEW b, IsSeq(b), NEW i \in 0..Len(b), NEW e
  PROVE  CutEnv(t \o b, Len(t) + i, e) = CutEnv(b, i, IF OwnsScope(f) THEN outer ELSE e)
<1> DEFINE a == t \o b
           m == Len(t)
           W == {"leave", "back"}
           L == LeftIn(a, m + i)
           B == LeftIn(b, i)
<1>1. IsSeq(t)
  BY DEF Shows
<1>2. /\ IsSeq(a) /\ Len(a) = Len(t) + Len(b)
      /\ \A j \in 1..Len(t) : a[j] = t[j]
      /\ \A j \in 1..Len(b) : a[Len(t) + j] = b[j]
  BY <1>1, ConcatFacts
<1>3. m \in Nat /\ DOMAIN b = 1..Len(b) /\ Len(b) \in Nat
  BY <1>1, SeqFacts
<1>4. DOMAIN a = 1..(m + Len(b))
  BY <1>2, SeqFacts
<1> HIDE DEF a
<1>5. B \subseteq 1..i /\ \A j \in B : j \in 1..Len(b) /\ b[j].task \in W
  BY <1>3 DEF LeftIn, Marks
<1>6. L \subseteq 1..(m + i) /\ \A j \in L : a[j].task \in W /\ j \in 1..(m + Len(b))
  BY <1>3, <1>4 DEF LeftIn, Marks
<1>7. \A j \in L : j > m => j - m \in B
  <2> SUFFICES ASSUME NEW j \in L, j > m PROVE j - m \in B
    OBVIOUS
  <2>1. j - m \in 1..Len(b) /\ m + (j - m) = j /\ j - m <= i
    BY <1>3, <1>6
  <2>2. a[j] = b[j - m]
    BY <1>2, <2>1
  <2>3. b[j - m].task \in W
    BY <1>6, <2>2
  <2>4. QED BY <1>3, <2>1, <2>3 DEF LeftIn, Marks
<1>8. \A j \in B : m + j \in L
  <2> SUFFICES ASSUME NEW j \in B PROVE m + j \in L
    OBVIOUS
  <2>1. m + j \in 1..(m + Len(b)) /\ m + j <= m + i /\ j \in 1..Len(b)
    BY <1>3, <1>5
  <2>2. a[m + j] = b[j]
    BY <1>2, <2>1
  <2>3. a[m + j].task \in W
    BY <1>5, <2>2
  <2>4. QED BY <1>4, <2>1, <2>3 DEF LeftIn, Marks
<1>9. CASE B # {}
  <2>1. PICK g \in B : \A j \in B : j <= g
    <3>1. B \subseteq 0..i /\ i \in Nat
      BY <1>3, <1>5
    <3> HIDE DEF B
    <3>2. QED BY <1>9, <3>1, Greatest
  <2>2. GreatestOf(B) = g
    <3>1. B \subseteq Int
      BY <1>5
    <3> HIDE DEF B
    <3>2. QED BY <2>1, <3>1, GreatestIs
  <2>3. m + g \in L /\ \A j \in L : j <= m + g
    <3>1. \A j \in L : j > m => j - m <= g
      BY <1>7, <2>1
    <3>2. g \in 1..i
      BY <1>5, <2>1
    <3> HIDE DEF L, B
    <3>3. QED BY <1>3, <1>6, <1>8, <2>1, <3>1, <3>2
  <2>4. GreatestOf(L) = m + g
    <3>1. L \subseteq Int
      BY <1>6
    <3> HIDE DEF L
    <3>2. QED BY <2>3, <3>1, GreatestIs
  <2>5. a[m + g] = b[g]
    BY <1>2, <1>5, <2>1
  <2>6. L # {}
    BY <2>3
  <2>7. CutEnv(a, m + i, e) = b[g].env
    BY <2>4, <2>5, <2>6 DEF CutEnv
  <2>8. \A x : CutEnv(b, i, x) = b[g].env
    BY <1>9, <2>2 DEF CutEnv
  <2>9. QED BY <2>7, <2>8 DEF a
<1>10. CASE B = {}
  <2>1. \A x : CutEnv(b, i, x) = x
    BY <1>10 DEF CutEnv
  <2>2. \A j \in L : j \in 1..m
    BY <1>3, <1>6, <1>7, <1>10
  <2>3. CASE OwnsScope(f)
    <3>1. m # 0 /\ t[m].env = outer /\ t[m].task \in W
      BY <2>3 DEF Shows
    <3>2. m \in 1..m /\ m \in 1..(m + Len(b)) /\ m <= m + i
      BY <1>3, <3>1
    <3>3. a[m] = t[m]
      BY <1>2, <3>2
    <3>4. m \in L
      BY <1>4, <3>1, <3>2, <3>3 DEF LeftIn, Marks
    <3>5. \A j \in L : j <= m
      BY <1>3, <2>2
    <3>6. GreatestOf(L) = m
      <4>1. L \subseteq Int
        BY <1>6
      <4> HIDE DEF L, m
      <4>2. QED BY <3>4, <3>5, <4>1, GreatestIs
    <3>7. CutEnv(a, m + i, e) = outer
      BY <3>1, <3>3, <3>4, <3>6 DEF CutEnv
    <3>8. QED BY <2>1, <2>3, <3>7 DEF a
  <2>4. CASE ~OwnsScope(f)
    <3>1. L = {}
      <4> SUFFICES ASSUME NEW j \in L PROVE FALSE
        OBVIOUS
      <4>1. j \in 1..m
        BY <2>2
      <4>2. a[j] = t[j]
        BY <1>2, <4>1
      <4>3. t[j].task \in W
        BY <1>6, <4>2
      <4>4. QED BY <2>4, <4>1, <4>3 DEF Shows
    <3>2. CutEnv(a, m + i, e) = e
      BY <3>1 DEF CutEnv
    <3>3. QED BY <2>1, <2>4, <3>2 DEF a
  <2>5. QED BY <2>3, <2>4
<1>11. QED BY <1>9, <1>10

\* Nothing is dropped.
LEMMA CutNone ==
  ASSUME NEW a, IsSeq(a), NEW e
  PROVE  CutEnv(a, 0, e) = e
<1>1. DOMAIN a = 1..Len(a) /\ Len(a) \in Nat
  BY SeqFacts
<1>2. LeftIn(a, 0) = {}
  BY <1>1 DEF LeftIn, Marks
<1>3. QED BY <1>2 DEF CutEnv

\* What m frames have left to do ends with what the first k have; dropping
\* the rest goes back to the names around frame k, and drops the tests of
\* their own loops and the returns of their own calls.
Spans(a, b, fr, s, k, m) ==
  /\ IsSeq(a) /\ IsSeq(b) /\ Len(a) \in Nat /\ Len(b) \in Nat /\ Len(b) <= Len(a)
  /\ \A i \in 1..Len(b) : a[Len(a) - Len(b) + i] = b[i]
  /\ CutEnv(a, Len(a) - Len(b), SeenIn(s)[Depth(fr, m)]) = SeenIn(s)[Depth(fr, k)]
  /\ \A i \in 1..(Len(a) - Len(b)) :
       /\ a[i].task = "loop" => \E j \in (k + 1)..m : fr[j].node.kind = "While"
       /\ a[i].task = "back" => \E j \in (k + 1)..m : InCall(fr[j])

\* The outer names of a frame are those of the frame below it.
LEMMA OuterIs ==
  ASSUME NEW fr, NEW s, NEW m \in Nat, m # 0
  PROVE  /\ Depth(fr, m) = Depth(fr, m - 1) + One(fr[m]) /\ Depth(fr, m - 1) \in Nat
         /\ Depth(fr, m - 1) # 0
         /\ OwnsScope(fr[m]) => Outer(fr, s, m) = SeenIn(s)[Depth(fr, m - 1)]
         /\ ~OwnsScope(fr[m]) => Depth(fr, m) = Depth(fr, m - 1)
<1>1. m - 1 \in Nat /\ m - 1 + 1 = m
  OBVIOUS
<1>2. Owned(fr, m - 1) \in Nat /\ Owned(fr, m - 1 + 1) = Owned(fr, m - 1) + One(fr[m - 1 + 1])
  BY <1>1, OwnedNext
<1>3. Owned(fr, m) = Owned(fr, m - 1) + One(fr[m])
  BY <1>1, <1>2
<1>4. One(fr[m]) \in Nat /\ (OwnsScope(fr[m]) => One(fr[m]) = 1) /\ (~OwnsScope(fr[m]) => One(fr[m]) = 0)
  BY DEF One
<1> DEFINE x == Owned(fr, m - 1)
           y == Owned(fr, m)
           o == One(fr[m])
<1>5. x \in Nat /\ y = x + o /\ o \in Nat
  BY <1>2, <1>3, <1>4
<1>6. Depth(fr, m) = 1 + y /\ Depth(fr, m - 1) = 1 + x
  BY DEF Depth
<1> HIDE DEF x, y, o
<1>7. /\ 1 + y = 1 + x + o /\ 1 + x \in Nat /\ 1 + x # 0
      /\ (o = 1 => 1 + y - 1 = 1 + x) /\ (o = 0 => 1 + y = 1 + x)
  BY <1>5
<1>8. o = 1 => Depth(fr, m) - 1 = Depth(fr, m - 1)
  BY <1>6, <1>7
<1>9. OwnsScope(fr[m]) => Outer(fr, s, m) = SeenIn(s)[Depth(fr, m - 1)]
  BY <1>4, <1>8 DEF Outer, o
<1>10. QED BY <1>4, <1>6, <1>7, <1>9 DEF o

\* By induction on the frames above frame k.
LEMMA JobsSpan ==
  ASSUME NEW p, NEW fr, NEW s, Shaped(fr), NEW k \in 0..Len(fr), NEW m \in k..Len(fr)
  PROVE  Spans(Jobs(p, fr, s)[m], Jobs(p, fr, s)[k], fr, s, k, m)
<1> DEFINE A == Jobs(p, fr, s)
           T == {i \in k..Len(fr) : ~Spans(A[i], A[k], fr, s, k, i)}
<1>0. Len(fr) \in Nat /\ \A i \in 1..Len(fr) : FrameOK(fr[i])
  BY DEF Shaped
<1>1. SUFFICES ASSUME T # {} PROVE FALSE
  OBVIOUS
<1>2. PICK h \in T : \A i \in T : h <= i
  <2>1. T \subseteq Nat
    BY <1>0
  <2> HIDE DEF T
  <2>2. QED BY <1>1, <2>1, Least
<1>3. Rolled(A, p, fr, s)
  BY <1>0, JobsDef
<1>4. \A i \in 0..Len(fr) : IsSeq(A[i]) /\ Len(A[i]) \in Nat
  BY JobsCounted, SeqFacts DEF Counted
<1> HIDE DEF A
<1>5. Spans(A[k], A[k], fr, s, k, k)
  <2> DEFINE b == A[k]
  <2>1. IsSeq(b) /\ Len(b) \in Nat
    BY <1>4
  <2> HIDE DEF b
  <2>2. Len(b) <= Len(b) /\ Len(b) - Len(b) = 0 /\ \A i \in 1..Len(b) : 0 + i = i
    BY <2>1
  <2>3. CutEnv(b, Len(b) - Len(b), SeenIn(s)[Depth(fr, k)]) = SeenIn(s)[Depth(fr, k)]
    BY <2>1, <2>2, CutNone
  <2>4. \A i \in 1..(Len(b) - Len(b)) : FALSE
    BY <2>2
  <2>5. QED BY <2>1, <2>2, <2>3, <2>4 DEF Spans, b
<1>6. h \in k..Len(fr) /\ ~Spans(A[h], A[k], fr, s, k, h) /\ h # k
  BY <1>2, <1>5
<1>7. /\ h \in 1..Len(fr) /\ h - 1 \in k..Len(fr) /\ ~(h <= h - 1) /\ h \in Nat /\ h # 0
      /\ h - 1 \in 0..Len(fr) /\ h \in 0..Len(fr)
  BY <1>0, <1>6
<1>8. Spans(A[h - 1], A[k], fr, s, k, h - 1)
  BY <1>2, <1>7
<1> DEFINE o == Outer(fr, s, h)
           t == Todo(p, fr[h], o)
           c == A[h - 1]
           b == A[k]
           a == t \o c
<1>9. A[h] = a
  BY <1>3, <1>7 DEF Rolled
<1>10. Shows(t, fr[h], o)
  BY <1>0, <1>7, TodoShows
<1>11. IsSeq(t)
  BY <1>10 DEF Shows
<1>12. IsSeq(c) /\ Len(c) \in Nat /\ IsSeq(b) /\ Len(b) \in Nat
  BY <1>4, <1>7
<1>13. IsSeq(c)
  BY <1>12
<1>14. /\ Len(b) <= Len(c)
       /\ \A i \in 1..Len(b) : c[Len(c) - Len(b) + i] = b[i]
       /\ CutEnv(c, Len(c) - Len(b), SeenIn(s)[Depth(fr, h - 1)]) = SeenIn(s)[Depth(fr, k)]
       /\ \A i \in 1..(Len(c) - Len(b)) :
            /\ c[i].task = "loop" => \E j \in (k + 1)..(h - 1) : fr[j].node.kind = "While"
            /\ c[i].task = "back" => \E j \in (k + 1)..(h - 1) : InCall(fr[j])
  BY <1>8 DEF Spans
<1> HIDE DEF t, c, b, o
<1>15. /\ IsSeq(a) /\ Len(a) = Len(t) + Len(c)
       /\ \A i \in 1..Len(t) : a[i] = t[i]
       /\ \A i \in 1..Len(c) : a[Len(t) + i] = c[i]
  BY <1>11, <1>13, ConcatFacts
<1>16. Len(t) \in Nat
  BY <1>11, SeqFacts
<1> DEFINE d == Len(c) - Len(b)
<1>17. d \in 0..Len(c) /\ Len(a) - Len(b) = Len(t) + d /\ Len(a) \in Nat /\ Len(b) <= Len(a)
  BY <1>12, <1>14, <1>15, <1>16
<1>18. \A i \in 1..Len(b) : a[Len(a) - Len(b) + i] = b[i]
  <2> SUFFICES ASSUME NEW i \in 1..Len(b) PROVE a[Len(a) - Len(b) + i] = b[i]
    OBVIOUS
  <2>1. d + i \in 1..Len(c) /\ Len(a) - Len(b) + i = Len(t) + (d + i)
    BY <1>12, <1>16, <1>17
  <2>2. a[Len(t) + (d + i)] = c[d + i]
    BY <1>15, <2>1
  <2>3. QED BY <1>14, <2>1, <2>2
<1>19. CutEnv(a, Len(a) - Len(b), SeenIn(s)[Depth(fr, h)]) = SeenIn(s)[Depth(fr, k)]
  <2> DEFINE e == SeenIn(s)[Depth(fr, h)]
             x == IF OwnsScope(fr[h]) THEN o ELSE e
  <2>1. x = SeenIn(s)[Depth(fr, h - 1)]
    BY <1>7, OuterIs DEF o
  <2> HIDE DEF d
  <2>2. CutEnv(a, Len(t) + d, e) = CutEnv(c, d, x)
    <3> HIDE DEF e
    <3>1. CutEnv(t \o c, Len(t) + d, e) = CutEnv(c, d, IF OwnsScope(fr[h]) THEN o ELSE e)
      BY <1>10, <1>13, <1>17, CutConcat
    <3>2. QED BY <3>1
  <2>3. QED BY <1>14, <1>17, <2>1, <2>2 DEF d
<1>20. ASSUME NEW i \in 1..(Len(a) - Len(b))
       PROVE  /\ a[i].task = "loop" => \E j \in (k + 1)..h : fr[j].node.kind = "While"
              /\ a[i].task = "back" => \E j \in (k + 1)..h : InCall(fr[j])
  <2>1. h \in (k + 1)..h /\ \A j \in (k + 1)..(h - 1) : j \in (k + 1)..h
    BY <1>6, <1>7
  <2>2. CASE i <= Len(t)
    <3>1. i \in 1..Len(t)
      BY <1>16, <1>17, <2>2
    <3>2. a[i] = t[i]
      BY <1>15, <3>1
    <3>3. /\ t[i].task = "loop" => fr[h].node.kind = "While"
          /\ t[i].task = "back" => InCall(fr[h])
      BY <1>10, <3>1 DEF Shows, InCall
    <3>4. QED BY <2>1, <3>2, <3>3
  <2>3. CASE ~(i <= Len(t))
    <3>1. i - Len(t) \in 1..d /\ i - Len(t) \in 1..Len(c) /\ Len(t) + (i - Len(t)) = i
      BY <1>12, <1>16, <1>17, <2>3
    <3>2. a[i] = c[i - Len(t)]
      BY <1>15, <3>1
    <3>3. /\ a[i].task = "loop" => \E j \in (k + 1)..(h - 1) : fr[j].node.kind = "While"
          /\ a[i].task = "back" => \E j \in (k + 1)..(h - 1) : InCall(fr[j])
      BY <1>14, <3>1, <3>2
    <3>4. QED BY <2>1, <3>3
  <2>4. QED BY <2>2, <2>3
<1>21. Spans(a, b, fr, s, k, h)
  BY <1>12, <1>15, <1>17, <1>18, <1>19, <1>20 DEF Spans
<1>22. QED BY <1>6, <1>9, <1>21 DEF b

\* The structured program counts as we do.
LEMMA CardinalityIs ==
  ASSUME NEW S
  PROVE  Abstract!Cardinality(S) = Cardinality(S)
  BY DEF Abstract!Cardinality, Cardinality

LEMMA CountsAre ==
  ASSUME NEW a
  PROVE  /\ Abstract!Scopes(a) = Marks(a, {"leave", "back"})
         /\ Abstract!Depth(a) = 1 + Cardinality(Marks(a, {"leave", "back"}))
         /\ Abstract!Calls(a) = Cardinality(Marks(a, {"back"}))
<1>1. Abstract!Scopes(a) = Marks(a, {"leave", "back"})
  BY DEF Abstract!Scopes, Marks
<1>2. {i \in DOMAIN a : a[i].task = "back"} = Marks(a, {"back"})
  BY DEF Marks
<1>3. Abstract!Depth(a) = 1 + Cardinality(Marks(a, {"leave", "back"}))
  BY <1>1, CardinalityIs DEF Abstract!Depth
<1>4. Abstract!Calls(a) = Cardinality({i \in DOMAIN a : a[i].task = "back"})
  BY CardinalityIs DEF Abstract!Calls
<1>5. Abstract!Calls(a) = Cardinality(Marks(a, {"back"}))
  BY <1>2, <1>4
<1>6. QED BY <1>1, <1>3, <1>5

\* Dropping tasks, in the structured program's words.
LEMMA DropIs ==
  ASSUME NEW i, envBar' = CutEnv(agendaBar, i, envBar),
         storeBar' = Abstract!Live(storeBar, Abstract!Depth(Abstract!After(i))),
         statusBar' = statusBar
  PROVE  Abstract!Drop(i)
<1>1. {j \in Abstract!Scopes(agendaBar) : j <= i} = LeftIn(agendaBar, i)
  BY CountsAre DEF LeftIn
<1> DEFINE L == LeftIn(agendaBar, i)
<1>2. envBar' = IF L = {} THEN envBar
                ELSE agendaBar[CHOOSE j \in L : \A k \in L : k <= j].env
  BY DEF CutEnv, GreatestOf
<1>3. QED BY <1>1, <1>2, Zenon DEF Abstract!Drop

\* A place that has a value.
LEMMA StorePlaces ==
  ASSUME NEW s, NEW d \in Nat
  PROVE  /\ \A l : l \in DOMAIN StoreOf(s, d)
                     <=> l = <<l[1], l[2]>> /\ l[1] \in 1..d /\ l[2] \in DOMAIN s[l[1]].vals
         /\ \A l \in DOMAIN StoreOf(s, d) : StoreOf(s, d)[l] = s[l[1]].vals[l[2]]
         /\ StoreOf(s, d) = [l \in DOMAIN StoreOf(s, d) |-> s[l[1]].vals[l[2]]]
<1> DEFINE P == UNION {{<<e, x>> : x \in DOMAIN s[e].vals} : e \in 1..d}
<1>1. \A l : l \in P <=> l = <<l[1], l[2]>> /\ l[1] \in 1..d /\ l[2] \in DOMAIN s[l[1]].vals
  <2>1. ASSUME NEW l \in P
        PROVE  l = <<l[1], l[2]>> /\ l[1] \in 1..d /\ l[2] \in DOMAIN s[l[1]].vals
    <3>1. PICK e \in 1..d : l \in {<<e, x>> : x \in DOMAIN s[e].vals}
      OBVIOUS
    <3>2. PICK x \in DOMAIN s[e].vals : l = <<e, x>>
      BY <3>1
    <3>3. QED BY <3>2
  <2>2. ASSUME NEW l, l = <<l[1], l[2]>>, l[1] \in 1..d, l[2] \in DOMAIN s[l[1]].vals
        PROVE  l \in P
    <3>1. l \in {<<l[1], x>> : x \in DOMAIN s[l[1]].vals}
      BY <2>2
    <3>2. QED BY <2>2, <3>1
  <2>3. QED BY <2>1, <2>2
<1>2. StoreOf(s, d) = [l \in P |-> s[l[1]].vals[l[2]]]
  BY DEF StoreOf
<1> HIDE DEF P
<1>3. DOMAIN StoreOf(s, d) = P /\ \A l \in P : StoreOf(s, d)[l] = s[l[1]].vals[l[2]]
  BY <1>2
<1>4. QED BY <1>1, <1>2, <1>3

\* Stores with the same values are the same.
LEMMA StoreSame ==
  ASSUME NEW s, NEW u, NEW d \in Nat, NEW e \in Nat,
         \A l : l \in DOMAIN StoreOf(s, d) <=> l \in DOMAIN StoreOf(u, e),
         \A l \in DOMAIN StoreOf(s, d) : s[l[1]].vals[l[2]] = u[l[1]].vals[l[2]]
  PROVE  StoreOf(s, d) = StoreOf(u, e)
<1> DEFINE D == DOMAIN StoreOf(s, d)
           E == DOMAIN StoreOf(u, e)
<1>1. StoreOf(s, d) = [l \in D |-> s[l[1]].vals[l[2]]]
  BY StorePlaces
<1>2. StoreOf(u, e) = [l \in E |-> u[l[1]].vals[l[2]]]
  BY StorePlaces
<1>3. D = E /\ \A l \in D : s[l[1]].vals[l[2]] = u[l[1]].vals[l[2]]
  OBVIOUS
<1> HIDE DEF D, E
<1>4. [l \in D |-> s[l[1]].vals[l[2]]] = [l \in E |-> u[l[1]].vals[l[2]]]
  BY <1>3
<1>5. QED BY <1>1, <1>2, <1>4

\* The variables of the contexts that stay.
LEMMA LiveIs ==
  ASSUME NEW s, NEW d \in Nat, NEW e \in 0..d
  PROVE  Abstract!Live(StoreOf(s, d), e) = StoreOf(s, e)
<1> DEFINE D == DOMAIN StoreOf(s, d)
           E == DOMAIN StoreOf(s, e)
           g == StoreOf(s, d)
<1>1. /\ \A l : l \in D <=> l = <<l[1], l[2]>> /\ l[1] \in 1..d /\ l[2] \in DOMAIN s[l[1]].vals
      /\ \A l \in D : g[l] = s[l[1]].vals[l[2]]
  BY StorePlaces
<1>2. /\ \A l : l \in E <=> l = <<l[1], l[2]>> /\ l[1] \in 1..e /\ l[2] \in DOMAIN s[l[1]].vals
      /\ StoreOf(s, e) = [l \in E |-> s[l[1]].vals[l[2]]]
  <2>1. e \in Nat
    OBVIOUS
  <2>2. QED BY <2>1, StorePlaces
<1>3. Abstract!Live(g, e) = [l \in {m \in D : m[1] <= e} |-> g[l]]
  BY DEF Abstract!Live
<1> HIDE DEF D, E, g
<1>4. {m \in D : m[1] <= e} = E
  <2>1. ASSUME NEW l \in D, l[1] <= e PROVE l \in E
    <3>1. l[1] \in 1..e
      BY <1>1, <2>1
    <3>2. QED BY <1>1, <1>2, <3>1
  <2>2. ASSUME NEW l \in E PROVE l \in D /\ l[1] <= e
    <3>1. l[1] \in 1..e
      BY <1>2
    <3>2. l[1] \in 1..d /\ l[1] <= e
      BY <3>1
    <3>3. QED BY <1>1, <1>2, <3>2
  <2>3. QED BY <2>1, <2>2
<1>5. [l \in {m \in D : m[1] <= e} |-> g[l]] = [l \in E |-> s[l[1]].vals[l[2]]]
  <2>1. \A l \in E : l \in D
    BY <1>4
  <2>2. QED BY <1>1, <1>4, <2>1
<1>6. QED BY <1>2, <1>3, <1>5 DEF g

\* Frames that are the same, around which the same names are seen, have the
\* same left to do.
LEMMA KeptJobs ==
  ASSUME NEW p, NEW fr, NEW s, NEW gr, NEW u, Len(fr) \in Nat, Len(gr) \in Nat,
         NEW k \in Nat, k <= Len(fr), k <= Len(gr), \A i \in 1..k : gr[i] = fr[i],
         \A d \in 0..(Depth(fr, k) - 1) : SeenIn(u)[d] = SeenIn(s)[d]
  PROVE  \A i \in 0..k : Jobs(p, gr, u)[i] = Jobs(p, fr, s)[i]
<1>1. ASSUME NEW i \in 1..k
      PROVE  Todo(p, gr[i], Outer(gr, u, i)) = Todo(p, fr[i], Outer(fr, s, i))
  <2>1. Depth(gr, i) = Depth(fr, i)
    <3>1. i \in Nat /\ \A j \in 1..i : gr[j] = fr[j]
      OBVIOUS
    <3>2. QED BY <3>1, DepthSame
  <2>2. Depth(fr, i) - 1 \in 0..(Depth(fr, k) - 1)
    <3>1. Owned(fr, i) <= Owned(fr, k) /\ Owned(fr, i) \in Nat /\ Owned(fr, k) \in Nat
      <4>1. i \in Nat /\ i <= k
        OBVIOUS
      <4>2. QED BY <4>1, OwnedGrows
    <3> DEFINE x == Owned(fr, i)
               y == Owned(fr, k)
    <3> HIDE DEF x, y
    <3>2. x <= y /\ x \in Nat /\ y \in Nat
      BY <3>1 DEF x, y
    <3> DEFINE c == Depth(fr, i)
               d == Depth(fr, k)
    <3>3. c = 1 + x /\ d = 1 + y
      BY DEF Depth, x, y
    <3> HIDE DEF c, d
    <3>4. c - 1 \in 0..(d - 1)
      BY <3>2, <3>3
    <3>5. QED BY <3>4 DEF c, d
  <2>3. Outer(gr, u, i) = Outer(fr, s, i)
    BY <2>1, <2>2 DEF Outer
  <2>4. QED BY <2>3
<1>2. QED BY <1>1, JobsSame

\* The frames have that shape.
LEMMA StackedShaped ==
  ASSUME NEW p \in Programs, NEW fr, StackOK(fr), NEW a, NEW nm, Stacked(p, fr, a, nm)
  PROVE  Shaped(fr)
<1>1. Len(fr) \in Nat /\ DOMAIN fr = 1..Len(fr)
  BY SeqFacts DEF StackOK
<1>2. ASSUME NEW i \in 1..Len(fr) PROVE FrameOK(fr[i])
  <2>1. fr[i].node.kind \in Kinds
    BY <1>1, FramesTyped
  <2>2. PcOK(fr[i]) /\ fr[i].pc \in Nat
    BY DEF Stacked, StackOK, IsFrame
  <2>3. IsSeq(fr[i].node.kids)
    <3>1. CASE i = 1
      <4>1. fr[i].node = Entry(p)
        BY <3>1 DEF Stacked
      <4>2. IsSeq(Entry(p).kids)
        BY EntryFacts
      <4>3. QED BY <4>1, <4>2
    <3>2. CASE i # 1
      <4>1. i \in 2..Len(fr)
        BY <1>1, <3>2
      <4>2. <<fr[i].node, a[i], nm[i]>> \in Nodes[p]
        BY <4>1 DEF Stacked
      <4>3. QED BY <4>2, NodeFacts
    <3>3. QED BY <3>1, <3>2
  <2>4. QED BY <2>1, <2>2, <2>3, SeqFacts DEF FrameOK
<1>3. QED BY <1>1, <1>2 DEF Shaped, StackOK

---------------------------------------------------------------------------
(* The structured program at a state of the interpreter.                   *)

\* No transfer is under way.
LEMMA QuietIs ==
  ASSUME NEW p, NEW fr, NEW r, NEW s, NEW st, Shaped(fr), ~IsTransfer(r)
  PROVE  LET a == Jobs(p, fr, s)[Len(fr)] IN
         /\ AgendaIn(p, fr, r, s, st) = a /\ AccIn(p, fr, r, s, st) = AccOf(a, r.v)
         /\ EnvIn(fr, r, s, st) = SeenIn(s)[Len(s)] /\ StoreIn(fr, r, s, st) = StoreOf(s, Len(s))
         /\ StatusIn(fr, r, st) = st
<1> DEFINE a == Jobs(p, fr, s)[Len(fr)]
<1>1. IsSeq(a)
  <2>1. Len(fr) \in 0..Len(fr)
    BY DEF Shaped
  <2>2. QED BY <2>1, JobsCounted DEF Counted
<1>2. r.is \in {"none", "value"}
  BY DEF IsTransfer
<1>3. ~ExitingIn(fr, r, st) /\ StayingIn(fr, r, st) = Len(fr)
  BY <1>2 DEF ExitingIn, StayingIn
<1> HIDE DEF a
<1>4. AgendaIn(p, fr, r, s, st) = <<>> \o a
  BY <1>2, <1>3 DEF AgendaIn, a
<1>5. AgendaIn(p, fr, r, s, st) = a
  BY <1>1, <1>4, NoneBefore
<1>6. DepthIn(fr, r, s, st) = Len(s)
  BY DEF DepthIn
<1>7. QED BY <1>3, <1>5, <1>6 DEF AccIn, EnvIn, StoreIn, StatusIn, a

\* A transfer is under way to frame t.
Taking(fr, r, t) == t \in TakersIn(fr, r) /\ \A j \in TakersIn(fr, r) : j <= t

LEMMA TransferIs ==
  ASSUME NEW p, NEW fr, NEW r, NEW s, NEW st, Shaped(fr), IsTransfer(r),
         NEW t \in 1..Len(fr), Taking(fr, r, t)
  PROVE  LET b == Jobs(p, fr, s)[t - 1]
             a == IF r.is = "continue" THEN <<Task("loop", fr[t].node)>> \o b ELSE b
         IN
         /\ AgendaIn(p, fr, r, s, st) = a /\ AccIn(p, fr, r, s, st) = AccOf(a, r.v)
         /\ EnvIn(fr, r, s, st) = SeenIn(s)[Depth(fr, t - 1)]
         /\ StoreIn(fr, r, s, st) = StoreOf(s, Depth(fr, t - 1))
         /\ StatusIn(fr, r, st) = st
<1> DEFINE b == Jobs(p, fr, s)[t - 1]
           a == IF r.is = "continue" THEN <<Task("loop", fr[t].node)>> \o b ELSE b
           S == TakersIn(fr, r)
<1>1. IsSeq(b)
  <2>1. t - 1 \in 0..Len(fr)
    BY DEF Shaped
  <2>2. QED BY <2>1, JobsCounted DEF Counted
<1>2. TakerIn(fr, r) = t
  <2>1. t \in S /\ \A j \in S : j <= t
    BY DEF Taking
  <2>2. S \subseteq DOMAIN fr
    BY DEF TakersIn
  <2>3. TakerIn(fr, r) \in S /\ \A j \in S : j <= TakerIn(fr, r)
    <3> HIDE DEF S
    <3>1. TakerIn(fr, r) = CHOOSE i \in S : \A j \in S : j <= i
      BY DEF TakerIn, S
    <3>2. \E i \in S : \A j \in S : j <= i
      BY <2>1
    <3>3. QED BY <3>1, <3>2
  <2>4. TakerIn(fr, r) <= t /\ t <= TakerIn(fr, r)
    BY <2>1, <2>3
  <2>5. TakerIn(fr, r) \in Int
    <3>1. DOMAIN fr = 1..Len(fr) /\ Len(fr) \in Nat
      BY SeqFacts DEF Shaped
    <3>2. QED BY <2>2, <2>3, <3>1
  <2>6. QED BY <2>4, <2>5
<1>3. ~ExitingIn(fr, r, st)
  BY DEF ExitingIn, Taking
<1>4. StayingIn(fr, r, st) = t - 1
  BY <1>2, <1>3 DEF StayingIn
<1> HIDE DEF b
<1>5. AgendaIn(p, fr, r, s, st) = (IF r.is = "continue" THEN <<Task("loop", fr[t].node)>> ELSE <<>>) \o b
  BY <1>2, <1>4 DEF AgendaIn, b
<1>6. AgendaIn(p, fr, r, s, st) = a
  <2>1. <<>> \o b = b
    BY <1>1, NoneBefore
  <2>2. CASE r.is = "continue"
    BY <1>5, <2>2
  <2>3. CASE r.is # "continue"
    BY <1>5, <2>1, <2>3
  <2>4. QED BY <2>2, <2>3
<1> HIDE DEF a
<1>7. DepthIn(fr, r, s, st) = Depth(fr, t - 1)
  BY <1>4 DEF DepthIn
<1>8. AccIn(p, fr, r, s, st) = AccOf(a, r.v)
  BY <1>3, <1>6 DEF AccIn
<1>9. /\ EnvIn(fr, r, s, st) = SeenIn(s)[Depth(fr, t - 1)]
      /\ StoreIn(fr, r, s, st) = StoreOf(s, Depth(fr, t - 1))
      /\ StatusIn(fr, r, st) = st
  BY <1>3, <1>7 DEF EnvIn, StoreIn, StatusIn
<1>10. QED BY <1>6, <1>8, <1>9 DEF a, b

\* main's return is under way.
LEMMA ExitIs ==
  ASSUME NEW p, NEW fr, NEW r, NEW s, NEW st, Len(fr) \in Nat, r.is = "return",
         TakersIn(fr, r) = {}, st # "aborted"
  PROVE  /\ AgendaIn(p, fr, r, s, st) = <<>> /\ AccIn(p, fr, r, s, st) = r.v
         /\ EnvIn(fr, r, s, st) = <<>> /\ StoreIn(fr, r, s, st) = <<>>
         /\ StatusIn(fr, r, st) = "exited"
<1>1. ExitingIn(fr, r, st) /\ StayingIn(fr, r, st) = 0
  BY DEF ExitingIn, StayingIn
<1> DEFINE e == <<>>
<1>2. Jobs(p, fr, s)[0] = e
  BY JobsDef DEF Rolled
<1>3. AgendaIn(p, fr, r, s, st) = e \o Jobs(p, fr, s)[0]
  BY <1>1 DEF AgendaIn
<1>4. IsSeq(e)
  BY EmptyFacts
<1>5. e \o e = e
  BY <1>4, NoneBefore
<1>6. AgendaIn(p, fr, r, s, st) = e
  BY <1>2, <1>3, <1>5
<1>7. AccIn(p, fr, r, s, st) = r.v
  BY <1>1 DEF AccIn
<1>8. EnvIn(fr, r, s, st) = <<>> /\ StoreIn(fr, r, s, st) = <<>> /\ StatusIn(fr, r, st) = "exited"
  BY <1>1 DEF EnvIn, StoreIn, StatusIn, Nothing
<1>9. QED BY <1>6, <1>7, <1>8

---------------------------------------------------------------------------
(* What a change of the contexts does to names and values.                 *)

\* Contexts that are the same see the same and hold the same.
LEMMA SameContexts ==
  ASSUME NEW s, ScopesOK(s), NEW u, ScopesOK(u), NEW k \in 0..Len(s), k <= Len(u),
         \A d \in 1..k : u[d] = s[d]
  PROVE  \A d \in 0..k : SeenIn(u)[d] = SeenIn(s)[d] /\ StoreOf(u, d) = StoreOf(s, d)
<1>1. Chained(s) /\ Chained(u) /\ Len(s) \in Nat /\ Len(u) \in Nat
  BY ChainedFacts
<1>2. \A d \in 0..k : SeenIn(s)[d] = SeenIn(u)[d]
  <2>1. \A d \in 1..k : s[d].refs = u[d].refs /\ s[d].parent = u[d].parent
    OBVIOUS
  <2>2. QED BY <1>1, <2>1, SeenSame
<1>3. ASSUME NEW d \in 0..k PROVE StoreOf(u, d) = StoreOf(s, d)
  <2>1. d \in Nat
    BY <1>1
  <2>2. \A e \in 1..d : u[e] = s[e]
    BY <1>1
  <2>3. \A l : l \in DOMAIN StoreOf(u, d) <=> l \in DOMAIN StoreOf(s, d)
    <3>1. \A l : l \in DOMAIN StoreOf(u, d)
                 <=> l = <<l[1], l[2]>> /\ l[1] \in 1..d /\ l[2] \in DOMAIN u[l[1]].vals
      BY <2>1, StorePlaces
    <3>2. \A l : l \in DOMAIN StoreOf(s, d)
                 <=> l = <<l[1], l[2]>> /\ l[1] \in 1..d /\ l[2] \in DOMAIN s[l[1]].vals
      BY <2>1, StorePlaces
    <3>3. QED BY <2>2, <3>1, <3>2
  <2>4. \A l \in DOMAIN StoreOf(u, d) : u[l[1]].vals[l[2]] = s[l[1]].vals[l[2]]
    <3>1. \A l \in DOMAIN StoreOf(u, d) : l[1] \in 1..d
      BY <2>1, StorePlaces
    <3>2. QED BY <2>2, <3>1
  <2>5. QED BY <2>1, <2>3, <2>4, StoreSame
<1>4. QED BY <1>2, <1>3

\* Every place is that of a name in a context, at most as deep as it is seen.
Homes(s) ==
  /\ \A d \in 1..Len(s) : \A x \in DOMAIN s[d].refs : s[d].refs[x] \in {<<1, x>>, <<d, x>>}
  /\ DOMAIN s[1].refs \subseteq DOMAIN s[1].vals

\* What is seen is a map.
LEMMA SeenMaps ==
  ASSUME NEW s, Chained(s), NEW d \in 0..Len(s)
  PROVE  SeenIn(s)[d] = [x \in DOMAIN SeenIn(s)[d] |-> SeenIn(s)[d][x]]
<1>1. CASE d = 0
  <2> DEFINE e == <<>>
  <2>1. SeenIn(s)[0] = e
    BY SeenFacts DEF Nothing
  <2>2. IsSeq(e)
    BY EmptyFacts
  <2>3. e = [x \in DOMAIN e |-> e[x]]
    <3> HIDE DEF e
    <3>1. QED BY <2>2 DEF IsSeq
  <2>4. QED BY <1>1, <2>1, <2>3
<1>2. CASE d # 0
  <2>1. Len(s) \in Nat
    BY SeqFacts DEF Chained
  <2>2. d \in 1..Len(s)
    BY <1>2, <2>1
  <2>3. SeenIn(s)[d] = Over(s[d].refs, SeenIn(s)[s[d].parent])
    BY <2>2, SeenFacts
  <2>4. \A f, g : Over(f, g) = [x \in DOMAIN Over(f, g) |-> Over(f, g)[x]]
    BY DEF Over
  <2>5. QED BY <2>3, <2>4
<1>3. QED BY <1>1, <1>2

\* A name is stored under itself.
LEMMA SeenHomes ==
  ASSUME NEW s, ScopesOK(s), Homes(s), NEW d \in 1..Len(s), NEW x \in DOMAIN SeenIn(s)[d]
  PROVE  \E e \in 1..d : SeenIn(s)[d][x] = <<e, x>> /\ x \in DOMAIN s[e].vals
<1>1. Chained(s) /\ Len(s) \in Nat
  BY ChainedFacts
<1> DEFINE Bad(k) == \E y \in DOMAIN SeenIn(s)[k] : ~ \E e \in 1..k : SeenIn(s)[k][y] = <<e, y>>
           T == {k \in 1..Len(s) : Bad(k)}
<1>2. T = {}
  <2>1. SUFFICES ASSUME T # {} PROVE FALSE
    OBVIOUS
  <2>2. PICK m \in T : \A k \in T : m <= k
    <3>1. T \subseteq Nat
      BY <1>1
    <3> HIDE DEF T
    <3>2. QED BY <2>1, <3>1, Least
  <2>3. PICK y \in DOMAIN SeenIn(s)[m] : ~ \E e \in 1..m : SeenIn(s)[m][y] = <<e, y>>
    BY <2>2
  <2> DEFINE q == s[m].parent
  <2>4. /\ SeenIn(s)[m] = Over(s[m].refs, SeenIn(s)[q])
        /\ DOMAIN SeenIn(s)[m] = DOMAIN s[m].refs \cup DOMAIN SeenIn(s)[q]
        /\ SeenIn(s)[0] = Nothing
    BY <1>1, <2>2, SeenFacts
  <2>5. m \in 1..Len(s) /\ m \in 1..m /\ 1 \in 1..m
    BY <1>1, <2>2
  <2>6. y \notin DOMAIN s[m].refs
    <3>1. y \in DOMAIN s[m].refs => SeenIn(s)[m][y] = s[m].refs[y]
      BY <2>4 DEF Over
    <3>2. y \in DOMAIN s[m].refs => s[m].refs[y] \in {<<1, y>>, <<m, y>>}
      BY <2>5 DEF Homes
    <3>3. QED BY <2>3, <2>5, <3>1, <3>2
  <2>7. y \in DOMAIN SeenIn(s)[q] /\ SeenIn(s)[m][y] = SeenIn(s)[q][y]
    BY <2>3, <2>4, <2>6 DEF Over
  <2>8. q # 0
    BY <2>4, <2>7, EmptyFacts, SeqFacts DEF Nothing
  <2>9. q \in 0..(m - 1)
    BY <2>5 DEF ScopesOK
  <2>10. q \in 1..Len(s) /\ ~(m <= q) /\ \A e \in 1..q : e \in 1..m
    BY <1>1, <2>5, <2>8, <2>9
  <2>11. \E e \in 1..q : SeenIn(s)[q][y] = <<e, y>>
    BY <2>2, <2>7, <2>10
  <2>12. QED BY <2>3, <2>7, <2>10, <2>11
<1>3. PICK e \in 1..d : SeenIn(s)[d][x] = <<e, x>>
  BY <1>2
<1>4. PlaceOK(SeenIn(s)[d][x], d, s)
  BY SeenPlaces
<1>5. x \in DOMAIN s[e].vals
  <2> DEFINE l == <<e, x>>
  <2>1. l[1] = e /\ l[2] = x
    OBVIOUS
  <2>2. l[2] \in DOMAIN s[l[1]].vals
    BY <1>3, <1>4 DEF PlaceOK
  <2>3. QED BY <2>1, <2>2
<1>6. QED BY <1>3, <1>5

\* A context without variables.
LEMMA StoreEmpty ==
  ASSUME NEW u, NEW n \in Nat, DOMAIN u[n + 1].vals = {}
  PROVE  StoreOf(u, n + 1) = StoreOf(u, n)
<1> DEFINE m == n + 1
<1>1. m \in Nat /\ \A e : e \in 1..n <=> e \in 1..m /\ e # m
  OBVIOUS
<1>2. DOMAIN u[m].vals = {}
  OBVIOUS
<1> HIDE DEF m
<1>3. \A l : l \in DOMAIN StoreOf(u, m)
             <=> l = <<l[1], l[2]>> /\ l[1] \in 1..m /\ l[2] \in DOMAIN u[l[1]].vals
  BY <1>1, StorePlaces
<1>4. \A l : l \in DOMAIN StoreOf(u, n)
             <=> l = <<l[1], l[2]>> /\ l[1] \in 1..n /\ l[2] \in DOMAIN u[l[1]].vals
  BY StorePlaces
<1>5. \A l : l \in DOMAIN StoreOf(u, m) <=> l \in DOMAIN StoreOf(u, n)
  BY <1>1, <1>2, <1>3, <1>4
<1>6. StoreOf(u, m) = StoreOf(u, n)
  BY <1>1, <1>5, StoreSame
<1>7. QED BY <1>6 DEF m

\* A context is opened.
Opened(s, q, refs, u) == u = Append(s, Scope(q, refs))

LEMMA OpenedSees ==
  ASSUME NEW s, ScopesOK(s), NEW q \in 0..Len(s), NEW refs, NEW u, ScopesOK(u),
         Opened(s, q, refs, u)
  PROVE  /\ Len(u) = Len(s) + 1 /\ \A d \in 1..Len(s) : u[d] = s[d]
         /\ \A d \in 0..Len(s) : SeenIn(u)[d] = SeenIn(s)[d]
         /\ u[Len(s) + 1].refs = refs /\ DOMAIN u[Len(s) + 1].vals = {}
         /\ SeenIn(u)[Len(u)] = Over(refs, SeenIn(s)[q])
         /\ StoreOf(u, Len(u)) = StoreOf(s, Len(s))
<1> DEFINE n == Len(s)
<1>1. Chained(s) /\ IsSeq(s) /\ n \in Nat /\ Chained(u)
  BY ChainedFacts
<1>2. Len(u) = n + 1 /\ u[n + 1] = Scope(q, refs) /\ \A d \in 1..n : u[d] = s[d]
  BY <1>1, AppendFacts DEF Opened
<1>3. \A d \in 0..n : SeenIn(u)[d] = SeenIn(s)[d] /\ StoreOf(u, d) = StoreOf(s, d)
  <2>1. n \in 0..Len(s) /\ n <= Len(u)
    BY <1>1, <1>2
  <2>2. QED BY <1>2, <2>1, SameContexts
<1>4. Scope(q, refs).parent = q /\ Scope(q, refs).refs = refs /\ DOMAIN Scope(q, refs).vals = {}
  BY EmptyFacts, SeqFacts DEF Scope, Nothing
<1>5. SeenIn(u)[n + 1] = Over(refs, SeenIn(s)[q])
  <2>1. n + 1 \in 1..Len(u)
    BY <1>1, <1>2
  <2>2. SeenIn(u)[n + 1] = Over(u[n + 1].refs, SeenIn(u)[u[n + 1].parent])
    BY <1>1, <2>1, SeenFacts
  <2>3. QED BY <1>2, <1>3, <1>4, <2>2
<1>6. StoreOf(u, n + 1) = StoreOf(u, n)
  <2>1. DOMAIN u[n + 1].vals = {}
    BY <1>2, <1>4
  <2>2. QED BY <1>1, <2>1, StoreEmpty
<1>7. n \in 0..n
  BY <1>1
<1>8. QED BY <1>2, <1>3, <1>4, <1>5, <1>6, <1>7

Updated(f, x, v) == [f EXCEPT ![x] = v]
PlaceOf(e, y) == <<e, y>>

\* An entry is put into the context on top.
LEMMA SetSees ==
  ASSUME NEW s, ScopesOK(s), Len(s) # 0, NEW x, NEW v, NEW u, ScopesOK(u), u = setInfo(s, x, v)
  PROVE  /\ Len(u) = Len(s) /\ \A d \in 1..(Len(s) - 1) : u[d] = s[d]
         /\ \A d \in 0..(Len(s) - 1) : SeenIn(u)[d] = SeenIn(s)[d]
         /\ u[Len(s)].refs = Put(s[Len(s)].refs, x, PlaceOf(Len(s), x))
         /\ u[Len(s)].vals = Put(s[Len(s)].vals, x, v)
         /\ SeenIn(u)[Len(s)] = Put(SeenIn(s)[Len(s)], x, PlaceOf(Len(s), x))
         /\ StoreOf(u, Len(s)) = Put(StoreOf(s, Len(s)), PlaceOf(Len(s), x), v)
<1> DEFINE n == Len(s)
<1>1. Chained(s) /\ IsSeq(s) /\ n \in Nat /\ n # 0 /\ Chained(u) /\ DOMAIN s = 1..n
      /\ n \in 1..n /\ n - 1 \in 0..n
  BY ChainedFacts
<1>2. IsSeq(u) /\ Len(u) = n
  BY <1>1, SetInfoFacts
<1>3. IsScope(s[n])
  BY <1>1 DEF ScopesOK
<1> DEFINE sc == [parent |-> s[n].parent, refs |-> Put(s[n].refs, x, <<n, x>>),
                  vals |-> Put(s[n].vals, x, v)]
<1>4. u[n] = sc /\ \A d \in 1..(n - 1) : u[d] = s[d]
  <2>1. \A d \in 1..(n - 1) : d \in 1..n /\ d # n
    <3> HIDE DEF n
    <3>1. QED BY <1>1
  <2>2. u = [s EXCEPT ![n] = sc]
    BY DEF setInfo
  <2> HIDE DEF sc
  <2>3. QED BY <1>1, <2>1, <2>2
<1>5. sc.parent = s[n].parent /\ sc.refs = Put(s[n].refs, x, <<n, x>>) /\ sc.vals = Put(s[n].vals, x, v)
  OBVIOUS
<1> HIDE DEF sc
<1>6. \A d \in 0..(n - 1) : SeenIn(u)[d] = SeenIn(s)[d] /\ StoreOf(u, d) = StoreOf(s, d)
  <2>1. n - 1 \in 0..Len(s) /\ n - 1 <= Len(u)
    BY <1>1, <1>2
  <2>2. QED BY <1>4, <2>1, SameContexts
<1>7. SeenIn(u)[n] = Put(SeenIn(s)[n], x, <<n, x>>)
  <2> DEFINE P == SeenIn(s)[s[n].parent]
             R == s[n].refs
             l == <<n, x>>
  <2>1. s[n].parent \in 0..(n - 1)
    BY <1>1 DEF Chained
  <2>2. SeenIn(s)[n] = Over(R, P)
    BY <1>1, SeenFacts
  <2>3. SeenIn(u)[n] = Over(u[n].refs, SeenIn(u)[u[n].parent])
    <3>1. n \in 1..Len(u)
      BY <1>1, <1>2
    <3>2. QED BY <1>1, <3>1, SeenFacts
  <2>4. SeenIn(u)[n] = Over(Put(R, x, l), P)
    BY <1>4, <1>5, <1>6, <2>1, <2>3
  <2> HIDE DEF P, R, l
  <2>5. Over(Put(R, x, l), P) = Put(Over(R, P), x, l)
    <3> DEFINE f == Over(Put(R, x, l), P)
               g == Put(Over(R, P), x, l)
               D == {x} \cup DOMAIN R \cup DOMAIN P
    <3>1. DOMAIN Put(R, x, l) = {x} \cup DOMAIN R
          /\ \A y \in {x} \cup DOMAIN R : Put(R, x, l)[y] = IF y = x THEN l ELSE R[y]
      BY DEF Put
    <3>2. f = [y \in D |-> IF y = x THEN l ELSE IF y \in DOMAIN R THEN R[y] ELSE P[y]]
      BY <3>1 DEF Over
    <3>3. DOMAIN Over(R, P) = DOMAIN R \cup DOMAIN P
          /\ \A y \in DOMAIN R \cup DOMAIN P : Over(R, P)[y] = IF y \in DOMAIN R THEN R[y] ELSE P[y]
      BY DEF Over
    <3>4. g = [y \in D |-> IF y = x THEN l ELSE IF y \in DOMAIN R THEN R[y] ELSE P[y]]
      BY <3>3 DEF Put
    <3>5. QED BY <3>2, <3>4
  <2>6. QED BY <2>2, <2>4, <2>5 DEF l
<1>8. StoreOf(u, n) = Put(StoreOf(s, n), <<n, x>>, v)
  <2> DEFINE k == <<n, x>>
             E == DOMAIN StoreOf(u, n)
             D == DOMAIN StoreOf(s, n)
             S == StoreOf(s, n)
  <2>1. /\ \A l : l \in E <=> l = <<l[1], l[2]>> /\ l[1] \in 1..n /\ l[2] \in DOMAIN u[l[1]].vals
        /\ StoreOf(u, n) = [l \in E |-> u[l[1]].vals[l[2]]]
    BY <1>1, StorePlaces
  <2>2. /\ \A l : l \in D <=> l = <<l[1], l[2]>> /\ l[1] \in 1..n /\ l[2] \in DOMAIN s[l[1]].vals
        /\ \A l \in D : S[l] = s[l[1]].vals[l[2]]
    BY <1>1, StorePlaces
  <2>3. k = <<k[1], k[2]>> /\ k[1] = n /\ k[2] = x
    OBVIOUS
  <2>4. \A l : l = <<l[1], l[2]>> /\ l[1] = n /\ l[2] = x => l = k
    OBVIOUS
  <2> HIDE DEF k, E, D, S
  <2>5. DOMAIN u[n].vals = {x} \cup DOMAIN s[n].vals
        /\ \A y \in DOMAIN u[n].vals : u[n].vals[y] = IF y = x THEN v ELSE s[n].vals[y]
    BY <1>4, <1>5 DEF Put
  <2>6. E = {k} \cup D
    <3>1. ASSUME NEW l \in E PROVE l \in {k} \cup D
      <4>1. l = <<l[1], l[2]>> /\ l[1] \in 1..n /\ l[2] \in DOMAIN u[l[1]].vals
        BY <2>1
      <4>2. CASE l[1] = n
        <5>1. l[2] = x \/ l[2] \in DOMAIN s[n].vals
          BY <2>5, <4>1, <4>2
        <5>2. QED BY <2>2, <2>4, <4>1, <4>2, <5>1
      <4>3. CASE l[1] # n
        <5>1. l[1] \in 1..(n - 1)
          BY <1>1, <4>1, <4>3
        <5>2. QED BY <1>4, <2>2, <4>1, <5>1
      <4>4. QED BY <4>2, <4>3
    <3>2. k \in E
      BY <1>1, <2>1, <2>3, <2>5
    <3>3. ASSUME NEW l \in D PROVE l \in E
      <4>1. l = <<l[1], l[2]>> /\ l[1] \in 1..n /\ l[2] \in DOMAIN s[l[1]].vals
        BY <2>2
      <4>2. l[2] \in DOMAIN u[l[1]].vals
        <5>1. CASE l[1] = n
          BY <2>5, <4>1, <5>1
        <5>2. CASE l[1] # n
          <6>1. l[1] \in 1..(n - 1)
            BY <1>1, <4>1, <5>2
          <6>2. QED BY <1>4, <4>1, <6>1
        <5>3. QED BY <5>1, <5>2
      <4>3. QED BY <2>1, <4>1, <4>2
    <3>4. QED BY <3>1, <3>2, <3>3
  <2>7. ASSUME NEW l \in E PROVE u[l[1]].vals[l[2]] = IF l = k THEN v ELSE S[l]
    <3>1. l = <<l[1], l[2]>> /\ l[1] \in 1..n /\ l[2] \in DOMAIN u[l[1]].vals
      BY <2>1
    <3>2. CASE l = k
      BY <2>3, <2>5, <3>1, <3>2
    <3>3. CASE l # k
      <4>1. l \in D
        BY <2>6, <3>3
      <4>2. S[l] = s[l[1]].vals[l[2]]
        BY <2>2, <4>1
      <4>3. CASE l[1] = n
        <5>1. l[2] # x
          BY <2>4, <3>1, <3>3, <4>3
        <5>2. QED BY <2>5, <3>1, <3>3, <4>2, <4>3, <5>1
      <4>4. CASE l[1] # n
        <5>1. l[1] \in 1..(n - 1)
          BY <1>1, <3>1, <4>4
        <5>2. QED BY <1>4, <3>3, <4>2, <5>1
      <4>5. QED BY <4>3, <4>4
    <3>4. QED BY <3>2, <3>3
  <2>8. Put(S, k, v) = [l \in {k} \cup D |-> IF l = k THEN v ELSE S[l]]
    BY DEF Put, S, D
  <2>9. StoreOf(u, n) = Put(S, k, v)
    BY <2>1, <2>6, <2>7, <2>8
  <2>10. QED BY <2>9 DEF S, k
<1>9. PlaceOf(n, x) = <<n, x>>
  BY DEF PlaceOf
<1>10. QED BY <1>2, <1>4, <1>5, <1>6, <1>7, <1>8, <1>9

\* A variable is assigned.
LEMMA StoredSees ==
  ASSUME NEW s, ScopesOK(s), NEW e \in 1..Len(s), NEW y \in DOMAIN s[e].vals, NEW v \in BOOLEAN,
         NEW u, u = Stored(s, e, y, v)
  PROVE  /\ Len(u) = Len(s)
         /\ \A d \in 1..Len(s) : /\ u[d].refs = s[d].refs
                                 /\ DOMAIN u[d].vals = DOMAIN s[d].vals
         /\ \A d \in 0..Len(s) : SeenIn(u)[d] = SeenIn(s)[d]
         /\ StoreOf(u, Len(s)) = Updated(StoreOf(s, Len(s)), PlaceOf(e, y), v)
<1> DEFINE n == Len(s)
<1>1. Chained(s) /\ IsSeq(s) /\ n \in Nat /\ DOMAIN s = 1..n /\ n # 0
  BY ChainedFacts
<1>2. ScopesOK(u) /\ Len(u) = n
  BY <1>1, StoredFacts
<1>3. ASSUME NEW d \in 1..n
      PROVE  /\ u[d].parent = s[d].parent /\ u[d].refs = s[d].refs
             /\ u[d].vals = IF d = e THEN [s[d].vals EXCEPT ![y] = v] ELSE s[d].vals
  <2>1. IsScope(s[d])
    BY DEF ScopesOK
  <2>2. u[d] = IF d = e THEN [s[d] EXCEPT !.vals = [@ EXCEPT ![y] = v]] ELSE s[d]
    BY <1>1 DEF Stored
  <2>3. CASE d = e
    <3> DEFINE w == [s[d].vals EXCEPT ![y] = v]
    <3>1. u[d] = [s[d] EXCEPT !.vals = w]
      BY <2>2, <2>3
    <3> HIDE DEF w
    <3>2. PICK sc : sc = s[d] /\ sc = [parent |-> sc.parent, refs |-> sc.refs, vals |-> sc.vals]
      BY <2>1 DEF IsScope
    <3>3. u[d] = [parent |-> sc.parent, refs |-> sc.refs, vals |-> w]
      BY <3>1, <3>2
    <3>4. u[d].parent = sc.parent /\ u[d].refs = sc.refs /\ u[d].vals = w
      BY <3>3
    <3>5. QED BY <2>3, <3>2, <3>4 DEF w
  <2>4. CASE d # e
    BY <2>2, <2>4
  <2>5. QED BY <2>3, <2>4
<1>4. \A d \in 0..n : SeenIn(u)[d] = SeenIn(s)[d]
  <2>1. \A d \in 1..n : s[d].refs = u[d].refs /\ s[d].parent = u[d].parent
    BY <1>3
  <2>2. Chained(u) /\ n \in 0..Len(s) /\ n <= Len(u)
    BY <1>1, <1>2, ChainedFacts
  <2>3. \A d \in 0..n : SeenIn(s)[d] = SeenIn(u)[d]
    BY <1>1, <2>1, <2>2, SeenSame
  <2>4. QED BY <2>3
<1>5. \A d \in 1..n : DOMAIN u[d].vals = DOMAIN s[d].vals
  BY <1>3
<1>6. StoreOf(u, n) = Updated(StoreOf(s, n), PlaceOf(e, y), v)
  <2> DEFINE k == <<e, y>>
             E == DOMAIN StoreOf(u, n)
             D == DOMAIN StoreOf(s, n)
             S == StoreOf(s, n)
  <2>1. /\ \A l : l \in E <=> l = <<l[1], l[2]>> /\ l[1] \in 1..n /\ l[2] \in DOMAIN u[l[1]].vals
        /\ StoreOf(u, n) = [l \in E |-> u[l[1]].vals[l[2]]]
    BY <1>1, StorePlaces
  <2>2. /\ \A l : l \in D <=> l = <<l[1], l[2]>> /\ l[1] \in 1..n /\ l[2] \in DOMAIN s[l[1]].vals
        /\ \A l \in D : S[l] = s[l[1]].vals[l[2]]
    BY <1>1, StorePlaces
  <2>3. k[1] = e /\ k[2] = y
    OBVIOUS
  <2>4. \A l : l = <<l[1], l[2]>> /\ l[1] = e /\ l[2] = y => l = k
    OBVIOUS
  <2> HIDE DEF k, E
  <2>5. E = D
    BY <1>5, <2>1, <2>2
  <2>6. ASSUME NEW l \in E PROVE u[l[1]].vals[l[2]] = IF l = k THEN v ELSE S[l]
    <3>1. l = <<l[1], l[2]>> /\ l[1] \in 1..n /\ l[2] \in DOMAIN s[l[1]].vals /\ S[l] = s[l[1]].vals[l[2]]
      BY <2>2, <2>5
    <3> HIDE DEF D, S
    <3>2. u[l[1]].vals = IF l[1] = e THEN [s[l[1]].vals EXCEPT ![y] = v] ELSE s[l[1]].vals
      BY <1>3, <3>1
    <3>3. CASE l = k
      BY <2>3, <3>1, <3>2, <3>3
    <3>4. CASE l # k
      BY <2>4, <3>1, <3>2, <3>4
    <3>5. QED BY <3>3, <3>4
  <2>7. [S EXCEPT ![k] = v] = [l \in D |-> IF l = k THEN v ELSE S[l]]
    OBVIOUS
  <2>8. StoreOf(u, n) = [S EXCEPT ![k] = v]
    BY <2>1, <2>5, <2>6, <2>7
  <2>9. QED BY <2>8 DEF k, S, Updated, PlaceOf
<1>7. QED BY <1>2, <1>3, <1>4, <1>5, <1>6

\* The context on top goes.
LEMMA PoppedSees ==
  ASSUME NEW s, ScopesOK(s), Len(s) # 0, NEW u, u = SubSeq(s, 1, Len(s) - 1)
  PROVE  /\ Len(u) = Len(s) - 1 /\ \A d \in 1..(Len(s) - 1) : u[d] = s[d]
         /\ \A d \in 0..(Len(s) - 1) : SeenIn(u)[d] = SeenIn(s)[d] /\ StoreOf(u, d) = StoreOf(s, d)
<1> DEFINE n == Len(s)
<1>1. IsSeq(s) /\ n \in Nat /\ n # 0
  BY ChainedFacts
<1>2. ScopesOK(u) /\ Len(u) = n - 1
  BY <1>1, PoppedFacts
<1>3. \A d \in 1..(n - 1) : u[d] = s[d]
  BY <1>1, FrontFacts
<1>4. n - 1 \in 0..Len(s) /\ n - 1 <= Len(u)
  BY <1>1, <1>2
<1>5. QED BY <1>2, <1>3, <1>4, SameContexts

---------------------------------------------------------------------------
(* Names are stored under themselves, and places stay where they are.      *)

LEMMA HomesOpened ==
  ASSUME NEW s, ScopesOK(s), Homes(s), Len(s) # 0, NEW q \in 0..Len(s), NEW refs,
         \A x \in DOMAIN refs : refs[x] = <<1, x>>,
         NEW u, ScopesOK(u), Opened(s, q, refs, u)
  PROVE  Homes(u)
<1> DEFINE n == Len(s)
<1>1. n \in Nat /\ n # 0
  BY ChainedFacts
<1>2. Len(u) = n + 1 /\ u[n + 1].refs = refs /\ \A d \in 1..n : u[d] = s[d]
  <2>1. Len(u) = Len(s) + 1 /\ u[Len(s) + 1].refs = refs /\ \A d \in 1..Len(s) : u[d] = s[d]
    BY OpenedSees
  <2>2. QED BY <2>1
<1>3. 1 \in 1..n /\ \A d \in 1..Len(u) : d \in 1..n \/ d = n + 1
  BY <1>1, <1>2
<1>4. \A d \in 1..n : \A x \in DOMAIN s[d].refs : s[d].refs[x] \in {<<1, x>>, <<d, x>>}
  BY DEF Homes
<1>5. DOMAIN s[1].refs \subseteq DOMAIN s[1].vals
  BY DEF Homes
<1> HIDE DEF n
<1>6. QED BY <1>2, <1>3, <1>4, <1>5 DEF Homes

LEMMA HomesSet ==
  ASSUME NEW s, ScopesOK(s), Homes(s), Len(s) # 0, NEW x, NEW v, NEW u, ScopesOK(u),
         u = setInfo(s, x, v)
  PROVE  Homes(u)
<1> DEFINE n == Len(s)
<1>1. n \in Nat /\ n # 0
  BY ChainedFacts
<1>2. /\ Len(u) = n /\ \A d \in 1..(n - 1) : u[d] = s[d]
      /\ u[n].refs = Put(s[n].refs, x, PlaceOf(n, x)) /\ u[n].vals = Put(s[n].vals, x, v)
  BY SetSees
<1>3. 1 \in 1..n /\ n \in 1..n /\ \A d \in 1..n : d = n \/ d \in 1..(n - 1)
  BY <1>1
<1>4. \A d \in 1..n : \A y \in DOMAIN s[d].refs : s[d].refs[y] \in {<<1, y>>, <<d, y>>}
  BY DEF Homes
<1>5. DOMAIN s[1].refs \subseteq DOMAIN s[1].vals
  BY DEF Homes
<1> HIDE DEF n
<1>6. \A y \in DOMAIN u[n].refs : u[n].refs[y] \in {<<1, y>>, <<n, y>>}
  BY <1>2, <1>3, <1>4 DEF Put, PlaceOf
<1>7. DOMAIN u[1].refs \subseteq DOMAIN u[1].vals
  BY <1>2, <1>3, <1>5 DEF Put
<1>8. QED BY <1>2, <1>3, <1>4, <1>6, <1>7 DEF Homes

LEMMA HomesStored ==
  ASSUME NEW s, ScopesOK(s), Homes(s), Len(s) # 0, NEW e \in 1..Len(s), NEW y \in DOMAIN s[e].vals,
         NEW v \in BOOLEAN, NEW u, u = Stored(s, e, y, v)
  PROVE  Homes(u)
<1> DEFINE n == Len(s)
<1>1. n \in Nat /\ n # 0
  BY ChainedFacts
<1>2. Len(u) = n /\ \A d \in 1..n : u[d].refs = s[d].refs /\ DOMAIN u[d].vals = DOMAIN s[d].vals
  <2>1. /\ Len(u) = Len(s)
        /\ \A d \in 1..Len(s) : /\ u[d].refs = s[d].refs
                                /\ DOMAIN u[d].vals = DOMAIN s[d].vals
    BY StoredSees
  <2>2. QED BY <2>1
<1>3. 1 \in 1..n
  BY <1>1
<1>4. QED BY <1>2, <1>3 DEF Homes

LEMMA HomesPopped ==
  ASSUME NEW s, ScopesOK(s), Homes(s), Len(s) # 0, Len(s) # 1, NEW u, u = SubSeq(s, 1, Len(s) - 1)
  PROVE  Homes(u)
<1> DEFINE n == Len(s)
<1>1. n \in Nat /\ n # 0 /\ n # 1
  BY ChainedFacts
<1>2. Len(u) = n - 1 /\ \A d \in 1..(n - 1) : u[d] = s[d]
  BY PoppedSees
<1>3. 1 \in 1..(n - 1) /\ \A d \in 1..(n - 1) : d \in 1..n
  <2> HIDE DEF n
  <2>1. QED BY <1>1
<1>4. QED BY <1>2, <1>3 DEF Homes

\* An assignment that has taken its place: its name is still stored there.
Assigning(f) == f.node.kind = "Assign" /\ f.pc = 1
Placed(fr, s) ==
  \A i \in 1..Len(fr) :
    Assigning(fr[i]) => fr[i].place = SeenIn(s)[Depth(fr, i)][fr[i].node.name]

\* What is evaluated is evaluated in the same context, or in a call's.
LEMMA ValueChain ==
  ASSUME NEW p \in Programs, NEW fr, Len(fr) \in Nat, NEW a, NEW nm, Stacked(p, fr, a, nm),
         NEW i \in 1..Len(fr), Assigning(fr[i]), NEW n \in (i + 1)..Len(fr)
  PROVE  "value" \in a[n] \/ Depth(fr, i) \in 1..(Depth(fr, n) - 1)
<1> DEFINE Deeper(m) == Depth(fr, i) \in 1..(Depth(fr, m) - 1)
           T == {m \in (i + 1)..Len(fr) : ~("value" \in a[m] \/ Deeper(m))}
<1>1. SUFFICES ASSUME T # {} PROVE FALSE
  OBVIOUS
<1>2. PICK m \in T : \A k \in T : m <= k
  <2>1. T \subseteq Nat
    OBVIOUS
  <2> HIDE DEF T
  <2>2. QED BY <1>1, <2>1, Least
<1>3. m \in (i + 1)..Len(fr) /\ "value" \notin a[m] /\ ~Deeper(m)
  BY <1>2
<1>4. PICK g : g = fr[m - 1]
  OBVIOUS
<1>5. m - 1 \in 1..(Len(fr) - 1) /\ m - 1 \in 1..Len(fr) /\ m - 1 + 1 = m /\ m - 1 \in Nat /\ m \in Nat
  BY <1>3
<1>6. g.pc > 0 /\ PcOK(g) /\ a[m] = Asked(p, g, a[m - 1])
  BY <1>4, <1>5 DEF Stacked
<1>7. m # i + 1
  <2>1. m = i + 1 => m - 1 = i
    OBVIOUS
  <2>2. m = i + 1 => g.node.kind = "Assign" /\ g.pc = 1
    BY <1>4, <2>1 DEF Assigning
  <2>3. m = i + 1 => "value" \in a[m]
    BY <1>6, <2>2 DEF Asked, AskedOf, IsEvaluated
  <2>4. QED BY <1>3, <2>3
<1>8. m - 1 \in (i + 1)..Len(fr) /\ ~(m <= m - 1) /\ m - 1 \in 2..Len(fr)
      /\ m - 2 \in Nat /\ i <= m - 2 /\ m - 2 + 1 = m - 1
  BY <1>3, <1>7
<1>9. "value" \in a[m - 1] \/ Deeper(m - 1)
  BY <1>2, <1>8
<1>10. Depth(fr, m - 1) \in 1..Depth(fr, m) /\ Depth(fr, i) \in 1..Depth(fr, m - 2)
  <2>1. m - 1 <= m
    BY <1>5
  <2>2. QED BY <1>5, <1>8, <2>1, DepthGrows
<1>11. Depth(fr, m) \in Nat
  <2>1. Owned(fr, m) \in Nat
    <3>1. m <= m
      BY <1>5
    <3>2. QED BY <1>5, <3>1, OwnedGrows
  <2>2. QED BY <2>1 DEF Depth
<1>12. ~Deeper(m - 1)
  BY <1>3, <1>10, <1>11
<1>13. <<g.node, a[m - 1], nm[m - 1]>> \in Nodes[p]
  BY <1>4, <1>8 DEF Stacked
<1>14. g.node.kind \in Expressions
  BY <1>9, <1>12, <1>13, NodeFacts DEF Fits
<1>15. g.node.kind \in {"And", "Or", "Call"}
  BY <1>6, <1>14 DEF Expressions, PcOK
<1>16. g.node.kind = "Call" /\ g.pc = 2
  BY <1>3, <1>6, <1>15 DEF Asked, AskedOf, IsEvaluated
<1>17. Depth(fr, m - 1) = Depth(fr, m - 2) + 1 /\ Depth(fr, m - 2) \in Nat
  <2>1. One(g) = 1
    BY <1>16 DEF One, OwnsScope
  <2>2. Owned(fr, m - 2) \in Nat /\ Owned(fr, m - 2 + 1) = Owned(fr, m - 2) + One(fr[m - 2 + 1])
    BY <1>8, OwnedNext
  <2>3. QED BY <1>4, <1>8, <2>1, <2>2 DEF Depth
<1> DEFINE c == Depth(fr, i)
           d == Depth(fr, m - 2)
           e == Depth(fr, m - 1)
<1>18. c \in 1..d /\ e = d + 1 /\ d \in Nat /\ ~(c \in 1..(e - 1))
  BY <1>10, <1>12, <1>17
<1> HIDE DEF c, d, e
<1>19. QED BY <1>18

\* Frames that stay keep their places where the names around them do.
LEMMA PlacedKept ==
  ASSUME NEW fr, NEW s, Len(fr) \in Nat, Placed(fr, s), NEW g, NEW u, NEW k \in Nat, Len(g) \in Nat,
         k <= Len(fr), k <= Len(g), \A i \in 1..k : g[i] = fr[i],
         \A i \in 1..k : Assigning(fr[i]) => SeenIn(u)[Depth(fr, i)] = SeenIn(s)[Depth(fr, i)],
         \A i \in (k + 1)..Len(g) :
           Assigning(g[i]) => g[i].place = SeenIn(u)[Depth(g, i)][g[i].node.name]
  PROVE  Placed(g, u)
<1> SUFFICES ASSUME NEW i \in 1..Len(g), Assigning(g[i])
             PROVE  g[i].place = SeenIn(u)[Depth(g, i)][g[i].node.name]
  BY DEF Placed
<1>1. CASE i \in 1..k
  <2>1. i \in 1..Len(fr) /\ i \in Nat
    BY <1>1
  <2>2. \A j \in 1..i : j \in 1..k
    BY <1>1
  <2>3. \A j \in 1..i : g[j] = fr[j]
    BY <2>2
  <2>4. Depth(g, i) = Depth(fr, i)
    BY <2>1, <2>3, DepthSame
  <2>5. fr[i].place = SeenIn(s)[Depth(fr, i)][fr[i].node.name]
    BY <1>1, <2>1 DEF Placed
  <2>6. QED BY <1>1, <2>4, <2>5
<1>2. CASE i \in (k + 1)..Len(g)
  BY <1>2
<1>3. QED BY <1>1, <1>2

\* Names keep their homes and assignments their places.
Apart == status = "running" => Homes(scopes) /\ Placed(frames, scopes)

\* The frames below, and the context on top.
LEMMA HereDepth ==
  ASSUME NEW a, NEW nm, Here(a, nm)
  PROVE  LET l == Len(frames) IN
         /\ l \in Nat /\ l # 0 /\ l - 1 \in Nat /\ l - 1 + 1 = l
         /\ Len(scopes) = Depth(frames, l) /\ Len(scopes) \in Nat /\ Len(scopes) # 0
         /\ Len(scopes) = Depth(frames, l - 1) + One(Top)
         /\ Depth(frames, l - 1) \in Nat
         /\ \A i \in 1..(l - 1) : Depth(frames, i) \in 1..Depth(frames, l - 1)
<1> DEFINE l == Len(frames)
<1>1. StackOK(frames) /\ Len(scopes) = Depth(frames, l) /\ Len(scopes) # 0 /\ Len(scopes) \in Nat
  BY HereFacts DEF Here
<1>2. l \in Nat /\ l # 0
  BY <1>1 DEF StackOK
<1>3. Top = frames[l]
  BY DEF Top
<1> HIDE DEF l
<1>4. l - 1 \in Nat /\ l - 1 + 1 = l
  BY <1>2
<1>5. Owned(frames, l - 1) \in Nat /\ Owned(frames, l - 1 + 1) = Owned(frames, l - 1) + One(frames[l - 1 + 1])
  BY <1>4, OwnedNext
<1>6. Depth(frames, l - 1) \in Nat /\ Depth(frames, l) = Depth(frames, l - 1) + One(Top)
  <2>1. One(Top) \in Nat
    BY DEF One
  <2>2. QED BY <1>3, <1>4, <1>5, <2>1 DEF Depth
<1>7. \A i \in 1..(l - 1) : Depth(frames, i) \in 1..Depth(frames, l - 1)
  <2>1. \A i \in 1..(l - 1) : i \in Nat /\ i <= l - 1
    BY <1>4
  <2>2. QED BY <1>4, <2>1, DepthGrows
<1>8. QED BY <1>1, <1>2, <1>4, <1>6, <1>7 DEF l

\* execute() is called.
LEMMA VisitApart ==
  ASSUME NEW a, NEW nm, Here(a, nm), Apart, NEW pc \in Nat, NEW place, NEW n,
         frames' = Append(Below, Going(pc, place)) \o <<Frame(n, 0)>>,
         Top.node.kind = "Assign" /\ pc = 1 => place = SeenIn(scopes)[Len(scopes)][Top.node.name],
         Homes(scopes'), \A d \in 0..Len(scopes) : SeenIn(scopes')[d] = SeenIn(scopes)[d]
  PROVE  Apart'
<1> DEFINE l == Len(frames)
           t == Going(pc, place)
           e == Append(Below, t)
           g == e \o <<Frame(n, 0)>>
<1>1. StackOK(frames) /\ status = "running"
  BY HereFacts DEF Here
<1>2. /\ l \in Nat /\ l # 0 /\ l - 1 \in Nat /\ l - 1 + 1 = l
      /\ Len(scopes) \in Nat /\ Len(scopes) = Depth(frames, l)
      /\ Len(scopes) = Depth(frames, l - 1) + One(Top)
      /\ Depth(frames, l - 1) \in Nat
      /\ \A i \in 1..(l - 1) : Depth(frames, i) \in 1..Depth(frames, l - 1)
  BY HereDepth
<1>3. /\ IsSeq(Below) /\ Len(Below) = l - 1 /\ \A i \in 1..(l - 1) : Below[i] = frames[i]
  BY <1>1, TopFacts
<1>5. t.node = Top.node /\ t.pc = pc /\ t.place = place
  BY DEF Going
<1> HIDE DEF l, t
<1>4. /\ IsSeq(e) /\ Len(e) = l /\ e[l] = t /\ \A i \in 1..(l - 1) : e[i] = frames[i]
  <2>1. IsSeq(e) /\ Len(e) = Len(Below) + 1 /\ e[Len(Below) + 1] = t
        /\ \A i \in 1..Len(Below) : e[i] = Below[i]
    BY <1>3, AppendFacts
  <2>2. QED BY <1>2, <1>3, <2>1
<1> HIDE DEF e
<1>6. /\ IsSeq(g) /\ Len(g) = l + 1 /\ g[l] = t /\ g[l + 1] = Frame(n, 0)
      /\ \A i \in 1..(l - 1) : g[i] = frames[i]
  <2>1. IsSeq(g) /\ Len(g) = Len(e) + 1 /\ g[Len(e) + 1] = Frame(n, 0) /\ \A i \in 1..Len(e) : g[i] = e[i]
    <3> DEFINE o == <<Frame(n, 0)>>
    <3>1. IsSeq(o) /\ Len(o) = 1 /\ o[1] = Frame(n, 0)
      BY OneFacts
    <3> HIDE DEF o
    <3> DEFINE r == e \o o
    <3>5. IsSeq(e) /\ IsSeq(o)
      BY <1>4, <3>1
    <3>2. /\ IsSeq(r) /\ Len(r) = Len(e) + Len(o)
          /\ \A i \in 1..Len(e) : r[i] = e[i]
          /\ \A i \in 1..Len(o) : r[Len(e) + i] = o[i]
      BY <3>5, ConcatFacts
    <3>3. 1 \in 1..Len(o)
      BY <3>1
    <3>4. QED BY <3>1, <3>2, <3>3 DEF o, r
  <2>2. l \in 1..l /\ \A i \in 1..(l - 1) : i \in 1..l
    BY <1>2
  <2>3. QED BY <1>4, <2>1, <2>2
<1>7. frames' = g
  BY DEF e, t
<1>13. PICK u : u = scopes'
  OBVIOUS
<1>11. Homes(u) /\ \A d \in 0..Len(scopes) : SeenIn(u)[d] = SeenIn(scopes)[d]
  BY <1>13
<1> HIDE DEF g
<1>8. Assigning(t) => t.place = SeenIn(u)[Depth(g, l)][t.node.name]
  <2> SUFFICES ASSUME Assigning(t) PROVE t.place = SeenIn(u)[Depth(g, l)][t.node.name]
    OBVIOUS
  <2>1. Top.node.kind = "Assign" /\ pc = 1
    BY <1>5 DEF Assigning
  <2>2. ~OwnsScope(Top) /\ ~OwnsScope(t)
    BY <1>5, <2>1 DEF OwnsScope
  <2>3. One(Top) = 0 /\ One(t) = 0
    BY <2>2 DEF One
  <2>4. Depth(g, l) = Depth(g, l - 1) + One(g[l]) /\ Depth(g, l - 1) = Depth(frames, l - 1)
    <3>1. Owned(g, l - 1) \in Nat /\ Owned(g, l - 1 + 1) = Owned(g, l - 1) + One(g[l - 1 + 1])
      BY <1>2, OwnedNext
    <3>2. Depth(g, l - 1) = Depth(frames, l - 1)
      BY <1>2, <1>6, DepthSame
    <3>3. One(t) \in Nat
      BY DEF One
    <3>4. QED BY <1>2, <1>6, <3>1, <3>2, <3>3 DEF Depth
  <2>5. Depth(g, l) = Len(scopes)
    BY <1>2, <1>6, <2>3, <2>4
  <2>6. Len(scopes) \in 0..Len(scopes)
    BY <1>2
  <2>7. QED BY <1>5, <1>11, <2>1, <2>5, <2>6
<1>9. ~Assigning(Frame(n, 0))
  BY DEF Assigning, Frame
<1>10. Placed(g, u)
  <2>1. Placed(frames, scopes)
    BY <1>1 DEF Apart
  <2>2. Len(frames) \in Nat /\ Len(g) \in Nat /\ l - 1 <= Len(frames) /\ l - 1 <= Len(g)
    BY <1>2, <1>6 DEF l
  <2>3. \A i \in 1..(l - 1) : SeenIn(u)[Depth(frames, i)] = SeenIn(scopes)[Depth(frames, i)]
    <3>1. One(Top) \in Nat
      BY DEF One
    <3>2. Depth(frames, l - 1) <= Len(scopes)
      BY <1>2, <3>1
    <3> DEFINE c == Depth(frames, l - 1)
    <3>3. \A d \in 1..c : d \in 0..Len(scopes)
      <4>1. c \in Nat /\ c <= Len(scopes)
        BY <1>2, <3>2
      <4> HIDE DEF c
      <4>2. QED BY <1>2, <4>1
    <3> HIDE DEF c
    <3>4. QED BY <1>2, <1>11, <3>3 DEF c
  <2>4. \A i \in (l - 1 + 1)..Len(g) : i = l \/ i = l + 1
    BY <1>2, <1>6
  <2>5. \A i \in (l - 1 + 1)..Len(g) : Assigning(g[i]) => g[i].place = SeenIn(u)[Depth(g, i)][g[i].node.name]
    BY <1>6, <1>8, <1>9, <2>4
  <2>6. PICK k : k = l - 1
    OBVIOUS
  <2>7. /\ k \in Nat /\ k <= Len(frames) /\ k <= Len(g) /\ \A i \in 1..k : g[i] = frames[i]
        /\ \A i \in 1..k : Assigning(frames[i]) => SeenIn(u)[Depth(frames, i)] = SeenIn(scopes)[Depth(frames, i)]
        /\ \A i \in (k + 1)..Len(g) : Assigning(g[i]) => g[i].place = SeenIn(u)[Depth(g, i)][g[i].node.name]
    BY <1>2, <1>6, <2>2, <2>3, <2>5, <2>6
  <2>8. Len(frames) \in Nat /\ Len(g) \in Nat
    BY <2>2
  <2>9. QED BY <2>1, <2>7, <2>8, PlacedKept
<1>12. QED BY <1>7, <1>10, <1>11, <1>13 DEF Apart

\* execute() returns.
LEMMA AnswerApart ==
  ASSUME NEW a, NEW nm, Here(a, nm), Apart, Top.node.kind # "Enter", frames' = Below, Homes(scopes'),
         \A i \in 1..Len(Below) :
           Assigning(frames[i]) => SeenIn(scopes')[Depth(frames, i)] = SeenIn(scopes)[Depth(frames, i)]
  PROVE  Apart'
<1> DEFINE l == Len(frames)
           g == Below
<1>1. StackOK(frames) /\ status = "running"
  BY HereFacts DEF Here
<1>2. l \in Nat /\ l - 1 \in Nat /\ l - 1 + 1 = l
  BY HereDepth
<1>3. /\ IsSeq(Below) /\ Len(Below) = l - 1 /\ \A i \in 1..(l - 1) : Below[i] = frames[i]
  BY <1>1, TopFacts
<1>8. PICK u : u = scopes'
  OBVIOUS
<1>4. /\ frames' = g /\ Homes(u)
      /\ \A i \in 1..Len(g) :
           Assigning(frames[i]) => SeenIn(u)[Depth(frames, i)] = SeenIn(scopes)[Depth(frames, i)]
  BY <1>8
<1>5. Len(g) = l - 1 /\ \A i \in 1..(l - 1) : g[i] = frames[i]
  BY <1>3
<1> HIDE DEF g
<1>6. Placed(g, u)
  <2>1. Placed(frames, scopes)
    BY <1>1 DEF Apart
  <2>2. Len(frames) \in Nat /\ Len(g) \in Nat /\ l - 1 <= Len(frames) /\ l - 1 <= Len(g)
        /\ (l - 1 + 1)..Len(g) = {}
    BY <1>2, <1>5
  <2>6. PICK k : k = l - 1
    OBVIOUS
  <2>7. /\ k \in Nat /\ k <= Len(frames) /\ k <= Len(g) /\ \A i \in 1..k : g[i] = frames[i]
        /\ \A i \in 1..k : Assigning(frames[i]) => SeenIn(u)[Depth(frames, i)] = SeenIn(scopes)[Depth(frames, i)]
        /\ (k + 1)..Len(g) = {}
    BY <1>2, <1>4, <1>5, <2>2, <2>6
  <2>8. Len(frames) \in Nat /\ Len(g) \in Nat
    BY <2>2
  <2>9. QED BY <2>1, <2>7, <2>8, PlacedKept
<1>7. QED BY <1>4, <1>6, <1>8 DEF Apart

\* A block opens its context.
LEMMA BlockApart ==
  ASSUME NEW a, NEW nm, Here(a, nm), Apart, Block, ScopesOK(scopes')
  PROVE  Apart'
<1> DEFINE l == Len(frames)
           t == [Top EXCEPT !.pc = 1]
           g == Append(Below, t)
<1>1. StackOK(frames) /\ status = "running" /\ IsFrame(Top) /\ ScopesOK(scopes)
  BY HereFacts DEF Here
<1>2. /\ l \in Nat /\ l # 0 /\ l - 1 \in Nat /\ l - 1 + 1 = l
      /\ Len(scopes) \in Nat /\ Len(scopes) # 0
      /\ Len(scopes) = Depth(frames, l - 1) + One(Top)
      /\ Depth(frames, l - 1) \in Nat
      /\ \A i \in 1..(l - 1) : Depth(frames, i) \in 1..Depth(frames, l - 1)
  BY HereDepth
<1>3. /\ IsSeq(Below) /\ Len(Below) = l - 1 /\ \A i \in 1..(l - 1) : Below[i] = frames[i]
  BY <1>1, TopFacts
<1>4. frames' = g /\ scopes' = Nested /\ Top.node.kind = "Block"
  BY DEF Block, At
<1>5. t.node = Top.node
  BY <1>1 DEF IsFrame
<1> HIDE DEF l, t
<1>6. /\ IsSeq(g) /\ Len(g) = l /\ g[l] = t /\ \A i \in 1..(l - 1) : g[i] = frames[i]
  <2>1. IsSeq(g) /\ Len(g) = Len(Below) + 1 /\ g[Len(Below) + 1] = t
        /\ \A i \in 1..Len(Below) : g[i] = Below[i]
    BY <1>3, AppendFacts
  <2>2. QED BY <1>2, <1>3, <2>1
<1> HIDE DEF g
<1>7. PICK u : u = scopes'
  OBVIOUS
<1>8. Opened(scopes, Len(scopes), Nothing, u) /\ ScopesOK(u)
  BY <1>4, <1>7 DEF Nested, Opened
<1>9. Len(scopes) \in 0..Len(scopes)
  BY <1>2
<1>10. \A d \in 0..Len(scopes) : SeenIn(u)[d] = SeenIn(scopes)[d]
  BY <1>1, <1>8, <1>9, OpenedSees
<1>11. Homes(u)
  <2>1. \A x \in DOMAIN Nothing : Nothing[x] = <<1, x>>
    BY EmptyFacts, SeqFacts DEF Nothing
  <2>2. Homes(scopes)
    BY <1>1 DEF Apart
  <2>3. QED BY <1>1, <1>2, <1>8, <1>9, <2>1, <2>2, HomesOpened
<1>12. Placed(g, u)
  <2>1. Placed(frames, scopes)
    BY <1>1 DEF Apart
  <2>2. ~Assigning(t)
    BY <1>4, <1>5 DEF Assigning
  <2>3. \A i \in 1..(l - 1) : SeenIn(u)[Depth(frames, i)] = SeenIn(scopes)[Depth(frames, i)]
    <3> DEFINE c == Depth(frames, l - 1)
    <3>1. \A d \in 1..c : d \in 0..Len(scopes)
      <4>1. One(Top) \in Nat
        BY DEF One
      <4>2. c \in Nat /\ Len(scopes) = c + One(Top) /\ Len(scopes) \in Nat
        BY <1>2
      <4> HIDE DEF c
      <4>3. QED BY <4>1, <4>2
    <3>2. QED BY <1>2, <1>10, <3>1
  <2>6. PICK k : k = l - 1
    OBVIOUS
  <2>7. /\ k \in Nat /\ k <= Len(frames) /\ k <= Len(g) /\ \A i \in 1..k : g[i] = frames[i]
        /\ \A i \in 1..k : Assigning(frames[i]) => SeenIn(u)[Depth(frames, i)] = SeenIn(scopes)[Depth(frames, i)]
        /\ \A i \in (k + 1)..Len(g) : i = l
    <3>1. k \in Nat /\ k <= Len(frames) /\ k <= Len(g) /\ \A i \in (k + 1)..Len(g) : i = l
      BY <1>2, <1>6, <2>6 DEF l
    <3>2. QED BY <1>6, <2>3, <2>6, <3>1
  <2>8. Len(frames) \in Nat /\ Len(g) \in Nat
    BY <1>2, <1>6 DEF l
  <2>9. \A i \in (k + 1)..Len(g) : ~Assigning(g[i])
    BY <1>6, <2>2, <2>7
  <2>10. QED BY <2>1, <2>7, <2>8, <2>9, PlacedKept
<1>13. QED BY <1>4, <1>7, <1>11, <1>12 DEF Apart

\* A function is called in a context of its own.
LEMMA CallBodyApart ==
  ASSUME NEW a, NEW nm, Here(a, nm), Apart, CallBody, ScopesOK(scopes')
  PROVE  Apart'
<1>1. /\ StackOK(frames) /\ status = "running" /\ IsFrame(Top) /\ ScopesOK(scopes)
      /\ Len(scopes) \in Nat /\ Len(scopes) # 0 /\ program \in Programs
      /\ Top.node.kind # "Enter" => <<Top.node, a[Len(frames)], nm[Len(frames)]>> \in Nodes[program]
  BY HereFacts DEF Here
<1>2. /\ Top.node.kind = "Call" /\ Visit(2, Callee.body)
      /\ scopes' = IF HasArgument THEN setInfo(Called, Callee.param, return_value.v) ELSE Called
  BY DEF CallBody, ArgumentsReady, At
<1>3. Homes(scopes)
  BY <1>1 DEF Apart
<1> DEFINE n == Len(scopes)
           names == scopes[1].refs
           u == Called
<1>4. 1 \in 1..n /\ 0 \in 0..n
  <2> HIDE DEF u, names
  <2>1. n \in Nat /\ n # 0
    BY <1>1
  <2> HIDE DEF n
  <2>2. QED BY <2>1
<1>5. \A x \in DOMAIN names : names[x] = <<1, x>>
  BY <1>3, <1>4 DEF Homes
<1>6. Opened(scopes, 0, names, u)
  BY DEF Opened, Called
<1>7. ScopesOK(u)
  <2>1. ScopesOK(Append(scopes, Scope(0, scopes[1].refs)))
    <3>1. TRUE \in BOOLEAN
      OBVIOUS
    <3>2. QED BY <1>1, <3>1, CalledTyped
  <2>2. QED BY <2>1 DEF Called
<1> HIDE DEF n, names, u
<1>8. Homes(u) /\ Len(u) = Len(scopes) + 1 /\ \A d \in 0..Len(scopes) : SeenIn(u)[d] = SeenIn(scopes)[d]
  <2>1. Homes(u)
    BY <1>1, <1>3, <1>4, <1>5, <1>6, <1>7, HomesOpened DEF n
  <2>2. Len(u) = Len(scopes) + 1 /\ \A d \in 0..Len(scopes) : SeenIn(u)[d] = SeenIn(scopes)[d]
    BY <1>1, <1>4, <1>6, <1>7, OpenedSees DEF n
  <2>3. QED BY <2>1, <2>2
<1>9. PICK w : w = scopes'
  OBVIOUS
<1>10. Homes(w) /\ \A d \in 0..Len(scopes) : SeenIn(w)[d] = SeenIn(scopes)[d]
  <2>1. CASE ~HasArgument
    <3>1. w = u
      BY <1>2, <1>9, <2>1 DEF u
    <3>2. QED BY <1>8, <3>1
  <2>2. CASE HasArgument
    <3>9. IsSeq(u)
      BY <1>7, ChainedFacts
    <3>1. PICK x, v : w = setInfo(u, x, v)
      BY <1>2, <1>9, <2>2 DEF u
    <3>2. ScopesOK(w) /\ Len(u) # 0
      BY <1>1, <1>8, <1>9
    <3>3. Homes(w)
      BY <1>7, <1>8, <3>1, <3>2, HomesSet
    <3>4. \A d \in 0..(Len(u) - 1) : SeenIn(w)[d] = SeenIn(u)[d]
      BY <1>7, <3>1, <3>2, SetSees
    <3>5. Len(u) - 1 = Len(scopes)
      BY <1>1, <1>8
    <3>6. QED BY <1>8, <3>3, <3>4, <3>5
  <2>3. QED BY <2>1, <2>2
<1>11. frames' = Append(Below, Going(2, Top.place)) \o <<Frame(Callee.body, 0)>>
  BY <1>1, <1>2, VisitIs
<1>12. 2 \in Nat
  OBVIOUS
<1>13. Homes(scopes') /\ \A d \in 0..Len(scopes) : SeenIn(scopes')[d] = SeenIn(scopes)[d]
  BY <1>9, <1>10
<1>14. QED BY <1>2, <1>11, <1>12, <1>13, VisitApart

\* A declaration, an assignment, or the end of a block or of a call.
LEMMA LeaveApart ==
  ASSUME NEW a, NEW nm, Here(a, nm), Apart, IInv', ScopesOK(scopes'),
         VarDeclSet \/ AssignSet \/ CallDone \/ BlockDone
  PROVE  Apart'
<1> DEFINE l == Len(frames)
           n == Len(scopes)
           c == Depth(frames, l - 1)
<1>1. /\ StackOK(frames) /\ status = "running" /\ IsFrame(Top) /\ ScopesOK(scopes)
      /\ Homes(scopes) /\ Placed(frames, scopes) /\ PcOK(Top)
      /\ program \in Programs /\ Stacked(program, frames, a, nm) /\ return_value \in Answers
      /\ Top.node.kind # "Enter" => <<Top.node, a[l], nm[l]>> \in Nodes[program]
  BY HereFacts DEF Here, Apart
<1>2. /\ l \in Nat /\ l # 0 /\ l - 1 \in Nat /\ l - 1 + 1 = l
      /\ n = Depth(frames, l) /\ n \in Nat /\ n # 0
      /\ n = c + One(Top) /\ c \in Nat
      /\ \A i \in 1..(l - 1) : Depth(frames, i) \in 1..c
  BY HereDepth
<1>3. Len(Below) = l - 1
  BY <1>1, TopFacts
<1>4. Top.node.kind # "Enter" /\ frames' = Below /\ status' = "running"
  BY <1>1 DEF VarDeclSet, AssignSet, CallDone, BlockDone, InBlock, At, Answer
<1>5. PICK u : u = scopes'
  OBVIOUS
<1>6. ScopesOK(u)
  BY <1>5
<1>7. Homes(u) /\ \A i \in 1..(l - 1) : Assigning(frames[i]) => SeenIn(u)[Depth(frames, i)] = SeenIn(scopes)[Depth(frames, i)]
  <2>1. CASE CallDone \/ BlockDone
    <3>1. u = SubSeq(scopes, 1, Len(scopes) - 1) /\ OwnsScope(Top)
      BY <1>5, <2>1 DEF CallDone, BlockDone, InBlock, At, Popped, ScopesAfterBlock, OwnsScope
    <3>2. One(Top) = 1
      BY <3>1 DEF One
    <3>3. Len(scopes) # 0 /\ \A d \in 0..(Len(scopes) - 1) : SeenIn(u)[d] = SeenIn(scopes)[d]
      BY <1>1, <1>2, <3>1, PoppedSees
    <3>4. Len(scopes) # 1
      <4>1. c # 0
        BY OwnedGrows, <1>2 DEF Depth
      <4> HIDE DEF c
      <4>2. QED BY <1>2, <3>2, <4>1
    <3>5. Homes(u)
      BY <1>1, <3>1, <3>3, <3>4, HomesPopped
    <3>6. c = Len(scopes) - 1
      BY <1>2, <3>2
    <3> HIDE DEF c, l
    <3>7. \A i \in 1..(l - 1) : Depth(frames, i) \in 0..(Len(scopes) - 1)
      BY <1>2, <3>6
    <3>8. QED BY <3>3, <3>5, <3>7
  <2>2. CASE VarDeclSet
    <3>1. Top.node.kind = "VarDecl" /\ Top.pc = 1
      BY <2>2 DEF VarDeclSet, At
    <3>2. u = setInfo(scopes, Top.node.name, return_value.v)
      BY <1>5, <2>2 DEF VarDeclSet
    <3>3. "value" \notin a[l]
      BY <1>1, <3>1, StatementAsks DEF Statements
    <3>4. Homes(u)
      BY <1>1, <1>2, <1>6, <3>2, HomesSet
    <3>5. \A d \in 0..(Len(scopes) - 1) : SeenIn(u)[d] = SeenIn(scopes)[d]
      <4>1. PICK x, v : u = setInfo(scopes, x, v)
        BY <3>2
      <4>2. Len(scopes) # 0
        BY <1>2
      <4> HIDE DEF c, l, n
      <4>3. QED BY <1>1, <1>6, <4>1, <4>2, SetSees
    <3>6. ASSUME NEW i \in 1..(l - 1), Assigning(frames[i]) PROVE Depth(frames, i) \in 0..(Len(scopes) - 1)
      <4>1. i \in 1..Len(frames) /\ l \in (i + 1)..Len(frames)
        BY <1>2, <3>6
      <4>2. Len(frames) \in Nat
        BY <1>2
      <4>3. "value" \in a[l] \/ Depth(frames, i) \in 1..(Depth(frames, l) - 1)
        BY <1>1, <3>6, <4>1, <4>2, ValueChain
      <4>4. Depth(frames, i) \in 1..(n - 1)
        BY <1>2, <3>3, <4>3
      <4>5. QED BY <4>4
    <3>7. QED BY <3>4, <3>5, <3>6
  <2>3. CASE AssignSet
    <3>1. Top.node.kind = "Assign" /\ Top.pc = 1
      BY <2>3 DEF AssignSet, At
    <3>2. Top.place = SeenIn(scopes)[n][Top.node.name]
      <4>1. Top = frames[l] /\ l \in 1..l
        BY <1>2 DEF Top
      <4>2. QED BY <1>1, <1>2, <3>1, <4>1 DEF Placed, Assigning
    <3>3. Top.node.name \in DOMAIN SeenIn(scopes)[n]
      <4>1. Top.node.name \in nm[l]
        BY <1>1, <3>1, NodeFacts DEF Fits
      <4>2. Relied(Top, nm[l], 0) \subseteq DOMAIN SeenIn(scopes)[n]
        BY HereFacts DEF Here
      <4>3. QED BY <3>1, <4>1, <4>2 DEF Relied, Lists
    <3>4. n \in 1..Len(scopes)
      BY <1>2
    <3>5. PICK e, y : e \in 1..n /\ y = Top.node.name /\ Top.place = <<e, y>> /\ y \in DOMAIN scopes[e].vals
      <4>1. \E e \in 1..n : SeenIn(scopes)[n][Top.node.name] = <<e, Top.node.name>>
                            /\ Top.node.name \in DOMAIN scopes[e].vals
        BY <1>1, <3>3, <3>4, SeenHomes
      <4>2. QED BY <3>2, <4>1
    <3>6. return_value.v \in BOOLEAN
      <4>1. "value" \in Asked(program, Top, a[l])
        BY <3>1 DEF Asked, AskedOf, IsEvaluated
      <4>2. QED BY <3>1, <4>1, AskedValue
    <3>7. u = Stored(scopes, e, y, return_value.v)
      <4>1. u = [scopes EXCEPT ![Top.place[1]].vals[Top.place[2]] = return_value.v]
        BY <1>5, <2>3 DEF AssignSet
      <4>2. Top.place[1] = e /\ Top.place[2] = y
        BY <3>5
      <4>3. QED BY <4>1, <4>2 DEF Stored
    <3>8. e \in 1..Len(scopes)
      BY <3>5
    <3>9. Homes(u)
      BY <1>1, <1>2, <3>5, <3>6, <3>7, <3>8, HomesStored
    <3>10. \A d \in 0..Len(scopes) : SeenIn(u)[d] = SeenIn(scopes)[d]
      BY <1>1, <3>5, <3>6, <3>7, <3>8, StoredSees
    <3>11. \A i \in 1..(l - 1) : Depth(frames, i) \in 0..Len(scopes)
      <4>1. One(Top) \in Nat
        BY DEF One
      <4> HIDE DEF c, l
      <4>2. QED BY <1>2, <4>1
    <3>12. QED BY <3>9, <3>10, <3>11
  <2>4. QED BY <2>1, <2>2, <2>3
<1>8. Homes(scopes') /\ \A i \in 1..Len(Below) :
           Assigning(frames[i]) => SeenIn(scopes')[Depth(frames, i)] = SeenIn(scopes)[Depth(frames, i)]
  BY <1>3, <1>5, <1>7
<1>9. QED BY <1>4, <1>8, AnswerApart

\* Every step keeps names and places apart.
LEMMA StepApart == TypesInv /\ IInv /\ Apart /\ TypesInv' /\ IInv' /\ [Next]_vars => Apart'
<1> SUFFICES ASSUME TypesInv, IInv, Apart, TypesInv', IInv', [Next]_vars PROVE Apart'
  OBVIOUS
<1>1. CASE status = "running" /\ Next
  <2>1. PICK a, nm : Here(a, nm)
    BY <1>1 DEF TypesInv, Typed, Here
  <2>2. /\ StackOK(frames) /\ IsFrame(Top) /\ ScopesOK(scopes) /\ ScopesOK(scopes')
        /\ Homes(scopes) /\ Placed(frames, scopes)
    BY <1>1, <2>1, HereFacts DEF Here, Apart, TypesInv
  <2>3. ASSUME scopes' = scopes, Top.node.kind # "Assign", NEW pc \in Nat, NEW n, Visit(pc, n)
        PROVE  Apart'
    <3>1. frames' = Append(Below, Going(pc, Top.place)) \o <<Frame(n, 0)>>
      BY <2>2, <2>3, VisitIs
    <3>2. Homes(scopes') /\ \A d \in 0..Len(scopes) : SeenIn(scopes')[d] = SeenIn(scopes)[d]
      BY <2>2, <2>3
    <3>3. QED BY <2>1, <2>3, <3>1, <3>2, VisitApart
  <2>4. ASSUME scopes' = scopes, Top.node.kind # "Enter", frames' = Below
        PROVE  Apart'
    BY <2>1, <2>2, <2>4, AnswerApart
  <2>5. CASE EnterNext
    <3>1. Top.pc + 1 \in Nat
      BY <2>2 DEF IsFrame
    <3>2. QED BY <2>3, <2>5, <3>1 DEF EnterNext
  <2>6. CASE AndOrLeft \/ CallArgument \/ VarDecl \/ If \/ While \/ Return
    BY <2>3, <2>6 DEF AndOrLeft, CallArgument, VarDecl, If, While, Return, At
  <2>7. CASE IntLiteral \/ getint \/ DeclRef \/ AndOrRight \/ IfDone \/ Break \/ Continue
               \/ ReturnNothing \/ ReturnValue
    BY <2>4, <2>7 DEF IntLiteral, getint, DeclRef, AndOrRight, IfDone, Break, Continue,
                      ReturnNothing, ReturnValue, At, Answer
  <2>8. CASE AndOrDecide
    BY <2>3, <2>4, <2>8 DEF AndOrDecide, At, Answer
  <2>9. CASE IfArm
    BY <2>3, <2>4, <2>9 DEF IfArm, At, Answer
  <2>10. CASE WhileTest \/ WhileBody
    BY <2>3, <2>4, <2>10 DEF WhileTest, WhileBody, At, Answer
  <2>11. CASE BlockNext
    <3>1. Top.pc + 1 \in Nat
      BY <2>2 DEF IsFrame
    <3>2. QED BY <2>3, <2>11, <3>1 DEF BlockNext, InBlock
  <2>12. CASE Assign
    <3>1. frames' = Append(Below, [Top EXCEPT !.pc = 1, !.place = getInfo(Top.node.name)])
                       \o <<Frame(Kid(1), 0)>> /\ scopes' = scopes
      BY <2>12 DEF Assign
    <3>2. frames' = Append(Below, Going(1, getInfo(Top.node.name))) \o <<Frame(Kid(1), 0)>>
      BY <2>2, <3>1, WrittenFrame DEF Going
    <3>3. getInfo(Top.node.name) = SeenIn(scopes)[Len(scopes)][Top.node.name]
      BY DEF getInfo, Visible
    <3>4. Homes(scopes') /\ \A d \in 0..Len(scopes) : SeenIn(scopes')[d] = SeenIn(scopes)[d]
      BY <2>2, <3>1
    <3>5. 1 \in Nat
      OBVIOUS
    <3>6. QED BY <2>1, <3>2, <3>3, <3>4, <3>5, VisitApart
  <2>13. CASE Block
    BY <2>1, <2>2, <2>13, BlockApart
  <2>14. CASE CallBody
    BY <2>1, <2>2, <2>14, CallBodyApart
  <2>15. CASE VarDeclSet \/ AssignSet \/ CallDone \/ BlockDone
    BY <2>1, <2>2, <2>15, LeaveApart
  <2>16. CASE EnterDone \/ CallOverflow \/ CallWithoutResult
    <3>1. status' # "running"
      BY <2>16 DEF EnterDone, CallOverflow, CallWithoutResult, Abort
    <3>2. QED BY <3>1 DEF Apart
  <2>17. CASE Done
    BY <1>1, <2>17 DEF Done
  <2>18. QED BY <1>1, <2>5, <2>6, <2>7, <2>8, <2>9, <2>10, <2>11, <2>12, <2>13,
                <2>14, <2>15, <2>16, <2>17 DEF Next
<1>2. CASE UNCHANGED vars
  <2>1. frames' = frames /\ scopes' = scopes /\ status' = status
    BY <1>2 DEF vars
  <2>2. QED BY <2>1 DEF Apart
<1>3. CASE status # "running" /\ Next
  <2>1. status' = status
    BY <1>3 DEF Next, EnterNext, EnterDone, IntLiteral, getint, DeclRef, AndOrLeft, AndOrDecide,
                AndOrRight, CallArgument, CallBody, CallOverflow, CallDone, CallWithoutResult,
                VarDecl, VarDeclSet, Assign, AssignSet, If, IfArm, IfDone, While, WhileTest,
                WhileBody, Break, Continue, ReturnNothing, Return, ReturnValue, Block, BlockNext,
                BlockDone, InBlock, At, Done
  <2>2. QED BY <1>3, <2>1 DEF Apart
<1>4. QED BY <1>1, <1>2, <1>3

\* The four invariants together.
Whole == TypesInv /\ IInv /\ Calm /\ Apart

LEMMA WholeInvariant == (Init => Whole) /\ (Whole /\ [Next]_vars => Whole')
<1>1. Init => Apart
  <2> SUFFICES ASSUME Init PROVE Apart
    OBVIOUS
  <2> DEFINE sc == Scope(0, Nothing)
             f == Frame(Entry(program), 0)
  <2>1. sc.parent = 0 /\ DOMAIN sc.refs = {} /\ DOMAIN sc.vals = {} /\ ~Assigning(f)
    BY EmptyFacts, SeqFacts DEF Scope, Nothing, Assigning, Frame
  <2>2. scopes = <<sc>> /\ frames = <<f>>
    BY DEF Init
  <2> HIDE DEF sc, f
  <2>3. Len(scopes) = 1 /\ scopes[1] = sc /\ Len(frames) = 1 /\ frames[1] = f
    BY <2>2
  <2>4. \A i \in 1..1 : i = 1
    OBVIOUS
  <2>5. QED BY <2>1, <2>3, <2>4 DEF Apart, Homes, Placed
<1>2. Init => TypesInv /\ IInv /\ Calm
  <2>1. Init => Calm
    BY DEF Init, Calm, None
  <2>2. QED BY <2>1, InitTypes, InitInv
<1>3. Whole /\ [Next]_vars => Whole'
  BY StepTypes, StepInv, StepCalm, StepApart DEF Whole
<1>4. QED BY <1>1, <1>2, <1>3 DEF Whole

---------------------------------------------------------------------------
(* Where a transfer goes.                                                  *)

\* Frame t is a loop's body, and nothing but ifs and blocks lies above.
LoopsAt(fr, t, k) ==
  /\ fr[t].node.kind = "While" /\ fr[t].pc = 2
  /\ \A i \in (t + 1)..k : fr[i].node.kind \in {"If", "Block"}

\* Where a break may stand, a loop is around it.
LEMMA LoopChain ==
  ASSUME NEW p \in Programs, NEW fr, Len(fr) \in Nat, NEW a, NEW nm, Stacked(p, fr, a, nm),
         NEW k \in 1..Len(fr), fr[k].pc > 0, "loop" \in Asked(p, fr[k], a[k])
  PROVE  \E t \in 1..k : LoopsAt(fr, t, k)
<1> DEFINE Bad(j) == /\ fr[j].pc > 0 /\ "loop" \in Asked(p, fr[j], a[j])
                     /\ ~ \E t \in 1..j : LoopsAt(fr, t, j)
           T == {j \in 1..Len(fr) : Bad(j)}
<1>1. SUFFICES ASSUME T # {} PROVE FALSE
  OBVIOUS
<1>2. PICK m \in T : \A j \in T : m <= j
  <2>1. T \subseteq Nat
    OBVIOUS
  <2> HIDE DEF T
  <2>2. QED BY <1>1, <2>1, Least
<1>3. m \in 1..Len(fr) /\ Bad(m)
  BY <1>2
<1>4. PICK f : f = fr[m]
  OBVIOUS
<1>5. f.pc > 0 /\ "loop" \in Asked(p, f, a[m]) /\ PcOK(f) /\ ~ \E t \in 1..m : LoopsAt(fr, t, m)
  BY <1>3, <1>4 DEF Stacked
<1>6. f.node.kind # "Enter"
  BY <1>5 DEF Asked
<1>7. m # 1
  <2>1. Entry(p).kind = "Enter"
    BY DEF Entry
  <2>2. QED BY <1>4, <1>6, <2>1 DEF Stacked
<1>8. m \in 2..Len(fr) /\ m - 1 \in 1..(Len(fr) - 1) /\ m - 1 \in 1..Len(fr) /\ m - 1 + 1 = m
      /\ ~(m <= m - 1)
  BY <1>3, <1>7
<1>9. ~(f.node.kind = "Call" /\ f.pc = 2)
  BY <1>5 DEF Asked, BodyAsks
<1>10. "loop" \in AskedOf(f.node.kind, f.pc, a[m])
  BY <1>5, <1>6, <1>9 DEF Asked
<1>11. f.node.kind # "While"
  <2> SUFFICES ASSUME f.node.kind = "While" PROVE FALSE
    OBVIOUS
  <2>1. f.pc = 2
    BY <1>5, <1>10 DEF PcOK, AskedOf, IsEvaluated
  <2>2. m \in 1..m /\ (m + 1)..m = {}
    BY <1>3
  <2>3. LoopsAt(fr, m, m)
    BY <1>4, <2>1, <2>2 DEF LoopsAt
  <2>4. QED BY <1>5, <2>2, <2>3
<1>12. f.node.kind \in {"If", "Block"}
  <2>1. <<f.node, a[m], nm[m]>> \in Nodes[p]
    BY <1>4, <1>8 DEF Stacked
  <2>2. f.node.kind \in Expressions \cup Statements
    BY <2>1, NodeFacts DEF Fits
  <2>3. QED BY <1>5, <1>10, <1>11, <2>2 DEF Expressions, Statements, PcOK, AskedOf, IsEvaluated
<1>13. "loop" \in a[m]
  BY <1>10, <1>12 DEF AskedOf
<1>14. fr[m - 1].pc > 0 /\ a[m] = Asked(p, fr[m - 1], a[m - 1])
  BY <1>8 DEF Stacked
<1>15. PICK t \in 1..(m - 1) : LoopsAt(fr, t, m - 1)
  <2>1. ~Bad(m - 1)
    BY <1>2, <1>8
  <2>2. QED BY <1>13, <1>14, <2>1
<1>16. LoopsAt(fr, t, m)
  <2>1. \A i \in (t + 1)..m : i = m \/ i \in (t + 1)..(m - 1)
    BY <1>3
  <2>2. QED BY <1>4, <1>12, <1>15, <2>1 DEF LoopsAt
<1>17. t \in 1..m
  BY <1>8
<1>18. QED BY <1>5, <1>16, <1>17

\* That loop takes the break.
LEMMA LoopTakes ==
  ASSUME NEW fr, Len(fr) \in Nat, NEW t \in 1..Len(fr), LoopsAt(fr, t, Len(fr)),
         NEW r, r.is # "return", DOMAIN fr = 1..Len(fr)
  PROVE  Taking(fr, r, t)
<1>1. \A j \in TakersIn(fr, r) : j \in 1..Len(fr) /\ fr[j].node.kind = "While" /\ fr[j].pc = 2
  BY DEF TakersIn
<1>2. t \in TakersIn(fr, r)
  BY DEF TakersIn, LoopsAt
<1>3. \A j \in TakersIn(fr, r) : j <= t
  <2> SUFFICES ASSUME NEW j \in TakersIn(fr, r), ~(j <= t) PROVE FALSE
    OBVIOUS
  <2>1. j \in (t + 1)..Len(fr)
    BY <1>1
  <2>2. fr[j].node.kind \in {"If", "Block"}
    BY <2>1 DEF LoopsAt
  <2>3. QED BY <1>1, <2>2
<1>4. QED BY <1>2, <1>3 DEF Taking

\* A return goes to the innermost call, or there is none.
LEMMA CallTakes ==
  ASSUME NEW fr, Len(fr) \in Nat, DOMAIN fr = 1..Len(fr), NEW r, r.is = "return"
  PROVE  /\ TakersIn(fr, r) = {j \in 1..Len(fr) : InCall(fr[j])}
         /\ TakersIn(fr, r) # {} => \E t \in 1..Len(fr) : Taking(fr, r, t)
<1>1. TakersIn(fr, r) = {j \in 1..Len(fr) : InCall(fr[j])}
  BY DEF TakersIn, InCall
<1>2. ASSUME TakersIn(fr, r) # {} PROVE \E t \in 1..Len(fr) : Taking(fr, r, t)
  <2> DEFINE T == TakersIn(fr, r)
  <2>1. T \subseteq 0..Len(fr) /\ T # {}
    BY <1>1, <1>2
  <2> HIDE DEF T
  <2>2. PICK t \in T : \A k \in T : k <= t
    BY <2>1, Greatest
  <2>3. t \in 1..Len(fr)
    BY <1>1, <2>2 DEF T
  <2>4. QED BY <2>2, <2>3 DEF T, Taking
<1>3. QED BY <1>1, <1>2

\* The actions that may find a transfer under way.
Passing == EnterDone \/ CallDone \/ IfDone \/ WhileBody \/ BlockDone

\* The others find none.
LEMMA QuietNow ==
  ASSUME NEW a, NEW nm, Here(a, nm), Calm, Next, ~Passing, ~Done
  PROVE  ~IsTransfer(return_value)
<1>1. CASE Fresh(Top)
  BY <1>1 DEF Here, Calm, IsTransfer
<1>2. CASE _isValue
  BY <1>2 DEF _isValue, IsTransfer
<1>3. CASE "value" \in Asked(program, Top, a[Len(frames)]) /\ Top.pc # 0
  BY <1>2, <1>3, AskedValue
<1>4. CASE BlockNext \/ CallWithoutResult
  BY <1>4 DEF BlockNext, CallWithoutResult, BlockEnds, _isCFD, _isNone, _isValue, IsTransfer
<1>5. CASE EnterNext \/ IntLiteral \/ getint \/ DeclRef \/ AndOrLeft \/ CallArgument \/ VarDecl
           \/ Assign \/ If \/ While \/ Break \/ Continue \/ ReturnNothing \/ Return \/ Block
  BY <1>1, <1>5 DEF Fresh, EnterNext, IntLiteral, getint, DeclRef, AndOrLeft, CallArgument, VarDecl,
           Assign, If, While, Break, Continue, ReturnNothing, Return, Block, At
<1>6. CASE AndOrDecide \/ AndOrRight \/ VarDeclSet \/ AssignSet \/ IfArm \/ WhileTest \/ ReturnValue
  <2>1. /\ Top.pc # 0 /\ Top.node.kind # "Enter" /\ Top.node.kind # "Call"
        /\ IsEvaluated(Top.node.kind, Top.pc)
    BY <1>6 DEF AndOrDecide, AndOrRight, VarDeclSet, AssignSet, IfArm, WhileTest, ReturnValue, At,
                IsEvaluated
  <2>2. "value" \in Asked(program, Top, a[Len(frames)])
    BY <2>1 DEF Asked, AskedOf
  <2>3. QED BY <1>3, <2>1, <2>2
<1>7. CASE CallBody \/ CallOverflow
  <2>1. ArgumentsReady
    BY <1>7 DEF CallBody, CallOverflow
  <2>2. Top.node.kind = "Call" /\ Top.pc \in {0, 1}
    BY <2>1 DEF ArgumentsReady, At
  <2>3. Top.pc = 1 => "value" \in Asked(program, Top, a[Len(frames)])
    BY <2>2 DEF Asked, AskedOf, IsEvaluated
  <2>4. QED BY <1>1, <1>3, <2>2, <2>3 DEF Fresh
<1>8. QED BY <1>4, <1>5, <1>6, <1>7 DEF Next, Passing

\* What a transfer under way is.
LEMMA TransferNow ==
  ASSUME NEW a, NEW nm, Here(a, nm), Calm, IsTransfer(return_value)
  PROVE  /\ Top.pc # 0 /\ return_value.is \in {"break", "continue", "return"}
         /\ Answering(return_value, Asked(program, Top, a[Len(frames)]))
         /\ return_value.is # "return" =>
              /\ return_value.v = NoValue
              /\ "loop" \in Asked(program, Top, a[Len(frames)])
              /\ \E t \in 1..Len(frames) : LoopsAt(frames, t, Len(frames))
<1>1. Top.pc # 0
  BY DEF Here, Calm, Fresh, IsTransfer
<1>2. Answering(return_value, Asked(program, Top, a[Len(frames)]))
  BY <1>1 DEF Here, Returning
<1>3. return_value \in Answers
  BY HereFacts DEF Here
<1>4. /\ return_value.is \in {"break", "continue", "return"}
      /\ return_value.is # "return" => return_value.v = NoValue
  BY <1>3 DEF Answers, None, Breaking, Continuing, Value, Returned, IsTransfer
<1>5. ASSUME return_value.is # "return"
      PROVE  /\ "loop" \in Asked(program, Top, a[Len(frames)])
             /\ \E t \in 1..Len(frames) : LoopsAt(frames, t, Len(frames))
  <2>1. "loop" \in Asked(program, Top, a[Len(frames)])
    BY <1>2, <1>4, <1>5 DEF Answering
  <2>2. /\ program \in Programs /\ Stacked(program, frames, a, nm) /\ StackOK(frames) /\ IsFrame(Top)
    BY HereFacts DEF Here
  <2>3. Len(frames) \in Nat /\ Len(frames) \in 1..Len(frames) /\ Top = frames[Len(frames)] /\ Top.pc > 0
    BY <1>1, <2>2 DEF StackOK, Top, IsFrame
  <2>4. QED BY <2>1, <2>2, <2>3, LoopChain
<1>6. QED BY <1>1, <1>2, <1>4, <1>5

---------------------------------------------------------------------------
(* The structured program before and after a step.                         *)

\* Only leaving a context looks at the names around it.
LEMMA TodoOuter ==
  ASSUME NEW p, NEW f, NEW o, NEW q, ~OwnsScope(f)
  PROVE  Todo(p, f, o) = Todo(p, f, q)
  BY DEF Todo, OwnsScope

\* What the frames below the one on top have left to do.
Rest == Jobs(program, frames, scopes)[Len(frames) - 1]

\* The frames have their shape before and after.
LEMMA HereShaped ==
  ASSUME NEW a, NEW nm, Here(a, nm)
  PROVE  Shaped(frames) /\ IsSeq(Rest)
<1>1. StackOK(frames) /\ program \in Programs /\ Stacked(program, frames, a, nm)
  BY HereFacts DEF Here
<1>2. Shaped(frames)
  BY <1>1, StackedShaped
<1>3. Len(frames) - 1 \in 0..Len(frames)
  BY <1>1 DEF StackOK
<1>4. QED BY <1>2, <1>3, JobsCounted DEF Rest, Counted

LEMMA NextShaped ==
  ASSUME IInv', TypesInv', status' = "running"
  PROVE  Shaped(frames') /\ ScopesOK(scopes') /\ Len(scopes') = Depth(frames', Len(frames'))
<1>1. StackOK(frames') /\ ScopesOK(scopes') /\ program' \in Programs
      /\ Len(scopes') = Depth(frames', Len(frames'))
  BY DEF IInv, TypesInv, TypeOK, Depth
<1>2. PICK a, nm : Stacked(program', frames', a, nm)
  BY DEF TypesInv, Typed
<1>3. QED BY <1>1, <1>2, StackedShaped

\* No transfer is under way: the frame on top is next.
LEMMA QuietBars ==
  ASSUME NEW a, NEW nm, Here(a, nm), ~IsTransfer(return_value)
  PROVE  LET l == Len(frames)
             o == Outer(frames, scopes, l)
         IN
         /\ agendaBar = Todo(program, Top, o) \o Rest
         /\ accBar = AccOf(agendaBar, return_value.v)
         /\ envBar = SeenIn(scopes)[Len(scopes)]
         /\ storeBar = StoreOf(scopes, Len(scopes))
         /\ statusBar = "running"
         /\ OwnsScope(Top) => o = SeenIn(scopes)[Depth(frames, l - 1)]
<1> DEFINE l == Len(frames)
           o == Outer(frames, scopes, l)
           A == Jobs(program, frames, scopes)
<1>1. Shaped(frames) /\ status = "running"
  BY HereShaped DEF Here
<1>2. l \in Nat /\ l # 0 /\ l \in 1..l
  BY HereDepth
<1>3. Top = frames[l]
  BY DEF Top
<1>4. Rolled(A, program, frames, scopes)
  BY <1>2, JobsDef
<1>5. A[l] = Todo(program, Top, o) \o Rest
  BY <1>2, <1>3, <1>4 DEF Rolled, Rest
<1>6. /\ AgendaIn(program, frames, return_value, scopes, status) = A[l]
      /\ AccIn(program, frames, return_value, scopes, status) = AccOf(A[l], return_value.v)
      /\ EnvIn(frames, return_value, scopes, status) = SeenIn(scopes)[Len(scopes)]
      /\ StoreIn(frames, return_value, scopes, status) = StoreOf(scopes, Len(scopes))
      /\ StatusIn(frames, return_value, status) = status
  BY <1>1, QuietIs
<1>7. OwnsScope(Top) => o = SeenIn(scopes)[Depth(frames, l - 1)]
  BY <1>2, <1>3, OuterIs
<1> HIDE DEF A, o, l
<1>8. /\ agendaBar = A[l] /\ accBar = AccOf(A[l], return_value.v)
      /\ envBar = SeenIn(scopes)[Len(scopes)] /\ storeBar = StoreOf(scopes, Len(scopes))
      /\ statusBar = "running"
  BY <1>1, <1>6, BarsAre
<1>9. QED BY <1>5, <1>7, <1>8 DEF o, l

\* The names around the frames below stay.
Steady(n) == \A d \in 0..n : SeenIn(scopes')[d] = SeenIn(scopes)[d]

\* The frames below have the same left to do.
LEMMA RestStays ==
  ASSUME NEW a, NEW nm, Here(a, nm), IInv', TypesInv', status' = "running", program' = program,
         NEW g, g = frames', Len(g) \in Nat, Len(frames) - 1 <= Len(g),
         \A i \in 1..(Len(frames) - 1) : g[i] = frames[i],
         Steady(Depth(frames, Len(frames) - 1) - 1)
  PROVE  /\ \A i \in 0..(Len(frames) - 1) : Jobs(program, g, scopes')[i] = Jobs(program, frames, scopes)[i]
         /\ Jobs(program, g, scopes')[Len(frames) - 1] = Rest
         /\ Depth(g, Len(frames) - 1) = Depth(frames, Len(frames) - 1)
<1>1. Len(frames) \in Nat /\ Len(frames) - 1 \in Nat
  BY HereDepth
<1>2. PICK k : k = Len(frames) - 1
  OBVIOUS
<1>3. PICK u : u = scopes'
  OBVIOUS
<1>4. /\ k \in Nat /\ k <= Len(frames) /\ k <= Len(g)
      /\ \A i \in 1..k : g[i] = frames[i]
      /\ \A d \in 0..(Depth(frames, k) - 1) : SeenIn(u)[d] = SeenIn(scopes)[d]
  BY <1>1, <1>2, <1>3 DEF Steady
<1>5. \A i \in 0..k : Jobs(program, g, u)[i] = Jobs(program, frames, scopes)[i]
  <2>1. k \in Nat /\ k <= Len(frames) /\ k <= Len(g) /\ Len(frames) \in Nat /\ Len(g) \in Nat
    BY <1>1, <1>4
  <2>2. \A i \in 1..k : g[i] = frames[i]
    BY <1>4
  <2>3. \A d \in 0..(Depth(frames, k) - 1) : SeenIn(u)[d] = SeenIn(scopes)[d]
    BY <1>4
  <2>4. PICK p, fr, s : p = program /\ fr = frames /\ s = scopes
    OBVIOUS
  <2>5. \A i \in 0..k : Jobs(p, g, u)[i] = Jobs(p, fr, s)[i]
    BY <2>1, <2>2, <2>3, <2>4, KeptJobs
  <2>6. QED BY <2>4, <2>5
<1>6. Depth(g, k) = Depth(frames, k) /\ k \in 0..k
  BY <1>4, DepthSame
<1>7. QED BY <1>2, <1>3, <1>5, <1>6 DEF Rest

\* The frame on top answers, and its caller is next.
LEMMA AnswerBars ==
  ASSUME NEW a, NEW nm, Here(a, nm), IInv', TypesInv', status' = "running", program' = program,
         frames' = Below, ~IsTransfer(return_value'), Steady(Depth(frames, Len(frames) - 1) - 1)
  PROVE  /\ agendaBar' = Rest
         /\ accBar' = AccOf(Rest, return_value'.v)
         /\ envBar' = SeenIn(scopes')[Len(scopes')]
         /\ storeBar' = StoreOf(scopes', Len(scopes'))
         /\ statusBar' = "running"
         /\ Len(scopes') = Depth(frames, Len(frames) - 1)
<1>1. StackOK(frames) /\ Len(frames) \in Nat /\ Len(frames) - 1 \in Nat
  BY HereFacts, HereDepth DEF Here
<1>2. Len(Below) = Len(frames) - 1 /\ \A i \in 1..(Len(frames) - 1) : Below[i] = frames[i]
  BY <1>1, TopFacts
<1>3. Shaped(frames') /\ Len(scopes') = Depth(frames', Len(frames'))
  BY NextShaped
<1>4. PICK g : g = frames'
  OBVIOUS
<1>5. /\ g = frames' /\ Len(g) \in Nat /\ Len(frames) - 1 <= Len(g) /\ Len(g) = Len(frames) - 1
      /\ \A i \in 1..(Len(frames) - 1) : g[i] = frames[i]
  BY <1>1, <1>2, <1>4
<1>6. /\ Jobs(program, g, scopes')[Len(frames) - 1] = Rest
      /\ Depth(g, Len(frames) - 1) = Depth(frames, Len(frames) - 1)
  BY <1>5, RestStays
<1>7. PICK u, r : u = scopes' /\ r = return_value'
  OBVIOUS
<1>8. Shaped(g) /\ ~IsTransfer(r) /\ Jobs(program, g, u)[Len(g)] = Rest
      /\ Len(u) = Depth(frames, Len(frames) - 1)
  BY <1>3, <1>4, <1>5, <1>6, <1>7
<1>9. /\ AgendaIn(program, g, r, u, "running") = Rest
      /\ AccIn(program, g, r, u, "running") = AccOf(Rest, r.v)
      /\ EnvIn(g, r, u, "running") = SeenIn(u)[Len(u)]
      /\ StoreIn(g, r, u, "running") = StoreOf(u, Len(u))
      /\ StatusIn(g, r, "running") = "running"
  <2>1. PICK p, q, R : p = program /\ q = "running" /\ R = Rest
    OBVIOUS
  <2>2. Jobs(p, g, u)[Len(g)] = R
    BY <1>8, <2>1
  <2>3. /\ AgendaIn(p, g, r, u, q) = R /\ AccIn(p, g, r, u, q) = AccOf(R, r.v)
        /\ EnvIn(g, r, u, q) = SeenIn(u)[Len(u)]
        /\ StoreIn(g, r, u, q) = StoreOf(u, Len(u)) /\ StatusIn(g, r, q) = q
    BY <1>8, <2>2, QuietIs
  <2>4. QED BY <2>1, <2>3
<1>10. /\ agendaBar' = AgendaIn(program, g, r, u, "running")
       /\ accBar' = AccIn(program, g, r, u, "running")
       /\ envBar' = EnvIn(g, r, u, "running")
       /\ storeBar' = StoreIn(g, r, u, "running")
       /\ statusBar' = StatusIn(g, r, "running")
  BY <1>4, <1>7, BarsNext
<1>11. QED BY <1>7, <1>8, <1>9, <1>10

\* A frame on top that has not begun has its node to run.
LEMMA BeginTodo ==
  ASSUME NEW p, NEW m, m.kind # "Enter", NEW o
  PROVE  Todo(p, Frame(m, 0), o) = <<Task("run", m)>>
<1> DEFINE f == Frame(m, 0)
<1>1. f.node = m /\ f.pc = 0
  BY DEF Frame
<1> HIDE DEF f
<1>2. QED BY <1>1, TodoIs DEF f

\* The frame on top goes on at pc and visits node m, which is next.
LEMMA VisitBars ==
  ASSUME NEW a, NEW nm, Here(a, nm), IInv', TypesInv', status' = "running", program' = program,
         NEW pc \in Nat, NEW place, NEW m, m.kind # "Enter",
         frames' = Append(Below, Going(pc, place)) \o <<Frame(m, 0)>>,
         ~IsTransfer(return_value'), Steady(Depth(frames, Len(frames) - 1) - 1),
         NEW o, OwnsScope(Going(pc, place)) => o = SeenIn(scopes')[Depth(frames, Len(frames) - 1)]
  PROVE  /\ agendaBar' = <<Task("run", m)>> \o (Todo(program, Going(pc, place), o) \o Rest)
         /\ accBar' = NoValue
         /\ envBar' = SeenIn(scopes')[Len(scopes')]
         /\ storeBar' = StoreOf(scopes', Len(scopes'))
         /\ statusBar' = "running"
<1> DEFINE t == Going(pc, place)
           f == Frame(m, 0)
           e == Append(Below, t)
           q == <<f>>
           l == Len(frames)
<1>1. StackOK(frames) /\ l \in Nat /\ l - 1 \in Nat /\ l - 1 + 1 = l /\ l # 0
  BY HereFacts, HereDepth DEF Here
<1>2. IsSeq(Below) /\ Len(Below) = l - 1 /\ \A i \in 1..(l - 1) : Below[i] = frames[i]
  BY <1>1, TopFacts
<1>3. Shaped(frames')
  BY NextShaped
<1>4. PICK g, u, r : g = frames' /\ u = scopes' /\ r = return_value'
  OBVIOUS
<1>5. IsSeq(q) /\ Len(q) = 1 /\ q[1] = f
  BY OneFacts
<1>6. g = e \o q
  BY <1>4
<1>20. OwnsScope(t) => o = SeenIn(u)[Depth(frames, l - 1)]
  BY <1>4
<1> HIDE DEF t, f, q
<1>7. IsSeq(e) /\ Len(e) = l /\ e[l] = t /\ \A i \in 1..(l - 1) : e[i] = frames[i]
  <2> HIDE DEF l
  <2>1. IsSeq(e) /\ Len(e) = Len(Below) + 1 /\ e[Len(Below) + 1] = t
        /\ \A i \in 1..Len(Below) : e[i] = Below[i]
    BY <1>2, AppendFacts
  <2>2. QED BY <1>1, <1>2, <2>1
<1> HIDE DEF e, l
<1>8. IsSeq(e) /\ IsSeq(q)
  BY <1>5, <1>7
<1>9. /\ Len(g) = Len(e) + Len(q) /\ \A i \in 1..Len(e) : g[i] = e[i]
      /\ \A i \in 1..Len(q) : g[Len(e) + i] = q[i]
  BY <1>6, <1>8, ConcatFacts
<1>10. /\ Len(g) = l + 1 /\ Len(g) \in Nat /\ g[l] = t /\ g[l + 1] = f
       /\ \A i \in 1..(l - 1) : g[i] = frames[i]
  <2>1. l \in 1..Len(e) /\ 1 \in 1..Len(q) /\ \A i \in 1..(l - 1) : i \in 1..Len(e)
    BY <1>1, <1>5, <1>7
  <2>2. QED BY <1>1, <1>5, <1>7, <1>9, <2>1
<1>11. /\ Jobs(program, g, u)[l - 1] = Rest /\ Depth(g, l - 1) = Depth(frames, l - 1)
  <2>1. Len(frames) - 1 <= Len(g) /\ \A i \in 1..(Len(frames) - 1) : g[i] = frames[i]
    BY <1>1, <1>10 DEF l
  <2>2. Jobs(program, g, scopes')[Len(frames) - 1] = Rest
        /\ Depth(g, Len(frames) - 1) = Depth(frames, Len(frames) - 1)
    BY <1>4, <1>10, <2>1, RestStays
  <2>3. QED BY <1>4, <2>2 DEF l
<1> DEFINE A == Jobs(program, g, u)
           o1 == Outer(g, u, l)
           o2 == Outer(g, u, l + 1)
<1>12. /\ A[l] = Todo(program, t, o1) \o A[l - 1]
       /\ A[l + 1] = Todo(program, f, o2) \o A[l]
  <2>1. Rolled(A, program, g, u)
    BY <1>10, JobsDef
  <2>2. l \in 1..Len(g) /\ l + 1 \in 1..Len(g) /\ l + 1 - 1 = l
    BY <1>1, <1>10
  <2> HIDE DEF A
  <2>3. \A i \in 1..Len(g) : A[i] = Todo(program, g[i], Outer(g, u, i)) \o A[i - 1]
    BY <2>1 DEF Rolled
  <2>4. A[l] = Todo(program, g[l], Outer(g, u, l)) \o A[l - 1]
    BY <2>2, <2>3
  <2>5. PICK k : k = l + 1
    OBVIOUS
  <2>6. k \in 1..Len(g) /\ k - 1 = l /\ g[k] = f
    BY <1>10, <2>2, <2>5
  <2>7. A[k] = Todo(program, g[k], Outer(g, u, k)) \o A[k - 1]
    BY <2>3, <2>6
  <2>8. QED BY <1>10, <2>4, <2>5, <2>6, <2>7
<1>13. Todo(program, f, o2) = <<Task("run", m)>>
  BY BeginTodo DEF f
<1>14. Todo(program, t, o1) = Todo(program, t, o)
  <2>1. CASE OwnsScope(t)
    <3>1. o1 = SeenIn(u)[Depth(g, l - 1)]
      <4>1. OwnsScope(g[l]) /\ l \in Nat /\ l # 0
        BY <1>1, <1>10, <2>1
      <4>2. Outer(g, u, l) = SeenIn(u)[Depth(g, l - 1)]
        BY <4>1, OuterIs
      <4>3. QED BY <4>2
    <3>2. QED BY <1>11, <1>20, <2>1, <3>1
  <2>2. CASE ~OwnsScope(t)
    BY <2>2, TodoOuter
  <2>3. QED BY <2>1, <2>2
<1> DEFINE F == <<Task("run", m)>> \o (Todo(program, t, o) \o Rest)
<1>15. A[Len(g)] = F
  BY <1>10, <1>11, <1>12, <1>13, <1>14
<1>16. AccOf(F, r.v) = NoValue
  <2>1. IsSeq(Todo(program, t, o) \o Rest)
    <3>1. IsSeq(Rest)
      BY HereShaped
    <3>2. FrameOK(t)
      <4>1. Shaped(g) /\ l \in 1..Len(g)
        BY <1>1, <1>3, <1>4, <1>10
      <4>2. QED BY <1>10, <4>1 DEF Shaped
    <3>3. IsSeq(Todo(program, t, o))
      BY <3>2, TodoShows DEF Shows
    <3>4. QED BY <3>1, <3>3, ConcatFacts
  <2> DEFINE b == Todo(program, t, o) \o Rest
             x == Task("run", m)
  <2>2. x.task = "run"
    BY DEF Task
  <2> HIDE DEF b, x
  <2>3. F[1] = x
    <3>1. IsSeq(b)
      BY <2>1 DEF b
    <3>2. (<<x>> \o b)[1] = x
      BY <3>1, ConsFacts
    <3>3. QED BY <3>2 DEF b, x
  <2> HIDE DEF F
  <2>4. QED BY <2>2, <2>3 DEF AccOf
<1>17. Shaped(g) /\ ~IsTransfer(r)
  BY <1>3, <1>4
<1> HIDE DEF F
<1>18. /\ AgendaIn(program, g, r, u, "running") = F
       /\ AccIn(program, g, r, u, "running") = NoValue
       /\ EnvIn(g, r, u, "running") = SeenIn(u)[Len(u)]
       /\ StoreIn(g, r, u, "running") = StoreOf(u, Len(u))
       /\ StatusIn(g, r, "running") = "running"
  <2>1. PICK p, w : p = program /\ w = "running"
    OBVIOUS
  <2>2. Jobs(p, g, u)[Len(g)] = F
    BY <1>15, <2>1
  <2>3. /\ AgendaIn(p, g, r, u, w) = F /\ AccIn(p, g, r, u, w) = AccOf(F, r.v)
        /\ EnvIn(g, r, u, w) = SeenIn(u)[Len(u)]
        /\ StoreIn(g, r, u, w) = StoreOf(u, Len(u)) /\ StatusIn(g, r, w) = w
    BY <1>17, <2>2, QuietIs
  <2>4. QED BY <1>16, <2>1, <2>3
<1>19. /\ agendaBar' = AgendaIn(program, g, r, u, "running")
       /\ accBar' = AccIn(program, g, r, u, "running")
       /\ envBar' = EnvIn(g, r, u, "running")
       /\ storeBar' = StoreIn(g, r, u, "running")
       /\ statusBar' = StatusIn(g, r, "running")
  BY <1>4, BarsNext
<1>21. QED BY <1>4, <1>18, <1>19 DEF F, t

\* What is left to do when r goes to frame t.
Resumes(r, t) ==
  IF r.is = "continue" THEN <<Task("loop", frames[t].node)>> \o Jobs(program, frames, scopes)[t - 1]
                       ELSE Jobs(program, frames, scopes)[t - 1]

\* A transfer is under way to frame t.
LEMMA TransferBars ==
  ASSUME NEW a, NEW nm, Here(a, nm), IsTransfer(return_value),
         NEW t \in 1..Len(frames), Taking(frames, return_value, t)
  PROVE  /\ agendaBar = Resumes(return_value, t)
         /\ accBar = AccOf(Resumes(return_value, t), return_value.v)
         /\ envBar = SeenIn(scopes)[Depth(frames, t - 1)]
         /\ storeBar = StoreOf(scopes, Depth(frames, t - 1))
         /\ statusBar = "running"
<1>1. Shaped(frames) /\ status = "running"
  BY HereShaped DEF Here
<1>2. /\ AgendaIn(program, frames, return_value, scopes, status) = Resumes(return_value, t)
      /\ AccIn(program, frames, return_value, scopes, status) = AccOf(Resumes(return_value, t), return_value.v)
      /\ EnvIn(frames, return_value, scopes, status) = SeenIn(scopes)[Depth(frames, t - 1)]
      /\ StoreIn(frames, return_value, scopes, status) = StoreOf(scopes, Depth(frames, t - 1))
      /\ StatusIn(frames, return_value, status) = status
  BY <1>1, TransferIs DEF Resumes
<1>3. QED BY <1>1, <1>2, BarsAre

\* The frame on top hands a transfer to frame t on.
LEMMA PassedBars ==
  ASSUME NEW a, NEW nm, Here(a, nm), IInv', TypesInv', status' = "running", program' = program,
         frames' = Below, IsTransfer(return_value'),
         NEW t \in 1..(Len(frames) - 1), Taking(Below, return_value', t),
         Steady(Depth(frames, Len(frames) - 1)),
         StoreOf(scopes', Depth(frames, t - 1)) = StoreOf(scopes, Depth(frames, t - 1))
  PROVE  /\ agendaBar' = Resumes(return_value', t)
         /\ accBar' = AccOf(Resumes(return_value', t), return_value'.v)
         /\ envBar' = SeenIn(scopes)[Depth(frames, t - 1)]
         /\ storeBar' = StoreOf(scopes, Depth(frames, t - 1))
         /\ statusBar' = "running"
<1>1. /\ StackOK(frames) /\ Len(frames) \in Nat /\ Len(frames) - 1 \in Nat
      /\ Depth(frames, Len(frames) - 1) \in Nat
      /\ \A i \in 1..(Len(frames) - 1) : Depth(frames, i) \in 1..Depth(frames, Len(frames) - 1)
  BY HereFacts, HereDepth DEF Here
<1>2. Len(Below) = Len(frames) - 1 /\ \A i \in 1..(Len(frames) - 1) : Below[i] = frames[i]
  BY <1>1, TopFacts
<1>3. Shaped(frames')
  BY NextShaped
<1>4. PICK g, u, r : g = frames' /\ u = scopes' /\ r = return_value'
  OBVIOUS
<1>5. /\ Len(g) \in Nat /\ Len(frames) - 1 <= Len(g) /\ Len(g) = Len(frames) - 1
      /\ \A i \in 1..(Len(frames) - 1) : g[i] = frames[i]
  BY <1>1, <1>2, <1>4
<1> DEFINE c == Depth(frames, Len(frames) - 1)
           k == t - 1
<1>6. k \in 0..(Len(frames) - 1) /\ k \in Nat /\ k <= Len(frames) - 1
  BY <1>1
<1>7. Depth(frames, k) \in 1..c
  BY <1>1, <1>6, DepthGrows
<1>8. Steady(c - 1)
  <2>1. \A d \in 0..(c - 1) : d \in 0..c
    <3>1. c \in Nat
      BY <1>1
    <3> HIDE DEF c
    <3>2. QED BY <3>1
  <2>2. QED BY <2>1 DEF Steady
<1>9. Jobs(program, g, u)[k] = Jobs(program, frames, scopes)[k]
  <2>1. \A i \in 0..(Len(frames) - 1) : Jobs(program, g, scopes')[i] = Jobs(program, frames, scopes)[i]
    BY <1>4, <1>5, <1>8, RestStays
  <2> HIDE DEF k
  <2>2. QED BY <1>4, <1>6, <2>1
<1>10. Depth(g, k) = Depth(frames, k)
  <2>1. \A i \in 1..k : i \in 1..(Len(frames) - 1)
    BY <1>1
  <2> HIDE DEF k
  <2>2. \A i \in 1..k : g[i] = frames[i]
    BY <1>5, <2>1
  <2>3. QED BY <1>6, <2>2, DepthSame
<1>11. SeenIn(u)[Depth(g, k)] = SeenIn(scopes)[Depth(frames, k)]
  <2> HIDE DEF c, k
  <2>1. Depth(frames, k) \in 0..c
    BY <1>7
  <2>2. QED BY <1>4, <1>10, <2>1 DEF Steady, c
<1>12. g[t] = frames[t] /\ t \in 1..Len(g)
  BY <1>5
<1> DEFINE b == Jobs(program, frames, scopes)[k]
           F == IF r.is = "continue" THEN <<Task("loop", frames[t].node)>> \o b ELSE b
<1>13. F = Resumes(r, t)
  BY DEF Resumes
<1>14. Shaped(g) /\ IsTransfer(r) /\ Taking(g, r, t)
  BY <1>3, <1>4
<1>15. /\ AgendaIn(program, g, r, u, "running") = F
       /\ AccIn(program, g, r, u, "running") = AccOf(F, r.v)
       /\ EnvIn(g, r, u, "running") = SeenIn(scopes)[Depth(frames, k)]
       /\ StoreIn(g, r, u, "running") = StoreOf(scopes, Depth(frames, k))
       /\ StatusIn(g, r, "running") = "running"
  <2>1. PICK p, w : p = program /\ w = "running"
    OBVIOUS
  <2> DEFINE d == Jobs(p, g, u)[t - 1]
             E == IF r.is = "continue" THEN <<Task("loop", g[t].node)>> \o d ELSE d
  <2>2. /\ AgendaIn(p, g, r, u, w) = E /\ AccIn(p, g, r, u, w) = AccOf(E, r.v)
        /\ EnvIn(g, r, u, w) = SeenIn(u)[Depth(g, t - 1)]
        /\ StoreIn(g, r, u, w) = StoreOf(u, Depth(g, t - 1)) /\ StatusIn(g, r, w) = w
    BY <1>12, <1>14, TransferIs
  <2>3. E = F
    BY <1>9, <1>12, <2>1
  <2> HIDE DEF E, F, b, d
  <2>4. StoreOf(u, Depth(g, k)) = StoreOf(scopes, Depth(frames, k))
    BY <1>4, <1>10
  <2>5. QED BY <1>11, <2>1, <2>2, <2>3, <2>4
<1> HIDE DEF F
<1>16. /\ agendaBar' = AgendaIn(program, g, r, u, "running")
       /\ accBar' = AccIn(program, g, r, u, "running")
       /\ envBar' = EnvIn(g, r, u, "running")
       /\ storeBar' = StoreIn(g, r, u, "running")
       /\ statusBar' = StatusIn(g, r, "running")
  BY <1>4, BarsNext
<1>17. QED BY <1>4, <1>13, <1>15, <1>16

\* main's return is under way, before and after a step.
LEMMA ExitBars ==
  ASSUME Len(frames) \in Nat, return_value.is = "return", TakersIn(frames, return_value) = {},
         status # "aborted"
  PROVE  /\ agendaBar = <<>> /\ accBar = return_value.v /\ envBar = <<>> /\ storeBar = <<>>
         /\ statusBar = "exited"
  BY ExitIs, BarsAre

LEMMA ExitNext ==
  ASSUME Len(frames') \in Nat, return_value'.is = "return", TakersIn(frames', return_value') = {},
         status' # "aborted"
  PROVE  /\ agendaBar' = <<>> /\ accBar' = return_value'.v /\ envBar' = <<>> /\ storeBar' = <<>>
         /\ statusBar' = "exited"
<1>1. PICK g, u, r, p, st : g = frames' /\ u = scopes' /\ r = return_value' /\ p = program' /\ st = status'
  OBVIOUS
<1>2. Len(g) \in Nat /\ r.is = "return" /\ TakersIn(g, r) = {} /\ st # "aborted"
  BY <1>1
<1>3. /\ AgendaIn(p, g, r, u, st) = <<>> /\ AccIn(p, g, r, u, st) = r.v
      /\ EnvIn(g, r, u, st) = <<>> /\ StoreIn(g, r, u, st) = <<>> /\ StatusIn(g, r, st) = "exited"
  BY <1>2, ExitIs
<1>4. QED BY <1>1, <1>3, BarsNext

---------------------------------------------------------------------------
(* The steps of the structured program.                                    *)

\* The next task and the ones after it.
Heads(x, b) == /\ agendaBar = <<x>> \o b /\ agendaBar # <<>> /\ agendaBar[1] = x
               /\ Tail(agendaBar) = b

LEMMA HeadIs ==
  ASSUME NEW x, NEW b, IsSeq(b), agendaBar = <<x>> \o b
  PROVE  Heads(x, b)
<1>1. <<x>> \o b # <<>> /\ (<<x>> \o b)[1] = x /\ Tail(<<x>> \o b) = b
  BY ConsFacts
<1>2. QED BY <1>1 DEF Heads

\* A frame that has not begun has its node to run.
LEMMA RunHead ==
  ASSUME NEW a, NEW nm, Here(a, nm), ~IsTransfer(return_value), Top.pc = 0, Top.node.kind # "Enter"
  PROVE  /\ Heads(Task("run", Top.node), Rest) /\ Abstract!Node = Top.node
         /\ Abstract!DueAt(Top.node.kind, "run") /\ statusBar = "running"
<1>1. agendaBar = Todo(program, Top, Outer(frames, scopes, Len(frames))) \o Rest /\ statusBar = "running"
  BY QuietBars
<1>2. \A o : Todo(program, Top, o) = <<Task("run", Top.node)>>
  BY TodoBegins
<1>3. Heads(Task("run", Top.node), Rest)
  BY <1>1, <1>2, HereShaped, HeadIs
<1>4. agendaBar[1].node = Top.node /\ agendaBar[1].task = "run"
  BY <1>3 DEF Heads, Task
<1>5. QED BY <1>1, <1>3, <1>4 DEF Abstract!Node, Abstract!DueAt, Abstract!Due

\* A frame that waits for a value uses it next.
LEMMA UseHead ==
  ASSUME NEW a, NEW nm, Here(a, nm), ~IsTransfer(return_value), Top.pc = 1,
         Top.node.kind \notin {"Enter", "Block", "While"}
  PROVE  /\ Heads(Task("use", Top.node), Rest) /\ Abstract!Node = Top.node
         /\ Abstract!DueAt(Top.node.kind, "use") /\ accBar = return_value.v
         /\ statusBar = "running"
<1>1. agendaBar = Todo(program, Top, Outer(frames, scopes, Len(frames))) \o Rest /\ statusBar = "running"
      /\ accBar = AccOf(agendaBar, return_value.v)
  BY QuietBars
<1>2. \A o : Todo(program, Top, o) = <<Task("use", Top.node)>>
  BY TodoIs
<1>3. Heads(Task("use", Top.node), Rest)
  BY <1>1, <1>2, HereShaped, HeadIs
<1>4. agendaBar[1].node = Top.node /\ agendaBar[1].task = "use" /\ agendaBar # <<>>
  BY <1>3 DEF Heads, Task
<1>5. QED BY <1>1, <1>3, <1>4 DEF Abstract!Node, Abstract!DueAt, Abstract!Due, AccOf

\* A part is a node of the program.
LEMMA KidKind ==
  ASSUME NEW a, NEW nm, Here(a, nm), NEW i \in 1..Len(Top.node.kids)
  PROVE  Kid(i).kind # "Enter"
<1>1. program \in Programs
  BY HereFacts DEF Here
<1>2. \E asks, names : <<Kid(i), asks, names>> \in Nodes[program]
  <2>1. CASE Top.node.kind = "Enter"
    <3>1. Top.node = Entry(program)
      BY <2>1, HereFacts DEF Here
    <3>2. PICK ks : ks = Top.node.kids
      OBVIOUS
    <3>3. /\ Len(ks) = Len(program.globals) + 1 /\ Len(program.globals) \in Nat
          /\ \A j \in 1..Len(program.globals) :
               <<ks[j], {"constant"}, Declared(ks, j - 1)>> \in Nodes[program]
          /\ <<ks[Len(ks)], {"result"}, Globals(program)>> \in Nodes[program]
      BY <1>1, <3>1, <3>2, EntryFacts
    <3>4. i = Len(ks) \/ i \in 1..Len(program.globals)
      BY <3>2, <3>3
    <3>5. QED BY <3>2, <3>3, <3>4 DEF Kid
  <2>2. CASE Top.node.kind # "Enter"
    <3>1. <<Top.node, a[Len(frames)], nm[Len(frames)]>> \in Nodes[program]
      BY <2>2, HereFacts DEF Here
    <3>2. QED BY <1>1, <3>1, NodeFacts DEF Kid
  <2>3. QED BY <2>1, <2>2
<1>3. Kid(i).kind \in Expressions \cup Statements
  BY <1>1, <1>2, NodeFacts DEF Fits
<1>4. QED BY <1>3 DEF Expressions, Statements

\* The state around the next tasks stays.
StayBars == UNCHANGED <<envBar, storeBar, statusBar>>

\* A visit that leaves the contexts.
LEMMA PlainVisit ==
  ASSUME NEW a, NEW nm, Here(a, nm), IInv', TypesInv', UNCHANGED <<program, scopes, status>>,
         ~IsTransfer(return_value), ~IsTransfer(return_value'),
         NEW pc \in Nat, NEW place, NEW m, m.kind # "Enter",
         frames' = Append(Below, Going(pc, place)) \o <<Frame(m, 0)>>,
         NEW o, OwnsScope(Going(pc, place)) => o = SeenIn(scopes)[Depth(frames, Len(frames) - 1)]
  PROVE  /\ agendaBar' = <<Task("run", m)>> \o (Todo(program, Going(pc, place), o) \o Rest)
         /\ accBar' = NoValue /\ StayBars
<1>1. status' = "running" /\ program' = program /\ scopes' = scopes
  BY DEF Here
<1>2. Steady(Depth(frames, Len(frames) - 1) - 1)
  BY <1>1 DEF Steady
<1>3. OwnsScope(Going(pc, place)) => o = SeenIn(scopes')[Depth(frames, Len(frames) - 1)]
  BY <1>1
<1>4. /\ agendaBar' = <<Task("run", m)>> \o (Todo(program, Going(pc, place), o) \o Rest)
      /\ accBar' = NoValue
      /\ envBar' = SeenIn(scopes')[Len(scopes')]
      /\ storeBar' = StoreOf(scopes', Len(scopes'))
      /\ statusBar' = "running"
  BY <1>1, <1>2, <1>3, VisitBars
<1>5. /\ envBar = SeenIn(scopes)[Len(scopes)] /\ storeBar = StoreOf(scopes, Len(scopes))
      /\ statusBar = "running"
  BY QuietBars
<1>6. QED BY <1>1, <1>4, <1>5 DEF StayBars

\* An answer that leaves the contexts.
LEMMA PlainAnswer ==
  ASSUME NEW a, NEW nm, Here(a, nm), IInv', TypesInv', UNCHANGED <<program, scopes, status>>,
         ~IsTransfer(return_value), ~IsTransfer(return_value'), frames' = Below
  PROVE  /\ agendaBar' = Rest /\ accBar' = AccOf(Rest, return_value'.v) /\ StayBars
<1>1. status' = "running" /\ program' = program /\ scopes' = scopes
  BY DEF Here
<1>2. Steady(Depth(frames, Len(frames) - 1) - 1)
  BY <1>1 DEF Steady
<1>4. /\ agendaBar' = Rest
      /\ accBar' = AccOf(Rest, return_value'.v)
      /\ envBar' = SeenIn(scopes')[Len(scopes')]
      /\ storeBar' = StoreOf(scopes', Len(scopes'))
      /\ statusBar' = "running"
  BY <1>1, <1>2, AnswerBars
<1>5. /\ envBar = SeenIn(scopes)[Len(scopes)] /\ storeBar = StoreOf(scopes, Len(scopes))
      /\ statusBar = "running"
  BY QuietBars
<1>6. QED BY <1>1, <1>4, <1>5 DEF StayBars

\* A visit and a use, in front of what is left to do.
RunThenUse(n, m, b) == <<Abstract!Run(n), Abstract!Use(m)>> \o b

LEMMA RunUse ==
  ASSUME NEW n, NEW m, NEW b, IsSeq(b), NEW u, u = <<Task("use", m)>> \o b
  PROVE  <<Task("run", n)>> \o u = RunThenUse(n, m, b)
<1> DEFINE x == Task("run", n)
           y == Task("use", m)
<1>1. IsSeq(<<x>>) /\ IsSeq(<<y>>)
  BY OneFacts
<1>2. (<<x>> \o <<y>>) \o b = <<x>> \o (<<y>> \o b)
  BY <1>1, ConcatAssoc
<1>3. <<x>> \o <<y>> = <<x, y>>
  BY TwoFacts
<1>4. x = Abstract!Run(n) /\ y = Abstract!Use(m)
  BY DEF Task, Abstract!Run, Abstract!Use
<1> HIDE DEF x, y
<1>5. RunThenUse(n, m, b) = <<x, y>> \o b
  BY <1>4 DEF RunThenUse
<1>6. u = <<y>> \o b
  BY DEF y
<1>7. <<x>> \o u = RunThenUse(n, m, b)
  BY <1>2, <1>3, <1>5, <1>6
<1>8. QED BY <1>7 DEF x

\* The first part is evaluated: AndOrLeft, CallArgument, VarDecl, Assign, If and Return.
LEMMA FirstStep ==
  ASSUME NEW a, NEW nm, Here(a, nm), IInv', TypesInv', ~IsTransfer(return_value),
         AndOrLeft \/ CallArgument \/ VarDecl \/ Assign \/ If \/ Return
  PROVE  Abstract!Evaluate /\ program' = program
<1>1. /\ Top.pc = 0 /\ Top.node.kind \in {"If", "Assign", "VarDecl", "And", "Or", "Return", "Call"}
      /\ UNCHANGED <<program, return_value, scopes, status>>
      /\ Top.node.kind \in {"Call", "Return"} => Top.node.kids # <<>>
  BY DEF AndOrLeft, CallArgument, HasArgument, VarDecl, Assign, If, Return, At
<1>2. IsFrame(Top) /\ program \in Programs
      /\ <<Top.node, a[Len(frames)], nm[Len(frames)]>> \in Nodes[program]
  BY <1>1, HereFacts DEF Here
<1>3. PICK place : frames' = Append(Below, Going(1, place)) \o <<Frame(Kid(1), 0)>>
  <2>1. CASE Assign
    <3>1. frames' = Append(Below, Going(1, getInfo(Top.node.name))) \o <<Frame(Kid(1), 0)>>
      BY <1>2, <2>1, WrittenFrame DEF Assign, Going
    <3>2. QED BY <3>1
  <2>2. CASE ~Assign
    <3>1. Visit(1, Kid(1))
      BY <2>2 DEF AndOrLeft, CallArgument, VarDecl, If, Return
    <3>2. QED BY <1>2, <3>1, VisitIs
  <2>3. QED BY <2>1, <2>2
<1>4. PICK ks : ks = Top.node.kids
  OBVIOUS
<1>5. 1 \in 1..Len(ks) /\ ks # <<>>
  <2>1. /\ Top.node.kind \in {"And", "Or", "While"} => Len(ks) = 2
        /\ Top.node.kind \in {"VarDecl", "Assign"} => Len(ks) = 1
        /\ Top.node.kind = "If" => Len(ks) \in {2, 3}
        /\ Top.node.kind \in {"Call", "Return"} => (ks # <<>> => Len(ks) = 1)
    BY <1>2, <1>4, ArityFacts
  <2>2. Len(ks) \in {1, 2, 3}
    BY <1>1, <1>4, <2>1
  <2>3. QED BY <2>2, EmptyFacts
<1>6. Kid(1).kind # "Enter"
  BY <1>4, <1>5, KidKind
<1>7. ~OwnsScope(Going(1, place)) /\ Going(1, place).node = Top.node /\ Going(1, place).pc = 1
  BY <1>1 DEF OwnsScope, Going
<1>8. \A o : Todo(program, Going(1, place), o) = <<Task("use", Top.node)>>
  <2>1. PICK f : f = Going(1, place)
    OBVIOUS
  <2>2. f.node = Top.node /\ f.pc = 1 /\ f.node.kind \notin {"Enter", "Block", "While"}
    BY <1>1, <1>7, <2>1
  <2>3. \A o : Todo(program, f, o) = <<Task("use", f.node)>>
    BY <2>2, TodoUses
  <2>4. QED BY <2>1, <2>2, <2>3
<1>9. /\ agendaBar' = <<Task("run", Kid(1))>> \o (<<Task("use", Top.node)>> \o Rest)
      /\ accBar' = NoValue /\ StayBars
  <2>1. 1 \in Nat /\ UNCHANGED <<program, scopes, status>> /\ ~IsTransfer(return_value')
    BY <1>1
  <2>2. PICK o : o = <<>>
    OBVIOUS
  <2>3. /\ agendaBar' = <<Task("run", Kid(1))>> \o (Todo(program, Going(1, place), o) \o Rest)
        /\ accBar' = NoValue /\ StayBars
    BY <1>3, <1>6, <1>7, <2>1, PlainVisit
  <2>4. QED BY <1>8, <2>3
<1>10. Tail(agendaBar) = Rest /\ Abstract!Node = Top.node /\ Abstract!DueAt(Top.node.kind, "run")
  BY <1>1, RunHead DEF Heads
<1>11. agendaBar' = RunThenUse(Kid(1), Top.node, Rest)
  <2>1. PICK n, m, b, u : n = Kid(1) /\ m = Top.node /\ b = Rest /\ u = <<Task("use", m)>> \o b
    OBVIOUS
  <2>2. IsSeq(b)
    BY <2>1, HereShaped
  <2>3. <<Task("run", n)>> \o u = RunThenUse(n, m, b)
    BY <2>1, <2>2, RunUse
  <2>4. QED BY <1>9, <2>1, <2>3
<1>12. Kid(1) = Abstract!Node.kids[1] /\ Abstract!Node.kids # <<>>
  BY <1>4, <1>5, <1>10 DEF Kid
<1>13. Abstract!Proceed(<<Abstract!Run(Abstract!Node.kids[1]), Abstract!Use(Abstract!Node)>> \o Tail(agendaBar))
  BY <1>9, <1>10, <1>11, <1>12 DEF Abstract!Proceed, RunThenUse
<1>14. Abstract!Stay
  BY <1>9 DEF StayBars, Abstract!Stay
<1>15. QED BY <1>1, <1>10, <1>12, <1>13, <1>14 DEF Abstract!Evaluate

\* An expression without parts answers.
LEMMA ValueStep ==
  ASSUME NEW a, NEW nm, Here(a, nm), IInv', TypesInv', ~IsTransfer(return_value),
         Top.pc = 0, Top.node.kind # "Enter", NEW v, Answer(Value(v)),
         UNCHANGED <<program, scopes, status>>
  PROVE  /\ Abstract!DueAt(Top.node.kind, "run") /\ Abstract!Node = Top.node
         /\ Abstract!Deliver(Tail(agendaBar), v) /\ Abstract!Stay
<1>1. frames' = Below /\ return_value'.v = v /\ ~IsTransfer(return_value')
  BY DEF Answer, Value, IsTransfer
<1>2. agendaBar' = Rest /\ accBar' = AccOf(Rest, return_value'.v) /\ StayBars
  BY <1>1, PlainAnswer
<1>3. accBar' = AccOf(Rest, v)
  BY <1>1, <1>2
<1>4. Tail(agendaBar) = Rest /\ Abstract!Node = Top.node /\ Abstract!DueAt(Top.node.kind, "run")
  BY RunHead DEF Heads
<1>5. Abstract!Deliver(Tail(agendaBar), v)
  BY <1>2, <1>3, <1>4, Zenon DEF Abstract!Deliver, AccOf
<1>6. QED BY <1>2, <1>4, <1>5 DEF StayBars, Abstract!Stay

\* A name stands for the variable whose value it has.
LEMMA NameReads ==
  ASSUME NEW a, NEW nm, Here(a, nm), Apart, ~IsTransfer(return_value),
         Top.node.kind \in {"DeclRef", "Assign"}, NEW x, x = Top.node.name
  PROVE  /\ envBar[x] = getInfo(x) /\ x \in DOMAIN envBar
         /\ \E e \in 1..Len(scopes) : getInfo(x) = PlaceOf(e, x) /\ x \in DOMAIN scopes[e].vals
         /\ storeBar[envBar[x]] = ValueAt(getInfo(x))
<1>1. /\ ScopesOK(scopes) /\ Len(scopes) \in Nat /\ Len(scopes) # 0
      /\ program \in Programs /\ <<Top.node, a[Len(frames)], nm[Len(frames)]>> \in Nodes[program]
      /\ Relied(Top, nm[Len(frames)], 0) \subseteq DOMAIN SeenIn(scopes)[Len(scopes)]
  BY HereFacts DEF Here
<1>2. x \in DOMAIN SeenIn(scopes)[Len(scopes)]
  <2>1. x \in nm[Len(frames)]
    BY <1>1, NodeFacts DEF Fits
  <2>2. Relied(Top, nm[Len(frames)], 0) = nm[Len(frames)]
    BY DEF Relied, Lists
  <2>3. QED BY <1>1, <2>1, <2>2
<1>3. envBar = SeenIn(scopes)[Len(scopes)] /\ storeBar = StoreOf(scopes, Len(scopes))
  BY QuietBars
<1>4. getInfo(x) = SeenIn(scopes)[Len(scopes)][x]
  BY DEF getInfo, Visible
<1>5. PICK s, d : s = scopes /\ d = Len(s)
  OBVIOUS
<1>6. Homes(s)
  BY <1>5 DEF Apart, Here
<1>7. d \in 1..Len(s)
  BY <1>1, <1>5
<1>8. PICK e \in 1..d : SeenIn(s)[d][x] = <<e, x>> /\ x \in DOMAIN s[e].vals
  BY <1>1, <1>2, <1>5, <1>6, <1>7, SeenHomes
<1>9. getInfo(x) = PlaceOf(e, x)
  BY <1>4, <1>5, <1>8 DEF PlaceOf
<1>10. storeBar[envBar[x]] = ValueAt(getInfo(x))
  <2>1. PICK l : l = <<e, x>>
    OBVIOUS
  <2>2. l[1] = e /\ l[2] = x /\ l = <<l[1], l[2]>>
    BY <2>1
  <2>3. d \in Nat
    BY <1>1, <1>5
  <2>4. l \in DOMAIN StoreOf(s, d)
    BY <1>8, <2>2, <2>3, StorePlaces
  <2>5. StoreOf(s, d)[l] = s[l[1]].vals[l[2]]
    BY <2>3, <2>4, StorePlaces
  <2>6. envBar[x] = l /\ getInfo(x) = l
    BY <1>3, <1>4, <1>5, <1>8, <2>1
  <2>7. ValueAt(l) = s[l[1]].vals[l[2]]
    BY <1>5 DEF ValueAt
  <2>8. storeBar = StoreOf(s, d)
    BY <1>3, <1>5
  <2>9. QED BY <2>5, <2>6, <2>7, <2>8
<1>11. QED BY <1>2, <1>3, <1>4, <1>5, <1>8, <1>9, <1>10

\* Literals, input and names.
LEMMA LeafStep ==
  ASSUME NEW a, NEW nm, Here(a, nm), Apart, IInv', TypesInv', ~IsTransfer(return_value),
         IntLiteral \/ getint \/ DeclRef
  PROVE  /\ program' = program
         /\ Abstract!Literal \/ Abstract!Input \/ Abstract!Read
<1>1. /\ Top.pc = 0 /\ Top.node.kind # "Enter" /\ UNCHANGED <<program, scopes, status>>
      /\ IntLiteral => Top.node.kind = "IntLiteral"
      /\ getint => Top.node.kind = "getint"
      /\ DeclRef => Top.node.kind = "DeclRef"
  BY DEF IntLiteral, getint, DeclRef, At
<1>2. CASE IntLiteral
  <2>1. PICK v : v = (Top.node.name = "1") /\ Answer(Value(v))
    BY <1>2, Zenon DEF IntLiteral
  <2>2. /\ Abstract!DueAt(Top.node.kind, "run") /\ Abstract!Node = Top.node
        /\ Abstract!Deliver(Tail(agendaBar), v) /\ Abstract!Stay
    BY <1>1, <2>1, ValueStep
  <2>3. v = (Abstract!Node.name = "1")
    BY <2>1, <2>2, Zenon
  <2>4. Abstract!Deliver(Tail(agendaBar), Abstract!Node.name = "1")
    BY <2>2, <2>3, Zenon
  <2>5. QED BY <1>1, <1>2, <2>2, <2>4, Zenon DEF Abstract!Literal
<1>3. CASE getint
  <2>1. PICK v \in BOOLEAN : Answer(Value(v))
    BY <1>3 DEF getint
  <2>2. /\ Abstract!DueAt(Top.node.kind, "run") /\ Abstract!Node = Top.node
        /\ Abstract!Deliver(Tail(agendaBar), v) /\ Abstract!Stay
    BY <1>1, <2>1, ValueStep
  <2>3. QED BY <1>1, <1>3, <2>2, Zenon DEF Abstract!Input
<1>4. CASE DeclRef
  <2>1. PICK x, v : x = Top.node.name /\ v = ValueAt(getInfo(x)) /\ Answer(Value(v))
    BY <1>4 DEF DeclRef
  <2>2. /\ Abstract!DueAt(Top.node.kind, "run") /\ Abstract!Node = Top.node
        /\ Abstract!Deliver(Tail(agendaBar), v) /\ Abstract!Stay
    BY <1>1, <2>1, ValueStep
  <2>3. v = storeBar[envBar[x]]
    BY <1>1, <1>4, <2>1, NameReads
  <2>4. v = storeBar[envBar[Abstract!Node.name]]
    BY <2>1, <2>2, <2>3
  <2>5. QED BY <1>1, <1>4, <2>2, <2>4 DEF Abstract!Read
<1>5. QED BY <1>2, <1>3, <1>4

\* A part is visited in the contexts as they are.
LEMMA PartVisit ==
  ASSUME NEW a, NEW nm, Here(a, nm), IInv', TypesInv', UNCHANGED <<program, scopes, status>>,
         ~IsTransfer(return_value), ~IsTransfer(return_value'),
         Top.node.kind \notin {"Enter", "Block", "Call"},
         NEW pc \in Nat, NEW i \in 1..Len(Top.node.kids), Visit(pc, Kid(i)),
         NEW f, f = Going(pc, Top.place)
  PROVE  /\ agendaBar' = <<Task("run", Kid(i))>> \o (Todo(program, f, <<>>) \o Rest)
         /\ accBar' = NoValue /\ StayBars
         /\ f.node = Top.node /\ f.pc = pc
<1>1. IsFrame(Top)
  BY HereFacts DEF Here
<1>2. PICK place, m : place = Top.place /\ m = Kid(i)
  OBVIOUS
<1>3. frames' = Append(Below, Going(pc, place)) \o <<Frame(m, 0)>>
  BY <1>1, <1>2, VisitIs
<1>4. m.kind # "Enter"
  BY <1>2, KidKind
<1>5. ~OwnsScope(Going(pc, place)) /\ f.node = Top.node /\ f.pc = pc
  BY <1>2 DEF OwnsScope, Going
<1>6. PICK o : o = <<>>
  OBVIOUS
<1>7. /\ agendaBar' = <<Task("run", m)>> \o (Todo(program, Going(pc, place), o) \o Rest)
      /\ accBar' = NoValue /\ StayBars
  BY <1>3, <1>4, <1>5, PlainVisit
<1>8. QED BY <1>2, <1>5, <1>6, <1>7

\* A frame with nothing left to do hands its answer on.
LEMMA EmptyStep ==
  ASSUME NEW a, NEW nm, Here(a, nm), IInv', TypesInv', ~IsTransfer(return_value),
         AndOrRight \/ IfDone
  PROVE  UNCHANGED Abstract!vars
<1>1. /\ Top.pc = 2 /\ Top.node.kind \in {"And", "Or", "If"} /\ UNCHANGED <<program, scopes, status>>
      /\ frames' = Below /\ return_value' = return_value
  BY DEF AndOrRight, IfDone, At, Answer
<1>2. agendaBar' = Rest /\ accBar' = AccOf(Rest, return_value'.v) /\ StayBars
  BY <1>1, PlainAnswer
<1>3. /\ agendaBar = Todo(program, Top, Outer(frames, scopes, Len(frames))) \o Rest
      /\ accBar = AccOf(agendaBar, return_value.v)
  BY QuietBars
<1>4. \A o : Todo(program, Top, o) = <<>>
  BY <1>1, TodoIs
<1>5. agendaBar = Rest
  BY <1>3, <1>4, HereShaped, NoneBefore
<1>6. accBar = accBar'
  BY <1>1, <1>2, <1>3, <1>5
<1>7. QED BY <1>1, <1>2, <1>5, <1>6 DEF StayBars, Abstract!vars

\* The left side decides, or the right side does.
LEMMA DecideStep ==
  ASSUME NEW a, NEW nm, Here(a, nm), IInv', TypesInv', ~IsTransfer(return_value), AndOrDecide
  PROVE  program' = program /\ Abstract!ShortCircuit
<1>1. Top.pc = 1 /\ Top.node.kind \in {"And", "Or"} /\ UNCHANGED <<program, scopes, status>>
  BY DEF AndOrDecide, At
<1>2. /\ Tail(agendaBar) = Rest /\ Abstract!Node = Top.node
      /\ Abstract!DueAt(Top.node.kind, "use") /\ accBar = return_value.v
  BY <1>1, UseHead DEF Heads
<1>3. Abstract!DueAt("And", "use") \/ Abstract!DueAt("Or", "use")
  BY <1>1, <1>2
<1>4. PICK c : c <=> (return_value.v = (Top.node.kind = "And"))
  BY Zenon
<1>5. c <=> (accBar = (Abstract!Node.kind = "And"))
  BY <1>2, <1>4, Zenon
<1>6. CASE c
  <2>1. Visit(2, Kid(2)) /\ return_value' = None
    BY <1>4, <1>6, Zenon DEF AndOrDecide
  <2>2. ~IsTransfer(return_value')
    BY <2>1 DEF None, IsTransfer
  <2>3. 2 \in 1..Len(Top.node.kids) /\ 2 \in Nat
    <3>1. program \in Programs /\ <<Top.node, a[Len(frames)], nm[Len(frames)]>> \in Nodes[program]
      BY <1>1, HereFacts DEF Here
    <3>2. Len(Top.node.kids) = 2
      BY <1>1, <3>1, ArityFacts
    <3>3. QED BY <3>2
  <2>4. PICK f : f = Going(2, Top.place)
    OBVIOUS
  <2>5. /\ agendaBar' = <<Task("run", Kid(2))>> \o (Todo(program, f, <<>>) \o Rest)
        /\ accBar' = NoValue /\ StayBars
        /\ f.node = Top.node /\ f.pc = 2
    BY <1>1, <2>1, <2>2, <2>3, <2>4, PartVisit
  <2>6. Todo(program, f, <<>>) = <<>>
    <3>1. f.node.kind \in {"And", "Or", "If"} /\ f.pc = 2
      BY <1>1, <2>5
    <3>2. \A o : Todo(program, f, o) = <<>>
      BY <3>1, TodoIs
    <3>3. QED BY <3>2
  <2>7. <<>> \o Rest = Rest
    BY HereShaped, NoneBefore
  <2>8. agendaBar' = <<Task("run", Kid(2))>> \o Rest
    BY <2>5, <2>6, <2>7
  <2>9. Task("run", Kid(2)) = Abstract!Run(Abstract!Node.kids[2])
    BY <1>2 DEF Task, Abstract!Run, Kid
  <2>10. Abstract!Proceed(<<Abstract!Run(Abstract!Node.kids[2])>> \o Tail(agendaBar))
    BY <1>2, <2>5, <2>8, <2>9 DEF Abstract!Proceed
  <2>11. QED BY <1>1, <1>3, <1>5, <1>6, <2>5, <2>10 DEF Abstract!ShortCircuit, StayBars, Abstract!Stay
<1>7. CASE ~c
  <2>1. Answer(return_value)
    BY <1>4, <1>7, Zenon DEF AndOrDecide
  <2>2. frames' = Below /\ return_value' = return_value
    BY <2>1 DEF Answer
  <2>3. agendaBar' = Rest /\ accBar' = AccOf(Rest, return_value'.v) /\ StayBars
    BY <1>1, <2>2, PlainAnswer
  <2>4. accBar' = AccOf(Rest, accBar)
    BY <1>2, <2>2, <2>3
  <2>5. Abstract!Deliver(Tail(agendaBar), accBar)
    BY <1>2, <2>3, <2>4, Zenon DEF Abstract!Deliver, AccOf
  <2>6. QED BY <1>1, <1>3, <1>5, <1>7, <2>3, <2>5 DEF Abstract!ShortCircuit, StayBars, Abstract!Stay
<1>8. QED BY <1>6, <1>7

\* The condition chooses an arm.
LEMMA ArmStep ==
  ASSUME NEW a, NEW nm, Here(a, nm), IInv', TypesInv', ~IsTransfer(return_value), IfArm
  PROVE  program' = program /\ Abstract!Choose
<1>1. Top.pc = 1 /\ Top.node.kind = "If" /\ UNCHANGED <<program, scopes, status>>
  BY DEF IfArm, At
<1>2. /\ Tail(agendaBar) = Rest /\ Abstract!Node = Top.node
      /\ Abstract!DueAt("If", "use") /\ accBar = return_value.v
  BY <1>1, UseHead DEF Heads
<1>3. PICK arm : arm = IF return_value.v THEN 2 ELSE 3
  OBVIOUS
<1>4. arm = IF accBar THEN 2 ELSE 3
  BY <1>2, <1>3
<1>5. Len(Top.node.kids) \in Nat /\ DOMAIN Top.node.kids = 1..Len(Top.node.kids)
  <2>1. program \in Programs /\ <<Top.node, a[Len(frames)], nm[Len(frames)]>> \in Nodes[program]
    BY <1>1, HereFacts DEF Here
  <2>2. QED BY <2>1, NodeFacts
<1>6. CASE arm \in DOMAIN Top.node.kids
  <2>1. Visit(2, Kid(arm)) /\ return_value' = None
    BY <1>3, <1>6 DEF IfArm
  <2>2. ~IsTransfer(return_value')
    BY <2>1 DEF None, IsTransfer
  <2>3. arm \in 1..Len(Top.node.kids) /\ 2 \in Nat
    BY <1>5, <1>6
  <2>4. PICK f : f = Going(2, Top.place)
    OBVIOUS
  <2>5. /\ agendaBar' = <<Task("run", Kid(arm))>> \o (Todo(program, f, <<>>) \o Rest)
        /\ accBar' = NoValue /\ StayBars
        /\ f.node = Top.node /\ f.pc = 2
    BY <1>1, <2>1, <2>2, <2>3, <2>4, PartVisit
  <2>6. Todo(program, f, <<>>) = <<>>
    <3>1. f.node.kind \in {"And", "Or", "If"} /\ f.pc = 2
      BY <1>1, <2>5
    <3>2. \A o : Todo(program, f, o) = <<>>
      BY <3>1, TodoIs
    <3>3. QED BY <3>2
  <2>7. <<>> \o Rest = Rest
    BY HereShaped, NoneBefore
  <2>8. agendaBar' = <<Task("run", Kid(arm))>> \o Rest
    BY <2>5, <2>6, <2>7
  <2>9. Task("run", Kid(arm)) = Abstract!Run(Abstract!Node.kids[arm])
    BY <1>2 DEF Task, Abstract!Run, Kid
  <2>10. Abstract!Proceed((IF arm \in DOMAIN Abstract!Node.kids
                           THEN <<Abstract!Run(Abstract!Node.kids[arm])>> ELSE <<>>)
                          \o Tail(agendaBar))
    BY <1>2, <1>6, <2>5, <2>8, <2>9 DEF Abstract!Proceed
  <2>11. QED BY <1>1, <1>2, <1>4, <2>5, <2>10 DEF Abstract!Choose, StayBars, Abstract!Stay
<1>7. CASE arm \notin DOMAIN Top.node.kids
  <2>1. Answer(None)
    BY <1>3, <1>7 DEF IfArm
  <2>2. frames' = Below /\ return_value'.v = NoValue /\ ~IsTransfer(return_value')
    BY <2>1 DEF Answer, None, IsTransfer
  <2>3. agendaBar' = Rest /\ accBar' = AccOf(Rest, return_value'.v) /\ StayBars
    BY <1>1, <2>2, PlainAnswer
  <2>4. accBar' = NoValue
    BY <2>2, <2>3 DEF AccOf
  <2>5. <<>> \o Rest = Rest
    BY HereShaped, NoneBefore
  <2>6. Abstract!Proceed((IF arm \in DOMAIN Abstract!Node.kids
                           THEN <<Abstract!Run(Abstract!Node.kids[arm])>> ELSE <<>>)
                          \o Tail(agendaBar))
    BY <1>2, <1>7, <2>3, <2>4, <2>5 DEF Abstract!Proceed
  <2>7. QED BY <1>1, <1>2, <1>4, <2>3, <2>6 DEF Abstract!Choose, StayBars, Abstract!Stay
<1>8. QED BY <1>6, <1>7

\* A loop's test, in front of what is left to do.
TestThen(n, b) == Abstract!Test(n) \o b
UseThenLoop(n) == <<Task("use", n)>> \o <<Task("loop", n)>>
Tests(n, m, b, u) == m = n.kids[1] /\ u = UseThenLoop(n) \o b

LEMMA TestFirst ==
  ASSUME NEW n, NEW b, IsSeq(b), NEW m, NEW u, Tests(n, m, b, u)
  PROVE  <<Task("run", m)>> \o u = TestThen(n, b)
<1> DEFINE x == Task("run", m)
           y == Task("use", n)
           z == Task("loop", n)
<1>1. x = Abstract!Run(n.kids[1]) /\ y = Abstract!Use(n) /\ z = Abstract!Loop(n)
  BY DEF Tests, Task, Abstract!Run, Abstract!Use, Abstract!Loop
<1>2. PICK t : t = UseThenLoop(n) /\ u = t \o b
  BY DEF Tests
<1>a. t = <<y>> \o <<z>>
  BY <1>2 DEF UseThenLoop
<1> HIDE DEF x, y, z
<1>3. IsSeq(<<x>>) /\ IsSeq(<<y>>) /\ IsSeq(<<z>>)
  BY OneFacts
<1>4. IsSeq(<<y>> \o <<z>>)
  BY <1>3, ConcatFacts
<1>5. IsSeq(t)
  BY <1>a, <1>4
<1>6. (<<x>> \o t) \o b = <<x>> \o (t \o b)
  BY <1>3, <1>5, ConcatAssoc
<1>7. <<x>> \o t = <<x, y, z>>
  <2>1. <<y>> \o <<z>> = <<y, z>>
    BY TwoFacts
  <2>2. t = <<y, z>>
    BY <1>a, <2>1
  <2>a. Len(t) = 2 /\ t[1] = y /\ t[2] = z
    BY <2>2
  <2>b. PICK r : r = <<x>> \o t
    OBVIOUS
  <2>3. IsSeq(r) /\ Len(r) = Len(t) + 1 /\ r[1] = x /\ \A i \in 1..Len(t) : r[i + 1] = t[i]
    BY <1>5, <2>b, ConsFacts
  <2>4. IsSeq(<<x, y, z>>) /\ Len(<<x, y, z>>) = 3
    BY DEF IsSeq
  <2>5. Len(r) = 3 /\ r[2] = y /\ r[3] = z
    <3>1. 1 \in 1..Len(t) /\ 2 \in 1..Len(t) /\ 1 + 1 = 2 /\ 2 + 1 = 3
      BY <2>a
    <3>2. QED BY <2>a, <2>3, <3>1
  <2>6. \A i \in 1..3 : r[i] = <<x, y, z>>[i]
    BY <2>3, <2>5
  <2>7. r = <<x, y, z>>
    BY <2>3, <2>4, <2>5, <2>6, SameSeq
  <2>8. QED BY <2>b, <2>7
<1>8. TestThen(n, b) = <<x, y, z>> \o b
  BY <1>1 DEF TestThen, Abstract!Test
<1>9. <<x>> \o u = TestThen(n, b)
  BY <1>2, <1>6, <1>7, <1>8
<1>10. QED BY <1>9 DEF x

\* A loop goes on to its test.
LEMMA TestVisit ==
  ASSUME NEW a, NEW nm, Here(a, nm), IInv', TypesInv', UNCHANGED <<program, scopes, status>>,
         ~IsTransfer(return_value'), Top.node.kind = "While", Visit(1, Kid(1))
  PROVE  /\ agendaBar' = TestThen(Top.node, Rest) /\ accBar' = NoValue
         /\ envBar' = SeenIn(scopes)[Len(scopes)]
         /\ storeBar' = StoreOf(scopes, Len(scopes))
         /\ statusBar' = "running"
<1>1. IsFrame(Top) /\ program \in Programs /\ status = "running"
      /\ <<Top.node, a[Len(frames)], nm[Len(frames)]>> \in Nodes[program]
  BY HereFacts DEF Here
<1>2. 1 \in 1..Len(Top.node.kids) /\ 1 \in Nat
  <2>1. Len(Top.node.kids) = 2
    BY <1>1, ArityFacts
  <2>2. QED BY <2>1
<1>3. PICK place, m, f, n : place = Top.place /\ m = Kid(1) /\ f = Going(1, place) /\ n = Top.node
  OBVIOUS
<1>4. frames' = Append(Below, Going(1, place)) \o <<Frame(m, 0)>>
  BY <1>1, <1>3, VisitIs
<1>5. m.kind # "Enter"
  BY <1>2, <1>3, KidKind
<1>6. ~OwnsScope(Going(1, place)) /\ f.node = n /\ f.pc = 1
  BY <1>3 DEF OwnsScope, Going
<1>7. status' = "running" /\ program' = program /\ scopes' = scopes
  BY <1>1
<1>8. Steady(Depth(frames, Len(frames) - 1) - 1)
  BY <1>7 DEF Steady
<1>9. PICK o : o = <<>>
  OBVIOUS
<1>10. /\ agendaBar' = <<Task("run", m)>> \o (Todo(program, Going(1, place), o) \o Rest)
       /\ accBar' = NoValue
       /\ envBar' = SeenIn(scopes')[Len(scopes')]
       /\ storeBar' = StoreOf(scopes', Len(scopes'))
       /\ statusBar' = "running"
  BY <1>2, <1>4, <1>5, <1>6, <1>7, <1>8, VisitBars
<1>11. \A q : Todo(program, f, q) = <<Task("use", n)>> \o <<Task("loop", n)>>
  <2>1. f.node.kind = "While" /\ f.pc = 1
    BY <1>3, <1>6
  <2>2. \A q : Todo(program, f, q) = <<Task("use", f.node)>> \o <<Task("loop", f.node)>>
    BY <2>1, TodoIs
  <2>3. QED BY <1>6, <2>2
<1>12. PICK t, b, u : t = Todo(program, Going(1, place), o) /\ b = Rest /\ u = t \o b
  OBVIOUS
<1>13. t = UseThenLoop(n)
  BY <1>3, <1>11, <1>12 DEF UseThenLoop
<1>a. Tests(n, m, b, u)
  BY <1>3, <1>12, <1>13 DEF Tests, Kid
<1>14. IsSeq(b)
  BY <1>12, HereShaped
<1>16. <<Task("run", m)>> \o u = TestThen(n, b)
  BY <1>14, <1>a, TestFirst
<1>17. agendaBar' = TestThen(Top.node, Rest)
  BY <1>3, <1>10, <1>12, <1>16
<1>18. QED BY <1>7, <1>10, <1>17

\* A loop begins.
LEMMA WhileStep ==
  ASSUME NEW a, NEW nm, Here(a, nm), IInv', TypesInv', ~IsTransfer(return_value), While
  PROVE  program' = program /\ Abstract!StartLoop
<1>1. /\ Top.pc = 0 /\ Top.node.kind = "While" /\ UNCHANGED <<program, return_value, scopes, status>>
      /\ Visit(1, Kid(1))
  BY DEF While, At
<1>2. /\ agendaBar' = TestThen(Top.node, Rest) /\ accBar' = NoValue
      /\ envBar' = SeenIn(scopes)[Len(scopes)]
      /\ storeBar' = StoreOf(scopes, Len(scopes))
      /\ statusBar' = "running"
  BY <1>1, TestVisit
<1>3. /\ Tail(agendaBar) = Rest /\ Abstract!Node = Top.node /\ Abstract!DueAt("While", "run")
      /\ statusBar = "running"
  BY <1>1, RunHead DEF Heads
<1>4. envBar = SeenIn(scopes)[Len(scopes)] /\ storeBar = StoreOf(scopes, Len(scopes))
  BY QuietBars
<1>5. Abstract!Proceed(Abstract!Test(Abstract!Node) \o Tail(agendaBar))
  BY <1>2, <1>3 DEF Abstract!Proceed, TestThen
<1>6. QED BY <1>1, <1>2, <1>3, <1>4, <1>5 DEF Abstract!StartLoop, Abstract!Stay

\* A loop's body ends or continues: the test is next.
LEMMA AgainHead ==
  ASSUME NEW a, NEW nm, Here(a, nm), Calm, Top.node.kind = "While", Top.pc = 2,
         return_value.is \notin {"break", "return"}
  PROVE  /\ Heads(Task("loop", Top.node), Rest)
         /\ envBar = SeenIn(scopes)[Len(scopes)]
         /\ storeBar = StoreOf(scopes, Len(scopes))
         /\ statusBar = "running"
<1>1. CASE ~IsTransfer(return_value)
  <2>1. /\ agendaBar = Todo(program, Top, Outer(frames, scopes, Len(frames))) \o Rest
        /\ envBar = SeenIn(scopes)[Len(scopes)]
        /\ storeBar = StoreOf(scopes, Len(scopes))
        /\ statusBar = "running"
    BY <1>1, QuietBars
  <2>2. \A o : Todo(program, Top, o) = <<Task("loop", Top.node)>>
    BY TodoIs
  <2>3. agendaBar = <<Task("loop", Top.node)>> \o Rest
    BY <2>1, <2>2
  <2>4. QED BY <2>1, <2>3, HereShaped, HeadIs
<1>2. CASE IsTransfer(return_value)
  <2>1. PICK l : l = Len(frames)
    OBVIOUS
  <2>2. /\ l \in Nat /\ l # 0 /\ Len(scopes) = Depth(frames, l - 1) + One(Top)
        /\ Depth(frames, l - 1) \in Nat /\ DOMAIN frames = 1..l /\ Top = frames[l]
    <3>1. StackOK(frames)
      BY HereFacts DEF Here
    <3>2. DOMAIN frames = 1..Len(frames)
      BY <3>1, SeqFacts DEF StackOK
    <3>3. QED BY <2>1, <3>2, HereDepth DEF Top
  <2>3. return_value.is = "continue"
    BY <1>2, TransferNow
  <2>4. l \in 1..l
    BY <2>2
  <2>5. LoopsAt(frames, l, l)
    BY <2>2 DEF LoopsAt
  <2>6. Taking(frames, return_value, l)
    BY <2>1, <2>2, <2>3, <2>4, <2>5, LoopTakes
  <2>7. /\ agendaBar = Resumes(return_value, l)
        /\ envBar = SeenIn(scopes)[Depth(frames, l - 1)]
        /\ storeBar = StoreOf(scopes, Depth(frames, l - 1))
        /\ statusBar = "running"
    BY <1>2, <2>1, <2>4, <2>6, TransferBars
  <2>8. agendaBar = <<Task("loop", Top.node)>> \o Rest
    BY <2>1, <2>2, <2>3, <2>7 DEF Resumes, Rest
  <2>9. One(Top) = 0
    BY DEF One, OwnsScope
  <2>10. Len(scopes) = Depth(frames, l - 1)
    BY <2>2, <2>9
  <2>11. QED BY <2>7, <2>8, <2>10, HereShaped, HeadIs
<1>3. QED BY <1>1, <1>2

LEMMA AgainStep ==
  ASSUME NEW a, NEW nm, Here(a, nm), Calm, IInv', TypesInv', WhileBody, ~WhileEnds
  PROVE  program' = program /\ Abstract!LoopAgain
<1>1. /\ Top.pc = 2 /\ Top.node.kind = "While" /\ UNCHANGED <<program, scopes, status>>
      /\ Visit(1, Kid(1)) /\ return_value' = None
  BY DEF WhileBody, At
<1>2. ~IsTransfer(return_value') /\ return_value.is \notin {"break", "return"}
  BY <1>1 DEF None, IsTransfer, WhileEnds
<1>3. /\ agendaBar' = TestThen(Top.node, Rest) /\ accBar' = NoValue
      /\ envBar' = SeenIn(scopes)[Len(scopes)]
      /\ storeBar' = StoreOf(scopes, Len(scopes))
      /\ statusBar' = "running"
  BY <1>1, <1>2, TestVisit
<1>4. /\ Heads(Task("loop", Top.node), Rest)
      /\ envBar = SeenIn(scopes)[Len(scopes)]
      /\ storeBar = StoreOf(scopes, Len(scopes))
      /\ statusBar = "running"
  BY <1>1, <1>2, AgainHead
<1>5. agendaBar[1].task = "loop" /\ agendaBar[1].node = Top.node /\ Tail(agendaBar) = Rest
  BY <1>4 DEF Heads, Task
<1>6. Abstract!Node = Top.node /\ Abstract!Due("loop")
  BY <1>4, <1>5 DEF Abstract!Node, Abstract!Due
<1>7. Abstract!Proceed(Abstract!Test(Abstract!Node) \o Tail(agendaBar))
  BY <1>3, <1>5, <1>6 DEF Abstract!Proceed, TestThen
<1>8. QED BY <1>1, <1>3, <1>4, <1>6, <1>7 DEF Abstract!LoopAgain, Abstract!Stay

\* A loop's condition decides.
LEMMA TestStep ==
  ASSUME NEW a, NEW nm, Here(a, nm), IInv', TypesInv', ~IsTransfer(return_value), WhileTest
  PROVE  program' = program /\ Abstract!LoopOn
<1>1. Top.pc = 1 /\ Top.node.kind = "While" /\ UNCHANGED <<program, scopes, status>>
  BY DEF WhileTest, At
<1>2. PICK n, b, x, y : n = Top.node /\ b = Rest /\ x = Task("use", n) /\ y = Task("loop", n)
  OBVIOUS
<1>3. IsSeq(b) /\ IsSeq(<<y>>) /\ IsSeq(<<x>>)
  BY <1>2, HereShaped, OneFacts
<1>4. PICK c : c = <<y>> \o b
  OBVIOUS
<1>5. IsSeq(c) /\ Tail(c) = b
  BY <1>3, <1>4, ConsFacts
<1>6. /\ agendaBar = Todo(program, Top, Outer(frames, scopes, Len(frames))) \o Rest
      /\ accBar = AccOf(agendaBar, return_value.v) /\ statusBar = "running"
  BY QuietBars
<1>7. \A o : Todo(program, Top, o) = <<Task("use", Top.node)>> \o <<Task("loop", Top.node)>>
  BY <1>1, TodoIs
<1>8. agendaBar = (<<x>> \o <<y>>) \o b
  BY <1>2, <1>6, <1>7
<1>9. agendaBar = <<x>> \o c
  BY <1>3, <1>4, <1>8, ConcatAssoc
<1>10. Heads(x, c)
  BY <1>5, <1>9, HeadIs
<1>11. x.task = "use" /\ x.node = Top.node
  BY <1>2 DEF Task
<1>12. /\ Tail(agendaBar) = c /\ Abstract!Node = Top.node
       /\ Abstract!DueAt("While", "use") /\ accBar = return_value.v
  BY <1>1, <1>6, <1>10, <1>11 DEF Heads, Abstract!Node, Abstract!DueAt, Abstract!Due, AccOf
<1>13. CASE return_value.v
  <2>1. Visit(2, Kid(2)) /\ return_value' = None
    BY <1>13 DEF WhileTest
  <2>2. ~IsTransfer(return_value')
    BY <2>1 DEF None, IsTransfer
  <2>3. 2 \in 1..Len(Top.node.kids) /\ 2 \in Nat
    <3>1. program \in Programs /\ <<Top.node, a[Len(frames)], nm[Len(frames)]>> \in Nodes[program]
      BY <1>1, HereFacts DEF Here
    <3>2. Len(Top.node.kids) = 2
      BY <1>1, <3>1, ArityFacts
    <3>3. QED BY <3>2
  <2>4. PICK f : f = Going(2, Top.place)
    OBVIOUS
  <2>5. /\ agendaBar' = <<Task("run", Kid(2))>> \o (Todo(program, f, <<>>) \o Rest)
        /\ accBar' = NoValue /\ StayBars
        /\ f.node = Top.node /\ f.pc = 2
    BY <1>1, <2>1, <2>2, <2>3, <2>4, PartVisit
  <2>6. Todo(program, f, <<>>) = <<y>>
    <3>1. f.node.kind = "While" /\ f.pc = 2
      BY <1>1, <2>5
    <3>2. \A o : Todo(program, f, o) = <<Task("loop", f.node)>>
      BY <3>1, TodoIs
    <3>3. QED BY <1>2, <2>5, <3>2
  <2>7. agendaBar' = <<Task("run", Kid(2))>> \o c
    BY <1>2, <1>4, <2>5, <2>6
  <2>8. Task("run", Kid(2)) = Abstract!Run(Abstract!Node.kids[2])
    BY <1>12 DEF Task, Abstract!Run, Kid
  <2>9. Abstract!Proceed(IF accBar THEN <<Abstract!Run(Abstract!Node.kids[2])>> \o Tail(agendaBar)
                                   ELSE Tail(Tail(agendaBar)))
    BY <1>12, <1>13, <2>5, <2>7, <2>8 DEF Abstract!Proceed
  <2>10. QED BY <1>1, <1>12, <2>5, <2>9 DEF Abstract!LoopOn, StayBars, Abstract!Stay
<1>14. CASE ~return_value.v
  <2>1. Answer(None)
    BY <1>14 DEF WhileTest
  <2>2. frames' = Below /\ return_value'.v = NoValue /\ ~IsTransfer(return_value')
    BY <2>1 DEF Answer, None, IsTransfer
  <2>3. agendaBar' = Rest /\ accBar' = AccOf(Rest, return_value'.v) /\ StayBars
    BY <1>1, <2>2, PlainAnswer
  <2>4. accBar' = NoValue
    BY <2>2, <2>3 DEF AccOf
  <2>5. Abstract!Proceed(IF accBar THEN <<Abstract!Run(Abstract!Node.kids[2])>> \o Tail(agendaBar)
                                   ELSE Tail(Tail(agendaBar)))
    BY <1>2, <1>5, <1>12, <1>14, <2>3, <2>4 DEF Abstract!Proceed
  <2>6. QED BY <1>1, <1>12, <2>3, <2>5 DEF Abstract!LoopOn, StayBars, Abstract!Stay
<1>15. QED BY <1>13, <1>14

\* Visits, the task after them and what is left to do.
ListOf(ns, k, x, b) == (Runs(ns, k) \o <<x>>) \o b
RunBefore(n, b) == <<Task("run", n)>> \o b

LEMMA ListNext ==
  ASSUME NEW ns, Len(ns) \in Nat, NEW k \in 0..Len(ns), k # Len(ns), NEW x, NEW b, IsSeq(b)
  PROVE  /\ ListOf(ns, k, x, b) = RunBefore(ns[k + 1], ListOf(ns, k + 1, x, b))
         /\ \A v : AccOf(ListOf(ns, k, x, b), v) = NoValue
<1> DEFINE y == Task("run", ns[k + 1])
           t == Runs(ns, k + 1)
<1>1. k + 1 \in 0..Len(ns)
  OBVIOUS
<1>2. IsSeq(t)
  BY <1>1, RunsFacts
<1>3. Runs(ns, k) = <<y>> \o t
  BY RunsNext
<1>4. y.task = "run"
  BY DEF Task
<1> HIDE DEF t, y
<1>5. IsSeq(<<x>>) /\ IsSeq(<<y>>)
  BY OneFacts
<1>6. IsSeq(t \o <<x>>)
  BY <1>2, <1>5, ConcatFacts
<1>7. (<<y>> \o t) \o <<x>> = <<y>> \o (t \o <<x>>)
  BY <1>2, <1>5, ConcatAssoc
<1>8. (<<y>> \o (t \o <<x>>)) \o b = <<y>> \o ((t \o <<x>>) \o b)
  BY <1>5, <1>6, ConcatAssoc
<1>9. ListOf(ns, k, x, b) = <<y>> \o ((t \o <<x>>) \o b)
  BY <1>3, <1>7, <1>8 DEF ListOf
<1>10. IsSeq((t \o <<x>>) \o b)
  BY <1>6, ConcatFacts
<1>11. (<<y>> \o ((t \o <<x>>) \o b))[1] = y
  BY <1>10, ConsFacts
<1>12. \A v : AccOf(ListOf(ns, k, x, b), v) = NoValue
  BY <1>4, <1>9, <1>11 DEF AccOf
<1>13. ListOf(ns, k + 1, x, b) = (t \o <<x>>) \o b
  BY DEF ListOf, t
<1>14. <<y>> \o ((t \o <<x>>) \o b) = RunBefore(ns[k + 1], (t \o <<x>>) \o b)
  BY DEF RunBefore, y
<1>15. QED BY <1>9, <1>12, <1>13, <1>14

\* enter and a block go on to their next part: the structured program has it
\* next already.
LEMMA ListStep ==
  ASSUME NEW a, NEW nm, Here(a, nm), IInv', TypesInv', ~IsTransfer(return_value),
         EnterNext \/ BlockNext
  PROVE  UNCHANGED Abstract!vars
<1>1. PICK l, k, pc, ns : /\ l = Len(frames) /\ ns = Top.node.kids /\ pc = Top.pc + 1
                          /\ k = IF Top.node.kind = "Enter" THEN Top.pc ELSE Top.pc - 1
  OBVIOUS
<1>2. /\ IsFrame(Top) /\ PcOK(Top) /\ program \in Programs /\ Top.pc \in Nat
  BY HereFacts DEF Here, IsFrame
<1>3. Len(ns) \in Nat
  <2>1. FrameOK(Top)
    <3>1. Shaped(frames) /\ Len(frames) \in 1..Len(frames)
      BY HereShaped, HereDepth
    <3>2. QED BY <3>1 DEF Shaped, Top
  <2>2. QED BY <1>1, <2>1 DEF FrameOK
<1>4. /\ UNCHANGED <<program, scopes, status>>
      /\ Top.node.kind \in {"Enter", "Block"}
      /\ Top.node.kind = "Block" => Top.pc > 0
      /\ k \in 0..Len(ns) /\ k # Len(ns) /\ pc \in Nat /\ pc > 0
      /\ Visit(pc, Kid(k + 1))
      /\ ~IsTransfer(return_value')
  <2>1. CASE EnterNext
    <3>1. /\ UNCHANGED <<program, return_value, scopes, status>> /\ Top.node.kind = "Enter"
          /\ Top.pc < Len(Top.node.kids) /\ Visit(Top.pc + 1, Kid(Top.pc + 1))
      BY <2>1 DEF EnterNext
    <3>2. k = Top.pc
      BY <1>1, <3>1
    <3>3. QED BY <1>1, <1>2, <1>3, <3>1, <3>2
  <2>2. CASE BlockNext
    <3>1. /\ UNCHANGED <<program, scopes, status>> /\ Top.node.kind = "Block" /\ return_value' = None
          /\ Top.pc > 0 /\ ~(Top.pc > Len(Top.node.kids)) /\ Visit(Top.pc + 1, Kid(Top.pc))
      BY <2>2 DEF BlockNext, BlockEnds, InBlock
    <3>2. k = Top.pc - 1 /\ k + 1 = Top.pc
      BY <1>1, <1>2, <3>1
    <3>3. ~IsTransfer(return_value')
      BY <3>1 DEF None, IsTransfer
    <3>4. k \in 0..Len(ns) /\ k # Len(ns) /\ pc \in Nat /\ pc > 0
      BY <1>1, <1>2, <1>3, <3>1, <3>2
    <3>5. QED BY <1>1, <3>1, <3>2, <3>3, <3>4
  <2>3. QED BY <2>1, <2>2
<1>5. PICK o : o = Outer(frames, scopes, l)
  OBVIOUS
<1>6. /\ agendaBar = Todo(program, Top, o) \o Rest
      /\ accBar = AccOf(agendaBar, return_value.v)
      /\ OwnsScope(Top) => o = SeenIn(scopes)[Depth(frames, l - 1)]
  BY <1>1, <1>5, QuietBars
<1>7. PICK place, m, f : place = Top.place /\ m = Kid(k + 1) /\ f = Going(pc, place)
  OBVIOUS
<1>8. frames' = Append(Below, Going(pc, place)) \o <<Frame(m, 0)>>
  BY <1>2, <1>4, <1>7, VisitIs
<1>9. m.kind # "Enter"
  <2>1. PICK i : i = k + 1 /\ i \in 1..Len(Top.node.kids)
    BY <1>1, <1>3, <1>4
  <2>2. Kid(i).kind # "Enter"
    BY <2>1, KidKind
  <2>3. QED BY <1>7, <2>1, <2>2
<1>10. f.node = Top.node /\ f.pc = pc /\ OwnsScope(Going(pc, place)) => OwnsScope(Top)
  BY <1>4, <1>7 DEF Going, OwnsScope
<1>11. OwnsScope(Going(pc, place)) => o = SeenIn(scopes)[Depth(frames, Len(frames) - 1)]
  BY <1>1, <1>4, <1>6, <1>7 DEF Going, OwnsScope
<1>12. /\ agendaBar' = <<Task("run", m)>> \o (Todo(program, Going(pc, place), o) \o Rest)
       /\ accBar' = NoValue /\ StayBars
  BY <1>4, <1>8, <1>9, <1>11, PlainVisit
<1>13. PICK x : x = IF Top.node.kind = "Enter" THEN ExitTask ELSE LeaveTo(o)
  OBVIOUS
<1>14. Todo(program, Top, o) = Runs(ns, k) \o <<x>>
  <2>1. CASE Top.node.kind = "Enter"
    BY <1>1, <1>13, <2>1, TodoIs
  <2>2. CASE Top.node.kind = "Block"
    <3>1. Top.pc > 0 /\ Top.pc # 0
      BY <1>2, <1>4, <2>2
    <3>2. Todo(program, Top, o) = Runs(Top.node.kids, Top.pc - 1) \o <<LeaveTo(o)>>
      BY <2>2, <3>1, TodoIs
    <3>3. QED BY <1>1, <1>13, <2>2, <3>2
  <2>3. QED BY <1>4, <2>1, <2>2
<1>15. Todo(program, f, o) = Runs(ns, k + 1) \o <<x>>
  <2>1. f.node = Top.node /\ f.pc = pc
    BY <1>7 DEF Going
  <2>2. CASE Top.node.kind = "Enter"
    <3>3. f.node.kind = "Enter"
      BY <2>1, <2>2
    <3>1. Todo(program, f, o) = Runs(f.node.kids, f.pc) \o <<ExitTask>>
      BY <3>3, TodoIs
    <3>2. f.pc = k + 1
      BY <1>1, <2>1, <2>2
    <3>4. QED BY <1>1, <1>13, <2>1, <2>2, <3>1, <3>2
  <2>3. CASE Top.node.kind = "Block"
    <3>1. f.pc > 0 /\ f.pc # 0 /\ f.pc - 1 = k + 1
      BY <1>1, <1>2, <1>4, <2>1, <2>3
    <3>2. Todo(program, f, o) = Runs(f.node.kids, f.pc - 1) \o <<LeaveTo(o)>>
      BY <2>1, <2>3, <3>1, TodoIs
    <3>3. QED BY <1>1, <1>13, <2>1, <2>3, <3>1, <3>2
  <2>4. QED BY <1>4, <2>2, <2>3
<1>16. PICK b : b = Rest
  OBVIOUS
<1>17. IsSeq(b)
  BY <1>16, HereShaped
<1>18. /\ ListOf(ns, k, x, b) = RunBefore(ns[k + 1], ListOf(ns, k + 1, x, b))
       /\ \A v : AccOf(ListOf(ns, k, x, b), v) = NoValue
  BY <1>3, <1>4, <1>17, ListNext
<1>19. agendaBar = ListOf(ns, k, x, b)
  BY <1>6, <1>14, <1>16 DEF ListOf
<1>20. m = ns[k + 1]
  BY <1>1, <1>7 DEF Kid
<1>21. agendaBar' = RunBefore(ns[k + 1], ListOf(ns, k + 1, x, b))
  BY <1>7, <1>12, <1>15, <1>16, <1>20 DEF ListOf, RunBefore
<1>22. accBar = accBar'
  BY <1>6, <1>12, <1>18, <1>19
<1>23. QED BY <1>4, <1>12, <1>18, <1>19, <1>21, <1>22 DEF StayBars, Abstract!vars

---------------------------------------------------------------------------
(* The steps that change the contexts.                                     *)

\* The structured program is as deep, and in as many calls.
LEMMA AgendaCounts ==
  ASSUME NEW a, NEW nm, Here(a, nm), ~IsTransfer(return_value)
  PROVE  /\ Abstract!Depth(agendaBar) = Len(scopes)
         /\ Abstract!Calls(agendaBar) = CallsIn(frames, Len(frames))
<1>1. PICK p, fr, s, l : p = program /\ fr = frames /\ s = scopes /\ l = Len(fr)
  OBVIOUS
<1>2. Shaped(fr) /\ l \in Nat
  BY <1>1, HereShaped, HereDepth
<1>3. l \in 0..Len(fr)
  BY <1>1, <1>2
<1>4. Counted(Jobs(p, fr, s)[l], fr, l)
  BY <1>2, <1>3, JobsCounted
<1>5. AgendaIn(p, fr, return_value, s, status) = Jobs(p, fr, s)[l]
  <2>1. PICK r, st : r = return_value /\ st = status
    OBVIOUS
  <2>2. AgendaIn(p, fr, r, s, st) = Jobs(p, fr, s)[Len(fr)]
    BY <1>2, <2>1, QuietIs
  <2>3. QED BY <1>1, <2>1, <2>2
<1>6. agendaBar = Jobs(p, fr, s)[l]
  BY <1>1, <1>5, BarsAre
<1>7. PICK b : b = agendaBar
  OBVIOUS
<1>8. /\ Abstract!Depth(b) = 1 + Cardinality(Marks(b, {"leave", "back"}))
      /\ Abstract!Calls(b) = Cardinality(Marks(b, {"back"}))
  BY CountsAre
<1>9. Abstract!Depth(b) = 1 + Owned(fr, l) /\ Abstract!Calls(b) = CallsIn(fr, l)
  BY <1>4, <1>6, <1>7, <1>8 DEF Counted
<1>10. Len(scopes) = 1 + Owned(fr, l)
  BY <1>1 DEF Here, IInv
<1>11. QED BY <1>1, <1>7, <1>9, <1>10

\* A declaration is made where its frame stands.
LEMMA DeclareStep ==
  ASSUME NEW a, NEW nm, Here(a, nm), IInv', TypesInv', ~IsTransfer(return_value), VarDeclSet
  PROVE  program' = program /\ Abstract!Declare
<1>1. /\ Top.pc = 1 /\ Top.node.kind = "VarDecl" /\ UNCHANGED <<program, status>>
      /\ scopes' = setInfo(scopes, Top.node.name, return_value.v) /\ Answer(None)
  BY DEF VarDeclSet, At
<1>2. /\ Tail(agendaBar) = Rest /\ Abstract!Node = Top.node
      /\ Abstract!DueAt("VarDecl", "use") /\ accBar = return_value.v
  BY <1>1, UseHead DEF Heads
<1>3. PICK s, u, x, v, d : /\ s = scopes /\ u = scopes' /\ x = Top.node.name /\ v = return_value.v
                           /\ d = Len(s)
  OBVIOUS
<1>4. ScopesOK(s) /\ d \in Nat /\ d # 0 /\ status = "running"
  BY <1>3, HereFacts DEF Here
<1>5. ScopesOK(u) /\ status' = "running"
  BY <1>1, <1>3, <1>4, NextShaped
<1>6. u = setInfo(s, x, v)
  BY <1>1, <1>3
<1>7. /\ Len(u) = d
      /\ \A i \in 0..(d - 1) : SeenIn(u)[i] = SeenIn(s)[i]
      /\ SeenIn(u)[d] = Put(SeenIn(s)[d], x, PlaceOf(d, x))
      /\ StoreOf(u, d) = Put(StoreOf(s, d), PlaceOf(d, x), v)
  BY <1>3, <1>4, <1>5, <1>6, SetSees
<1>8. d = Depth(frames, Len(frames) - 1)
  <2>1. One(Top) = 0
    BY <1>1 DEF One, OwnsScope
  <2>2. Len(scopes) = Depth(frames, Len(frames) - 1) + One(Top) /\ Depth(frames, Len(frames) - 1) \in Nat
    BY HereDepth
  <2>3. QED BY <1>3, <2>1, <2>2
<1>9. Steady(Depth(frames, Len(frames) - 1) - 1)
  BY <1>3, <1>7, <1>8 DEF Steady
<1>10. frames' = Below /\ return_value'.v = NoValue /\ ~IsTransfer(return_value')
  BY <1>1 DEF Answer, None, IsTransfer
<1>11. /\ agendaBar' = Rest
       /\ accBar' = AccOf(Rest, return_value'.v)
       /\ envBar' = SeenIn(scopes')[Len(scopes')]
       /\ storeBar' = StoreOf(scopes', Len(scopes'))
       /\ statusBar' = "running"
  BY <1>1, <1>5, <1>9, <1>10, AnswerBars
<1>12. accBar' = NoValue
  BY <1>10, <1>11 DEF AccOf
<1>13. envBar = SeenIn(s)[d] /\ storeBar = StoreOf(s, d) /\ statusBar = "running"
  BY <1>3, QuietBars
<1>14. Abstract!Depth(agendaBar) = d
  BY <1>3, AgendaCounts
<1>15. envBar' = Abstract!Put(envBar, x, <<Abstract!Depth(agendaBar), x>>)
  BY <1>3, <1>7, <1>11, <1>13, <1>14 DEF Put, PlaceOf, Abstract!Put
<1>16. storeBar' = Abstract!Put(storeBar, <<Abstract!Depth(agendaBar), x>>, accBar)
  BY <1>2, <1>3, <1>7, <1>11, <1>13, <1>14 DEF Put, PlaceOf, Abstract!Put
<1>17. Abstract!Bind(Abstract!Node.name, accBar, envBar, agendaBar)
  BY <1>2, <1>3, <1>15, <1>16 DEF Abstract!Bind
<1>18. Abstract!Proceed(Tail(agendaBar))
  BY <1>2, <1>11, <1>12 DEF Abstract!Proceed
<1>19. QED BY <1>1, <1>2, <1>11, <1>13, <1>17, <1>18 DEF Abstract!Declare

\* An assignment writes the variable its name stands for.
LEMMA AssignStep ==
  ASSUME NEW a, NEW nm, Here(a, nm), Apart, IInv', TypesInv', ~IsTransfer(return_value), AssignSet
  PROVE  program' = program /\ Abstract!Assign
<1>1. /\ Top.pc = 1 /\ Top.node.kind = "Assign" /\ UNCHANGED <<program, status>>
      /\ scopes' = [scopes EXCEPT ![Top.place[1]].vals[Top.place[2]] = return_value.v]
      /\ Answer(None)
  BY DEF AssignSet, At
<1>2. /\ Tail(agendaBar) = Rest /\ Abstract!Node = Top.node
      /\ Abstract!DueAt("Assign", "use") /\ accBar = return_value.v
  BY <1>1, UseHead DEF Heads
<1>3. PICK s, u, x, v, d, l : /\ s = scopes /\ u = scopes' /\ x = Top.node.name
                              /\ v = return_value.v /\ d = Len(s) /\ l = Len(frames)
  OBVIOUS
<1>4. /\ ScopesOK(s) /\ d \in Nat /\ d # 0 /\ status = "running" /\ d = Depth(frames, l)
      /\ l \in Nat /\ l # 0
  BY <1>3, HereFacts, HereDepth DEF Here
<1>5. ScopesOK(u) /\ status' = "running"
  BY <1>1, <1>3, <1>4, NextShaped
<1>6. Top.place = getInfo(x)
  <2>1. Placed(frames, scopes)
    BY <1>4 DEF Apart
  <2>2. l \in 1..l /\ frames[l] = Top
    BY <1>3, <1>4 DEF Top
  <2>3. Assigning(frames[l])
    BY <1>1, <2>2 DEF Assigning
  <2>4. frames[l].place = SeenIn(scopes)[Depth(frames, l)][frames[l].node.name]
    BY <1>3, <2>1, <2>2, <2>3 DEF Placed
  <2>5. QED BY <1>3, <1>4, <2>2, <2>4 DEF getInfo, Visible
<1>7. /\ envBar[x] = getInfo(x)
      /\ \E e \in 1..Len(scopes) : getInfo(x) = PlaceOf(e, x) /\ x \in DOMAIN scopes[e].vals
  BY <1>1, <1>3, NameReads
<1>8. PICK e \in 1..d : getInfo(x) = PlaceOf(e, x) /\ x \in DOMAIN s[e].vals
  BY <1>3, <1>7
<1>9. v \in BOOLEAN
  <2>1. "value" \in Asked(program, Top, a[Len(frames)])
    BY <1>1 DEF Asked, AskedOf, IsEvaluated
  <2>2. Top.pc # 0
    BY <1>1
  <2>3. QED BY <1>3, <2>1, <2>2, AskedValue
<1>10. u = Stored(s, e, x, v)
  <2>1. Top.place[1] = e /\ Top.place[2] = x
    BY <1>6, <1>8 DEF PlaceOf
  <2>2. QED BY <1>1, <1>3, <2>1 DEF Stored
<1>11. /\ Len(u) = d
       /\ \A i \in 0..d : SeenIn(u)[i] = SeenIn(s)[i]
       /\ StoreOf(u, d) = Updated(StoreOf(s, d), PlaceOf(e, x), v)
  <2>1. e \in 1..Len(s) /\ x \in DOMAIN s[e].vals
    BY <1>3, <1>8
  <2>2. ScopesOK(s)
    BY <1>4
  <2>3. /\ Len(u) = Len(s)
        /\ \A i \in 0..Len(s) : SeenIn(u)[i] = SeenIn(s)[i]
        /\ StoreOf(u, Len(s)) = Updated(StoreOf(s, Len(s)), PlaceOf(e, x), v)
    BY <1>9, <1>10, <2>1, <2>2, StoredSees
  <2>4. QED BY <1>3, <2>3
<1>12. d = Depth(frames, Len(frames) - 1)
  <2>1. One(Top) = 0
    BY <1>1 DEF One, OwnsScope
  <2>2. Len(scopes) = Depth(frames, Len(frames) - 1) + One(Top) /\ Depth(frames, Len(frames) - 1) \in Nat
    BY HereDepth
  <2>3. QED BY <1>3, <2>1, <2>2
<1>13. Steady(Depth(frames, Len(frames) - 1) - 1)
  BY <1>3, <1>4, <1>11, <1>12 DEF Steady
<1>14. frames' = Below /\ return_value'.v = NoValue /\ ~IsTransfer(return_value')
  BY <1>1 DEF Answer, None, IsTransfer
<1>15. /\ agendaBar' = Rest
       /\ accBar' = AccOf(Rest, return_value'.v)
       /\ envBar' = SeenIn(scopes')[Len(scopes')]
       /\ storeBar' = StoreOf(scopes', Len(scopes'))
       /\ statusBar' = "running"
  BY <1>1, <1>5, <1>13, <1>14, AnswerBars
<1>16. accBar' = NoValue
  BY <1>14, <1>15 DEF AccOf
<1>17. envBar = SeenIn(s)[d] /\ storeBar = StoreOf(s, d) /\ statusBar = "running"
  BY <1>3, QuietBars
<1>18. envBar' = envBar
  <2>1. d \in 0..d
    BY <1>4
  <2>2. QED BY <1>3, <1>11, <1>15, <1>17, <2>1
<1>19. storeBar' = [storeBar EXCEPT ![envBar[Abstract!Node.name]] = accBar]
  <2>1. storeBar' = Updated(storeBar, PlaceOf(e, x), v)
    BY <1>3, <1>11, <1>15, <1>17
  <2>2. envBar[Abstract!Node.name] = PlaceOf(e, x) /\ accBar = v
    BY <1>2, <1>3, <1>7, <1>8
  <2>3. QED BY <2>1, <2>2 DEF Updated
<1>20. Abstract!Proceed(Tail(agendaBar))
  BY <1>2, <1>15, <1>16 DEF Abstract!Proceed
<1>21. QED BY <1>1, <1>2, <1>15, <1>17, <1>18, <1>19, <1>20 DEF Abstract!Assign

\* Dropping the tasks of the frames above frame k.
Cuts(p, fr, s, k, i) ==
  LET m == Len(fr)
      a == Jobs(p, fr, s)[m]
      b == Jobs(p, fr, s)[k]
  IN  /\ IsSeq(a) /\ IsSeq(b) /\ Len(a) \in Nat /\ Len(b) \in Nat /\ Len(b) <= Len(a)
      /\ i = Len(a) - Len(b)
      /\ SubSeq(a, i + 1, Len(a)) = b
      /\ CutEnv(a, i, SeenIn(s)[Depth(fr, m)]) = SeenIn(s)[Depth(fr, k)]
      /\ 1 + Cardinality(Marks(b, {"leave", "back"})) = Depth(fr, k)
      /\ Abstract!Live(StoreOf(s, Depth(fr, m)), Depth(fr, k)) = StoreOf(s, Depth(fr, k))

LEMMA JobsCut ==
  ASSUME NEW p, NEW fr, NEW s, Shaped(fr), NEW k \in 0..Len(fr)
  PROVE  \E i \in Nat : Cuts(p, fr, s, k, i)
<1> DEFINE m == Len(fr)
           a == Jobs(p, fr, s)[m]
           b == Jobs(p, fr, s)[k]
           i == Len(a) - Len(b)
<1>1. m \in Nat /\ k \in Nat /\ k <= m /\ m \in k..m
  BY DEF Shaped
<1>2. Spans(a, b, fr, s, k, m)
  BY <1>1, JobsSpan
<1>3. Counted(b, fr, k)
  BY JobsCounted
<1>4. Depth(fr, m) \in Nat /\ Depth(fr, k) \in 0..Depth(fr, m)
  <2>1. Depth(fr, k) \in 1..Depth(fr, m)
    BY <1>1, DepthGrows
  <2>2. Owned(fr, m) \in Nat
    BY <1>1, OwnedNext
  <2>3. Depth(fr, m) \in Nat
    BY <2>2 DEF Depth
  <2>4. QED BY <2>1, <2>3
<1> HIDE DEF m, a, b
<1>5. /\ IsSeq(a) /\ IsSeq(b) /\ Len(a) \in Nat /\ Len(b) \in Nat /\ Len(b) <= Len(a)
      /\ \A j \in 1..Len(b) : a[Len(a) - Len(b) + j] = b[j]
      /\ CutEnv(a, Len(a) - Len(b), SeenIn(s)[Depth(fr, m)]) = SeenIn(s)[Depth(fr, k)]
  BY <1>2 DEF Spans
<1>6. i \in Nat /\ Len(a) = i + Len(b)
  BY <1>5
<1>7. \A j \in 1..Len(b) : a[i + j] = b[j]
  BY <1>5
<1>8. CutEnv(a, i, SeenIn(s)[Depth(fr, m)]) = SeenIn(s)[Depth(fr, k)]
  BY <1>5
<1> HIDE DEF i
<1>9. SubSeq(a, i + 1, Len(a)) = b
  BY <1>5, <1>6, <1>7, RestFacts
<1>10. 1 + Cardinality(Marks(b, {"leave", "back"})) = Depth(fr, k)
  BY <1>3 DEF Counted, Depth
<1>11. PICK d, e : d = Depth(fr, m) /\ e = Depth(fr, k)
  OBVIOUS
<1>12. Abstract!Live(StoreOf(s, d), e) = StoreOf(s, e)
  BY <1>4, <1>11, LiveIs
<1>13. i = Len(a) - Len(b)
  BY DEF i
<1>14. Cuts(p, fr, s, k, i)
  BY <1>5, <1>8, <1>9, <1>10, <1>11, <1>12, <1>13 DEF Cuts, a, b, m
<1>15. QED BY <1>6, <1>14

\* The structured program drops them.
LEMMA DropTo ==
  ASSUME NEW a, NEW nm, Here(a, nm), ~IsTransfer(return_value), NEW k \in 0..Len(frames),
         NEW i \in Nat, Cuts(program, frames, scopes, k, i),
         envBar' = SeenIn(scopes)[Depth(frames, k)],
         storeBar' = StoreOf(scopes, Depth(frames, k)),
         statusBar' = "running"
  PROVE  /\ Abstract!After(i) = Jobs(program, frames, scopes)[k]
         /\ agendaBar = Jobs(program, frames, scopes)[Len(frames)]
         /\ Abstract!Drop(i)
<1>1. PICK p, fr, s, m, A, b : /\ p = program /\ fr = frames /\ s = scopes /\ m = Len(fr)
                               /\ A = Jobs(p, fr, s)[m] /\ b = Jobs(p, fr, s)[k]
  OBVIOUS
<1>2. Shaped(fr) /\ Len(scopes) = Depth(fr, m)
  BY <1>1, HereShaped, HereDepth
<1>3. agendaBar = A
  <2>1. PICK r, st : r = return_value /\ st = status
    OBVIOUS
  <2>2. AgendaIn(p, fr, r, s, st) = Jobs(p, fr, s)[Len(fr)]
    BY <1>2, <2>1, QuietIs
  <2>3. QED BY <1>1, <2>1, <2>2, BarsAre
<1>4. envBar = SeenIn(s)[Depth(fr, m)] /\ storeBar = StoreOf(s, Depth(fr, m)) /\ statusBar = "running"
  BY <1>1, <1>2, QuietBars
<1>5. /\ SubSeq(A, i + 1, Len(A)) = b
      /\ CutEnv(A, i, SeenIn(s)[Depth(fr, m)]) = SeenIn(s)[Depth(fr, k)]
      /\ 1 + Cardinality(Marks(b, {"leave", "back"})) = Depth(fr, k)
      /\ Abstract!Live(StoreOf(s, Depth(fr, m)), Depth(fr, k)) = StoreOf(s, Depth(fr, k))
  BY <1>1 DEF Cuts
<1>6. Abstract!After(i) = b
  BY <1>3, <1>5 DEF Abstract!After
<1>7. Abstract!Depth(b) = Depth(fr, k)
  BY <1>5, CountsAre
<1>8. envBar' = CutEnv(agendaBar, i, envBar)
  BY <1>1, <1>3, <1>4, <1>5
<1>9. storeBar' = Abstract!Live(storeBar, Abstract!Depth(Abstract!After(i)))
  BY <1>1, <1>4, <1>5, <1>6, <1>7
<1>10. statusBar' = statusBar
  BY <1>4
<1>11. QED BY <1>1, <1>3, <1>6, <1>8, <1>9, <1>10, DropIs

\* A block or a call without a transfer drops its own task.
LEMMA DropOne ==
  ASSUME NEW a, NEW nm, Here(a, nm), ~IsTransfer(return_value), NEW x,
         agendaBar = <<x>> \o Rest,
         envBar' = SeenIn(scopes)[Depth(frames, Len(frames) - 1)],
         storeBar' = StoreOf(scopes, Depth(frames, Len(frames) - 1)),
         statusBar' = "running"
  PROVE  Abstract!Drop(1)
<1>1. PICK k, p, fr, s : k = Len(frames) - 1 /\ p = program /\ fr = frames /\ s = scopes
  OBVIOUS
<1>2. Shaped(fr) /\ k \in 0..Len(fr)
  BY <1>1, HereShaped, HereDepth
<1>3. PICK i \in Nat : Cuts(p, fr, s, k, i)
  BY <1>2, JobsCut
<1>4. agendaBar = Jobs(p, fr, s)[Len(fr)] /\ Abstract!Drop(i)
  <2>1. Cuts(program, frames, scopes, k, i)
    BY <1>1, <1>3
  <2>2. /\ envBar' = SeenIn(scopes)[Depth(frames, k)]
        /\ storeBar' = StoreOf(scopes, Depth(frames, k))
        /\ k \in 0..Len(frames)
    BY <1>1, <1>2
  <2>3. QED BY <1>1, <2>1, <2>2, DropTo
<1>5. i = Len(agendaBar) - Len(Rest) /\ IsSeq(Rest) /\ Len(Rest) \in Nat
  BY <1>1, <1>3, <1>4 DEF Cuts, Rest
<1>6. Len(<<x>> \o Rest) = Len(Rest) + 1
  BY <1>5, ConsFacts
<1>7. i = 1
  BY <1>5, <1>6
<1>8. QED BY <1>4, <1>7

\* What a context's own frame leaves to do is to leave it.
LEMMA LeaveOne ==
  ASSUME NEW a, NEW nm, Here(a, nm), IInv', TypesInv', ~IsTransfer(return_value),
         UNCHANGED <<program, status>>, OwnsScope(Top), scopes' = Popped, Answer(None),
         NEW x, agendaBar = <<x>> \o Rest
  PROVE  /\ Heads(x, Rest) /\ statusBar = "running"
         /\ Abstract!Proceed(Tail(agendaBar)) /\ Abstract!Drop(1)
<1>1. PICK s, u, d, e : /\ s = scopes /\ u = scopes' /\ d = Len(s)
                        /\ e = Depth(frames, Len(frames) - 1)
  OBVIOUS
<1>2. ScopesOK(s) /\ d \in Nat /\ d # 0 /\ status = "running"
  BY <1>1, HereFacts DEF Here
<1>3. d = e + 1 /\ e \in Nat
  <2>1. One(Top) = 1
    BY DEF One
  <2>2. Len(scopes) = Depth(frames, Len(frames) - 1) + One(Top) /\ Depth(frames, Len(frames) - 1) \in Nat
    BY HereDepth
  <2>3. QED BY <1>1, <2>1, <2>2
<1>4. u = SubSeq(s, 1, Len(s) - 1)
  BY <1>1 DEF Popped
<1>5. /\ Len(u) = Len(s) - 1
      /\ \A i \in 0..(Len(s) - 1) : SeenIn(u)[i] = SeenIn(s)[i] /\ StoreOf(u, i) = StoreOf(s, i)
  BY <1>1, <1>2, <1>4, PoppedSees
<1>6. Len(u) = e /\ SeenIn(u)[e] = SeenIn(s)[e] /\ StoreOf(u, e) = StoreOf(s, e)
  <2>1. d = Len(s)
    BY <1>1
  <2>2. Len(s) - 1 = e
    BY <1>3, <2>1
  <2>3. e \in 0..(Len(s) - 1)
    BY <1>3, <2>2
  <2>4. QED BY <1>5, <2>2, <2>3
<1>7. Steady(Depth(frames, Len(frames) - 1) - 1)
  <2>1. \A i \in 0..(e - 1) : i \in 0..(Len(s) - 1)
    BY <1>1, <1>3
  <2>2. \A i \in 0..(e - 1) : SeenIn(u)[i] = SeenIn(s)[i]
    BY <1>5, <2>1
  <2>3. QED BY <1>1, <2>2 DEF Steady
<1>8. frames' = Below /\ return_value'.v = NoValue /\ ~IsTransfer(return_value') /\ status' = "running"
  BY <1>2 DEF Answer, None, IsTransfer
<1>9. /\ agendaBar' = Rest
      /\ accBar' = AccOf(Rest, return_value'.v)
      /\ envBar' = SeenIn(scopes')[Len(scopes')]
      /\ storeBar' = StoreOf(scopes', Len(scopes'))
      /\ statusBar' = "running"
  BY <1>7, <1>8, AnswerBars
<1>10. accBar' = NoValue
  BY <1>8, <1>9 DEF AccOf
<1>11. Abstract!Drop(1)
  BY <1>1, <1>6, <1>9, DropOne
<1>12. Heads(x, Rest)
  BY HereShaped, HeadIs
<1>13. statusBar = "running"
  BY QuietBars
<1>14. QED BY <1>9, <1>10, <1>11, <1>12, <1>13 DEF Heads, Abstract!Proceed

\* The end of a block.
LEMMA BlockDoneStep ==
  ASSUME NEW a, NEW nm, Here(a, nm), IInv', TypesInv', ~IsTransfer(return_value), BlockDone
  PROVE  program' = program /\ Abstract!LeaveBlock
<1>1. /\ Top.node.kind = "Block" /\ Top.pc > 0 /\ Top.pc > Len(Top.node.kids)
      /\ UNCHANGED <<program, status>> /\ scopes' = Popped /\ Answer(None)
  BY DEF BlockDone, BlockEnds, InBlock, ScopesAfterBlock, _isCFD, _isNone, _isValue, IsTransfer
<1>2. PICK o, ns : o = Outer(frames, scopes, Len(frames)) /\ ns = Top.node.kids
  OBVIOUS
<1>3. Len(ns) \in Nat /\ Top.pc \in Nat /\ PcOK(Top)
  <2>1. FrameOK(Top)
    <3>1. Shaped(frames) /\ Len(frames) \in 1..Len(frames)
      BY HereShaped, HereDepth
    <3>2. QED BY <3>1 DEF Shaped, Top
  <2>2. QED BY <1>2, <2>1 DEF FrameOK
<1>4. Top.pc - 1 = Len(ns) /\ Top.pc # 0
  BY <1>1, <1>2, <1>3 DEF PcOK
<1>5. Todo(program, Top, o) = <<LeaveTo(o)>>
  <2>1. Todo(program, Top, o) = Runs(Top.node.kids, Top.pc - 1) \o <<LeaveTo(o)>>
    BY <1>1, <1>4, TodoIs
  <2>2. Runs(ns, Len(ns)) = <<>>
    BY <1>3, RunsEnd
  <2>3. <<>> \o <<LeaveTo(o)>> = <<LeaveTo(o)>>
    BY OneFacts, NoneBefore
  <2>4. QED BY <1>2, <1>4, <2>1, <2>2, <2>3
<1>6. agendaBar = <<LeaveTo(o)>> \o Rest
  BY <1>2, <1>5, QuietBars
<1>7. OwnsScope(Top)
  BY <1>1 DEF OwnsScope
<1>8. /\ Heads(LeaveTo(o), Rest) /\ statusBar = "running"
      /\ Abstract!Proceed(Tail(agendaBar)) /\ Abstract!Drop(1)
  BY <1>1, <1>6, <1>7, LeaveOne
<1>9. agendaBar[1].task = "leave"
  BY <1>8 DEF Heads, LeaveTo
<1>10. QED BY <1>1, <1>8, <1>9 DEF Abstract!LeaveBlock, Abstract!Due

\* The task of a call's body.
LEMMA BackHead ==
  ASSUME NEW a, NEW nm, Here(a, nm), ~IsTransfer(return_value), Top.node.kind = "Call", Top.pc = 2
  PROVE  \E x : /\ agendaBar = <<x>> \o Rest /\ Heads(x, Rest) /\ OwnsScope(Top)
                /\ Abstract!Due("back") /\ agendaBar[1].result = Callee.result
<1>1. PICK o, x : o = Outer(frames, scopes, Len(frames)) /\ x = BackTo(program, Top.node, o)
  OBVIOUS
<1>2. agendaBar = Todo(program, Top, o) \o Rest /\ statusBar = "running"
  BY <1>1, QuietBars
<1>3. Todo(program, Top, o) = <<BackTo(program, Top.node, o)>>
  BY TodoIs
<1>4. agendaBar = <<x>> \o Rest
  BY <1>1, <1>2, <1>3
<1>5. Heads(x, Rest)
  BY <1>4, HereShaped, HeadIs
<1>6. x.task = "back" /\ x.result = Callee.result
  BY <1>1 DEF BackTo, Callee
<1>7. OwnsScope(Top)
  BY DEF OwnsScope
<1>8. QED BY <1>2, <1>4, <1>5, <1>6, <1>7 DEF Heads, Abstract!Due

\* A function without result ends without return.
LEMMA FallOffStep ==
  ASSUME NEW a, NEW nm, Here(a, nm), IInv', TypesInv', ~IsTransfer(return_value), CallDone
  PROVE  program' = program /\ Abstract!FallOff
<1>1. /\ Top.node.kind = "Call" /\ Top.pc = 2 /\ Callee.result = "void"
      /\ UNCHANGED <<program, status>> /\ scopes' = Popped /\ Answer(CallAnswer(return_value))
  BY DEF CallDone, At, _isCFD, _isNone, _isValue, IsTransfer
<1>2. CallAnswer(return_value) = None
  BY DEF CallAnswer, IsTransfer
<1>3. PICK x : /\ agendaBar = <<x>> \o Rest /\ OwnsScope(Top)
               /\ Abstract!Due("back") /\ agendaBar[1].result = Callee.result
  BY <1>1, BackHead
<1>4. Abstract!Proceed(Tail(agendaBar)) /\ Abstract!Drop(1)
  BY <1>1, <1>2, <1>3, LeaveOne
<1>5. QED BY <1>1, <1>3, <1>4 DEF Abstract!FallOff

\* The run is aborted where no transfer is under way.
LEMMA AbortBars ==
  ASSUME NEW a, NEW nm, Here(a, nm), ~IsTransfer(return_value), Abort
  PROVE  program' = program /\ Abstract!Abort
<1>1. UNCHANGED <<program, frames, return_value, scopes>> /\ status' = "aborted"
  BY DEF Abort
<1>2. PICK p, fr, r, s, st : /\ p = program /\ fr = frames /\ r = return_value /\ s = scopes
                             /\ st = status
  OBVIOUS
<1>3. Shaped(fr) /\ ~IsTransfer(r)
  BY <1>2, HereShaped
<1>4. PICK tt : tt = "aborted"
  OBVIOUS
<1>5. /\ AgendaIn(p, fr, r, s, tt) = AgendaIn(p, fr, r, s, st)
      /\ AccIn(p, fr, r, s, tt) = AccIn(p, fr, r, s, st)
      /\ EnvIn(fr, r, s, tt) = EnvIn(fr, r, s, st)
      /\ StoreIn(fr, r, s, tt) = StoreIn(fr, r, s, st)
      /\ StatusIn(fr, r, tt) = tt
  BY <1>3, QuietIs
<1>6. /\ agendaBar' = agendaBar /\ accBar' = accBar /\ envBar' = envBar /\ storeBar' = storeBar
      /\ statusBar' = "aborted"
  BY <1>1, <1>2, <1>4, <1>5, BarsAre, BarsNext
<1>7. QED BY <1>1, <1>6 DEF Abstract!Abort

\* The program stops where the value of a function, or main's, is missing.
LEMMA NoResultStep ==
  ASSUME NEW a, NEW nm, Here(a, nm), ~IsTransfer(return_value),
         CallWithoutResult \/ (EnterDone /\ Abort)
  PROVE  program' = program /\ Abstract!NoResult
<1>1. Abort
  BY DEF CallWithoutResult
<1>2. program' = program /\ Abstract!Abort
  BY <1>1, AbortBars
<1>4. CASE CallWithoutResult
  <2>1. Top.node.kind = "Call" /\ Top.pc = 2 /\ Callee.result # "void"
    BY <1>4 DEF CallWithoutResult, At
  <2>2. Abstract!Due("back") /\ agendaBar[1].result = Callee.result
    BY <2>1, BackHead
  <2>3. QED BY <1>2, <2>1, <2>2 DEF Abstract!NoResult
<1>5. CASE EnterDone
  <2>1. Top.node.kind = "Enter" /\ Top.pc = Len(Top.node.kids)
    BY <1>5 DEF EnterDone
  <2>2. PICK ns, o : ns = Top.node.kids /\ o = Outer(frames, scopes, Len(frames))
    OBVIOUS
  <2>3. Len(ns) \in Nat
    <3>1. Shaped(frames) /\ Len(frames) \in 1..Len(frames)
      BY HereShaped, HereDepth
    <3>2. FrameOK(Top)
      BY <3>1 DEF Shaped, Top
    <3>3. QED BY <2>2, <3>2 DEF FrameOK
  <2>4. Todo(program, Top, o) = <<ExitTask>>
    <3>1. Todo(program, Top, o) = Runs(Top.node.kids, Top.pc) \o <<ExitTask>>
      BY <2>1, TodoIs
    <3>2. Runs(ns, Len(ns)) = <<>>
      BY <2>3, RunsEnd
    <3>3. <<>> \o <<ExitTask>> = <<ExitTask>>
      BY OneFacts, NoneBefore
    <3>4. QED BY <2>1, <2>2, <3>1, <3>2, <3>3
  <2>5. agendaBar = <<ExitTask>> \o Rest /\ statusBar = "running"
    BY <2>2, <2>4, QuietBars
  <2>6. Heads(ExitTask, Rest)
    BY <2>5, HereShaped, HeadIs
  <2>7. Abstract!Due("exit")
    BY <2>5, <2>6 DEF Heads, ExitTask, Abstract!Due
  <2>8. QED BY <1>2, <2>7 DEF Abstract!NoResult
<1>6. QED BY <1>4, <1>5

\* Every part is to be visited, and the end of the context after them.
LEMMA ListStarts ==
  ASSUME NEW ns, Len(ns) \in Nat, DOMAIN ns = 1..Len(ns), NEW b, IsSeq(b), NEW o
  PROVE  /\ ListOf(ns, 0, LeaveTo(o), b) = Abstract!RunAll(ns) \o <<Abstract!Leave(o)>> \o b
         /\ \A v : AccOf(ListOf(ns, 0, LeaveTo(o), b), v) = NoValue
<1> DEFINE x == LeaveTo(o)
<1>1. Runs(ns, 0) = Abstract!RunAll(ns)
  <2>1. Runs(ns, 0) = [j \in 1..Len(ns) |-> Task("run", ns[j])]
    BY DEF Runs
  <2>2. Abstract!RunAll(ns) = [j \in 1..Len(ns) |-> Task("run", ns[j])]
    BY DEF Abstract!RunAll, Abstract!Run, Task
  <2>3. QED BY <2>1, <2>2
<1>2. x = Abstract!Leave(o)
  BY DEF LeaveTo, Abstract!Leave
<1>3. x.task = "leave"
  BY DEF LeaveTo
<1> HIDE DEF x
<1>4. \A v : AccOf(ListOf(ns, 0, x, b), v) = NoValue
  <2>1. CASE Len(ns) = 0
    <3>1. Runs(ns, 0) = <<>>
      BY <2>1, RunsEnd
    <3>2. <<>> \o <<x>> = <<x>>
      BY OneFacts, NoneBefore
    <3>3. (<<x>> \o b)[1] = x
      BY ConsFacts
    <3>4. ListOf(ns, 0, x, b)[1] = x
      BY <3>1, <3>2, <3>3 DEF ListOf
    <3>5. QED BY <1>3, <3>4 DEF AccOf
  <2>2. CASE Len(ns) # 0
    <3>1. 0 \in 0..Len(ns) /\ 0 # Len(ns)
      BY <2>2
    <3>2. QED BY <3>1, ListNext
  <2>3. QED BY <2>1, <2>2
<1>5. ListOf(ns, 0, x, b) = (Abstract!RunAll(ns) \o <<x>>) \o b
  BY <1>1 DEF ListOf
<1>6. QED BY <1>2, <1>4, <1>5 DEF x

\* A block opens its context.
LEMMA EnterBlockStep ==
  ASSUME NEW a, NEW nm, Here(a, nm), IInv', TypesInv', ~IsTransfer(return_value), Block
  PROVE  program' = program /\ Abstract!EnterBlock
<1> DEFINE t == [Top EXCEPT !.pc = 1]
           e == Append(Below, t)
<1>1. /\ Top.pc = 0 /\ Top.node.kind = "Block" /\ UNCHANGED <<program, return_value, status>>
      /\ scopes' = Nested /\ frames' = e
  BY DEF Block, At
<1>2. PICK l, s, u, d, g : /\ l = Len(frames) /\ s = scopes /\ u = scopes' /\ d = Len(s)
                           /\ g = frames'
  OBVIOUS
<1>3. /\ StackOK(frames) /\ status = "running" /\ IsFrame(Top) /\ ScopesOK(s)
      /\ d \in Nat /\ d # 0 /\ program \in Programs
      /\ <<Top.node, a[l], nm[l]>> \in Nodes[program]
  BY <1>1, <1>2, HereFacts DEF Here
<1>4. /\ l \in Nat /\ l # 0 /\ l - 1 \in Nat /\ d = Depth(frames, l - 1)
  <2>1. One(Top) = 0
    BY <1>1 DEF One, OwnsScope
  <2>2. /\ l \in Nat /\ l # 0 /\ l - 1 \in Nat
        /\ Len(scopes) = Depth(frames, l - 1) + One(Top) /\ Depth(frames, l - 1) \in Nat
    BY <1>2, HereDepth
  <2>3. QED BY <1>2, <2>1, <2>2
<1>5. IsSeq(Below) /\ Len(Below) = l - 1 /\ \A i \in 1..(l - 1) : Below[i] = frames[i]
  BY <1>2, <1>3, TopFacts
<1>6. t.node = Top.node /\ t.pc = 1
  BY <1>3 DEF IsFrame
<1> HIDE DEF t
<1>7. Len(e) = l /\ e[l] = t /\ \A i \in 1..(l - 1) : e[i] = frames[i]
  <2>1. Len(e) = Len(Below) + 1 /\ e[Len(Below) + 1] = t
        /\ \A i \in 1..Len(Below) : e[i] = Below[i]
    BY <1>5, AppendFacts
  <2>2. QED BY <1>4, <1>5, <2>1
<1> HIDE DEF e
<1>8. Len(g) = l /\ Len(g) \in Nat /\ g[l] = t /\ \A i \in 1..(l - 1) : g[i] = frames[i]
  BY <1>1, <1>2, <1>4, <1>7
<1>9. Opened(s, d, Nothing, u) /\ ScopesOK(u) /\ status' = "running" /\ Shaped(g)
  <2>1. Opened(s, d, Nothing, u)
    BY <1>1, <1>2 DEF Nested, Opened
  <2>2. status' = "running"
    BY <1>1, <1>3
  <2>3. QED BY <1>2, <2>1, <2>2, NextShaped
<1>10. /\ \A i \in 0..d : SeenIn(u)[i] = SeenIn(s)[i]
       /\ SeenIn(u)[Len(u)] = Over(Nothing, SeenIn(s)[d])
       /\ StoreOf(u, Len(u)) = StoreOf(s, d)
  <2>1. d \in 0..Len(s)
    BY <1>2, <1>3
  <2>2. QED BY <1>2, <1>3, <1>9, <2>1, OpenedSees
<1>11. SeenIn(u)[Len(u)] = SeenIn(s)[d]
  <2>1. PICK f : f = SeenIn(s)[d]
    OBVIOUS
  <2>2. f = [x \in DOMAIN f |-> f[x]]
    <3>1. Chained(s)
      BY <1>3, ChainedFacts
    <3>2. d \in 0..Len(s)
      BY <1>2, <1>3
    <3>3. QED BY <2>1, <3>1, <3>2, SeenMaps
  <2>3. DOMAIN Nothing = {}
    BY EmptyFacts, SeqFacts DEF Nothing
  <2>4. Over(Nothing, f) = f
    BY <2>2, <2>3 DEF Over
  <2>5. QED BY <1>10, <2>1, <2>4
<1>12. Steady(Depth(frames, Len(frames) - 1) - 1)
  <2>1. \A i \in 0..(d - 1) : i \in 0..d
    BY <1>3
  <2>2. QED BY <1>2, <1>4, <1>10, <2>1 DEF Steady
<1>13. Jobs(program, g, u)[l - 1] = Rest /\ Depth(g, l - 1) = d
  <2>1. Len(frames) - 1 <= Len(g) /\ \A i \in 1..(Len(frames) - 1) : g[i] = frames[i]
    BY <1>2, <1>4, <1>8
  <2>2. Jobs(program, g, scopes')[Len(frames) - 1] = Rest
        /\ Depth(g, Len(frames) - 1) = Depth(frames, Len(frames) - 1)
    BY <1>1, <1>2, <1>8, <1>9, <1>12, <2>1, RestStays
  <2>3. QED BY <1>2, <1>4, <2>2
<1>14. PICK A, o, b, ns : /\ A = Jobs(program, g, u) /\ o = SeenIn(s)[d] /\ b = Rest
                          /\ ns = Top.node.kids
  OBVIOUS
<1>15. Len(ns) \in Nat /\ DOMAIN ns = 1..Len(ns) /\ IsSeq(b)
  BY <1>3, <1>14, NodeFacts, HereShaped
<1>16. A[l] = ListOf(ns, 0, LeaveTo(o), b)
  <2>1. Rolled(A, program, g, u)
    BY <1>8, <1>14, JobsDef
  <2>2. l \in 1..Len(g)
    BY <1>4, <1>8
  <2>3. A[l] = Todo(program, g[l], Outer(g, u, l)) \o A[l - 1]
    BY <2>1, <2>2 DEF Rolled
  <2>4. OwnsScope(g[l])
    BY <1>1, <1>6, <1>8 DEF OwnsScope
  <2>5. Outer(g, u, l) = SeenIn(u)[Depth(g, l - 1)]
    BY <1>4, <2>4, OuterIs
  <2>6. d \in 0..d
    BY <1>3
  <2>7. Outer(g, u, l) = o
    BY <1>10, <1>13, <1>14, <2>5, <2>6
  <2>8. t.node.kind = "Block" /\ t.pc > 0 /\ t.pc # 0 /\ t.pc - 1 = 0
    BY <1>1, <1>6
  <2>9. Todo(program, t, o) = Runs(t.node.kids, t.pc - 1) \o <<LeaveTo(o)>>
    BY <2>8, TodoIs
  <2>10. Todo(program, t, o) = Runs(ns, 0) \o <<LeaveTo(o)>>
    BY <1>6, <1>14, <2>8, <2>9
  <2>11. QED BY <1>8, <1>13, <1>14, <2>3, <2>7, <2>10 DEF ListOf
<1>17. /\ agendaBar' = A[l] /\ accBar' = AccOf(A[l], return_value'.v)
       /\ envBar' = SeenIn(u)[Len(u)] /\ storeBar' = StoreOf(u, Len(u)) /\ statusBar' = "running"
  <2>1. PICK p, r, w : p = program /\ r = return_value' /\ w = status'
    OBVIOUS
  <2>2. ~IsTransfer(r)
    BY <1>1, <2>1
  <2>3. Jobs(p, g, u)[Len(g)] = A[l]
    BY <1>8, <1>14, <2>1
  <2>4. /\ AgendaIn(p, g, r, u, w) = A[l] /\ AccIn(p, g, r, u, w) = AccOf(A[l], r.v)
        /\ EnvIn(g, r, u, w) = SeenIn(u)[Len(u)]
        /\ StoreIn(g, r, u, w) = StoreOf(u, Len(u)) /\ StatusIn(g, r, w) = w
    BY <1>9, <2>2, <2>3, QuietIs
  <2>5. QED BY <1>1, <1>2, <1>9, <2>1, <2>4, BarsNext
<1>18. /\ Tail(agendaBar) = Rest /\ Abstract!Node = Top.node /\ Abstract!DueAt("Block", "run")
       /\ statusBar = "running"
  BY <1>1, RunHead DEF Heads
<1>19. envBar = o /\ storeBar = StoreOf(s, d)
  BY <1>2, <1>14, QuietBars
<1>20. /\ ListOf(ns, 0, LeaveTo(o), b) = Abstract!RunAll(ns) \o <<Abstract!Leave(o)>> \o b
       /\ \A v : AccOf(ListOf(ns, 0, LeaveTo(o), b), v) = NoValue
  BY <1>15, ListStarts
<1>21. Abstract!Proceed(Abstract!RunAll(Abstract!Node.kids) \o <<Abstract!Leave(envBar)>> \o Tail(agendaBar))
  BY <1>14, <1>16, <1>17, <1>18, <1>19, <1>20 DEF Abstract!Proceed
<1>22. Abstract!Stay
  BY <1>10, <1>11, <1>14, <1>17, <1>18, <1>19 DEF Abstract!Stay
<1>23. QED BY <1>1, <1>18, <1>21, <1>22 DEF Abstract!EnterBlock

\* The names of the global context, and their places.
GlobalNames(s) == [x \in DOMAIN s[1].refs |-> <<1, x>>]

LEMMA GlobalIs ==
  ASSUME NEW s, ScopesOK(s), Homes(s), Len(s) # 0, storeBar = StoreOf(s, Len(s))
  PROVE  Abstract!GlobalEnv = GlobalNames(s) /\ Over(s[1].refs, Nothing) = GlobalNames(s)
<1>1. Len(s) \in Nat /\ 1 \in 1..Len(s)
  <2>1. Len(s) \in Nat
    BY ChainedFacts
  <2>2. QED BY <2>1
<1>2. DOMAIN s[1].refs = DOMAIN s[1].vals
  BY <1>1 DEF ScopesOK, Homes
<1>3. {l[2] : l \in {m \in DOMAIN storeBar : m[1] = 1}} = DOMAIN s[1].refs
  <2>1. PICK d, S : d = Len(s) /\ S = DOMAIN StoreOf(s, d)
    OBVIOUS
  <2>2. \A l : l \in S <=> l = <<l[1], l[2]>> /\ l[1] \in 1..d /\ l[2] \in DOMAIN s[l[1]].vals
    BY <1>1, <2>1, StorePlaces
  <2>3. \A m \in S : m[1] = 1 => m[2] \in DOMAIN s[1].vals
    BY <2>2
  <2>4. \A x \in DOMAIN s[1].vals : <<1, x>> \in S
    <3>1. TAKE x \in DOMAIN s[1].vals
    <3>2. PICK l : l = <<1, x>>
      OBVIOUS
    <3>3. l[1] = 1 /\ l[2] = x /\ l = <<l[1], l[2]>>
      BY <3>2
    <3>4. l \in S
      BY <1>1, <2>1, <2>2, <3>3
    <3>5. QED BY <3>2, <3>4
  <2>5. {l[2] : l \in {m \in S : m[1] = 1}} = DOMAIN s[1].vals
    <3>1. \A x \in DOMAIN s[1].vals : <<1, x>>[1] = 1 /\ <<1, x>>[2] = x
      OBVIOUS
    <3>2. QED BY <2>3, <2>4, <3>1
  <2>6. QED BY <1>2, <2>1, <2>5
<1>4. Abstract!GlobalEnv = GlobalNames(s)
  BY <1>3 DEF Abstract!GlobalEnv, GlobalNames
<1>5. DOMAIN Nothing = {}
  BY EmptyFacts, SeqFacts DEF Nothing
<1>6. Over(s[1].refs, Nothing) = [x \in DOMAIN s[1].refs |-> s[1].refs[x]]
  BY <1>5 DEF Over
<1>7. \A x \in DOMAIN s[1].refs : s[1].refs[x] = <<1, x>>
  BY <1>1 DEF Homes
<1>8. QED BY <1>4, <1>6, <1>7 DEF GlobalNames

\* The structured program is as deep after a step.
LEMMA DepthNext ==
  ASSUME IInv', TypesInv', status' = "running", ~IsTransfer(return_value')
  PROVE  Abstract!Depth(agendaBar') = Len(scopes')
<1>1. PICK p, fr, s, l, r, w : /\ p = program' /\ fr = frames' /\ s = scopes' /\ l = Len(fr)
                               /\ r = return_value' /\ w = status'
  OBVIOUS
<1>2. Shaped(fr) /\ Len(s) = Depth(fr, l)
  BY <1>1, NextShaped
<1>3. l \in 0..Len(fr)
  BY <1>1, <1>2 DEF Shaped
<1>4. Counted(Jobs(p, fr, s)[l], fr, l)
  BY <1>2, <1>3, JobsCounted
<1>5. AgendaIn(p, fr, r, s, w) = Jobs(p, fr, s)[l]
  BY <1>1, <1>2, QuietIs
<1>6. PICK b : b = agendaBar'
  OBVIOUS
<1>7. b = Jobs(p, fr, s)[l]
  BY <1>1, <1>5, <1>6, BarsNext
<1>8. Abstract!Depth(b) = 1 + Cardinality(Marks(b, {"leave", "back"}))
  BY CountsAre
<1>9. Abstract!Depth(b) = 1 + Owned(fr, l)
  BY <1>4, <1>7, <1>8 DEF Counted
<1>10. QED BY <1>1, <1>2, <1>6, <1>9 DEF Depth

\* A call's own context, before and after its parameter is bound.
LEMMA CalledSees ==
  ASSUME NEW s, ScopesOK(s), Homes(s), Len(s) # 0, storeBar = StoreOf(s, Len(s)),
         NEW u, ScopesOK(u), Opened(s, 0, s[1].refs, u)
  PROVE  /\ Len(u) = Len(s) + 1 /\ \A d \in 0..Len(s) : SeenIn(u)[d] = SeenIn(s)[d]
         /\ SeenIn(u)[Len(u)] = Abstract!GlobalEnv
         /\ StoreOf(u, Len(u)) = storeBar
<1>1. Len(s) \in Nat /\ Chained(s)
  BY ChainedFacts
<1>2. 0 \in 0..Len(s)
  BY <1>1
<1>3. PICK refs, q : refs = s[1].refs /\ q = 0
  OBVIOUS
<1>4. Opened(s, q, refs, u) /\ q \in 0..Len(s)
  BY <1>2, <1>3
<1>5. /\ Len(u) = Len(s) + 1 /\ \A d \in 0..Len(s) : SeenIn(u)[d] = SeenIn(s)[d]
      /\ SeenIn(u)[Len(u)] = Over(refs, SeenIn(s)[q])
      /\ StoreOf(u, Len(u)) = StoreOf(s, Len(s))
  BY <1>4, OpenedSees
<1>6. SeenIn(s)[0] = Nothing
  BY <1>1, SeenFacts
<1>7. Over(s[1].refs, Nothing) = Abstract!GlobalEnv
  BY GlobalIs
<1>8. QED BY <1>3, <1>5, <1>6, <1>7

\* A call's body in front of its end and of what is left to do.
RunThenBack(m, f, e, b) == <<Abstract!Run(m), Abstract!Back(f, e)>> \o b
Backs(p, n, o, b, f, u) == f = p.funcs[n.name] /\ u = <<BackTo(p, n, o)>> \o b

LEMMA BackAfter ==
  ASSUME NEW p, NEW n, NEW o, NEW m, NEW b, IsSeq(b), NEW f, NEW u, Backs(p, n, o, b, f, u)
  PROVE  <<Task("run", m)>> \o u = RunThenBack(m, f, o, b)
<1> DEFINE x == Task("run", m)
           y == BackTo(p, n, o)
<1>1. IsSeq(<<x>>) /\ IsSeq(<<y>>)
  BY OneFacts
<1>2. (<<x>> \o <<y>>) \o b = <<x>> \o (<<y>> \o b)
  BY <1>1, ConcatAssoc
<1>3. <<x>> \o <<y>> = <<x, y>>
  BY TwoFacts
<1>4. x = Abstract!Run(m) /\ y = Abstract!Back(f, o)
  BY DEF Backs, Task, BackTo, Abstract!Run, Abstract!Back
<1> HIDE DEF x, y
<1>5. RunThenBack(m, f, o, b) = <<x, y>> \o b
  BY <1>4 DEF RunThenBack
<1>6. u = <<y>> \o b
  BY DEF y, Backs
<1>7. <<x>> \o u = RunThenBack(m, f, o, b)
  BY <1>2, <1>3, <1>5, <1>6
<1>8. QED BY <1>7 DEF x

DueCalling == \/ Abstract!DueAt("Call", "run") /\ Abstract!Node.kids = <<>>
              \/ Abstract!DueAt("Call", "use")

\* A call whose argument is there, or that has none.
Calling ==
  /\ DueCalling
  /\ Tail(agendaBar) = Rest /\ Abstract!Node = Top.node /\ statusBar = "running"
  /\ HasArgument <=> Abstract!Node.kids # <<>>
  /\ HasArgument => accBar = return_value.v
  /\ ~OwnsScope(Top)
  /\ Abstract!Calls(agendaBar) = ActiveCalls
  /\ Abstract!Callee = Callee

LEMMA CallHead ==
  ASSUME NEW a, NEW nm, Here(a, nm), ~IsTransfer(return_value), ArgumentsReady
  PROVE  Calling
<1>1. /\ Top.node.kind = "Call"
      /\ HasArgument => Top.pc = 1
      /\ ~HasArgument => Top.pc = 0
  BY DEF ArgumentsReady, At
<1>2. Top.pc \in {0, 1}
  BY <1>1
<1>3. /\ Tail(agendaBar) = Rest /\ Abstract!Node = Top.node /\ statusBar = "running"
      /\ HasArgument => Abstract!DueAt("Call", "use") /\ accBar = return_value.v
      /\ ~HasArgument => Abstract!DueAt("Call", "run")
  <2>1. CASE HasArgument
    BY <1>1, <2>1, UseHead DEF Heads
  <2>2. CASE ~HasArgument
    BY <1>1, <2>2, RunHead DEF Heads
  <2>3. QED BY <2>1, <2>2
<1>4. HasArgument <=> Abstract!Node.kids # <<>>
  BY <1>3 DEF HasArgument
<1>5. DueCalling
  BY <1>3, <1>4 DEF DueCalling
<1>6. ~OwnsScope(Top)
  BY <1>1, <1>2 DEF OwnsScope
<1>7. Abstract!Calls(agendaBar) = ActiveCalls
  <2>1. DOMAIN frames = 1..Len(frames)
    <3>1. StackOK(frames)
      BY HereFacts DEF Here
    <3>2. QED BY <3>1, SeqFacts DEF StackOK
  <2>2. ActiveCalls = CallsIn(frames, Len(frames))
    BY <2>1 DEF ActiveCalls, CallsIn, InCall
  <2>3. QED BY <2>2, AgendaCounts
<1>8. Abstract!Callee = Callee
  BY <1>3 DEF Abstract!Callee, Callee
<1>9. QED BY <1>3, <1>4, <1>5, <1>6, <1>7, <1>8 DEF Calling

\* The stack is full.
LEMMA OverflowStep ==
  ASSUME NEW a, NEW nm, Here(a, nm), ~IsTransfer(return_value), CallOverflow
  PROVE  program' = program /\ Abstract!StackOverflow
<1>1. Calling
  BY CallHead DEF CallOverflow
<1>2. ActiveCalls >= MaxCalls /\ Abort
  BY DEF CallOverflow
<1>3. Abstract!Abort /\ program' = program
  BY <1>2, AbortBars
<1>4. QED BY <1>1, <1>2, <1>3 DEF Abstract!StackOverflow, Calling, DueCalling

\* A function is called.
LEMMA EnterFunctionStep ==
  ASSUME NEW a, NEW nm, Here(a, nm), Apart, IInv', TypesInv', ~IsTransfer(return_value), CallBody
  PROVE  program' = program /\ Abstract!EnterFunction
<1>1. /\ UNCHANGED <<program, status>> /\ ArgumentsReady /\ ActiveCalls < MaxCalls
      /\ Visit(2, Callee.body) /\ return_value' = None
      /\ scopes' = IF HasArgument THEN setInfo(Called, Callee.param, return_value.v) ELSE Called
  BY DEF CallBody
<1>2. Calling
  BY <1>1, CallHead
<1>3. Top.node.kind = "Call"
  BY <1>1 DEF ArgumentsReady, At
<1>4. PICK s, u, c, d, l : /\ s = scopes /\ u = scopes' /\ c = Called /\ d = Len(s)
                           /\ l = Len(frames)
  OBVIOUS
<1>5. /\ IsFrame(Top) /\ ScopesOK(s) /\ d \in Nat /\ d # 0 /\ status = "running"
      /\ program \in Programs /\ <<Top.node, a[l], nm[l]>> \in Nodes[program]
  BY <1>3, <1>4, HereFacts DEF Here
<1>6. d = Depth(frames, l - 1)
  <2>1. One(Top) = 0
    BY <1>2 DEF One, Calling
  <2>2. Len(scopes) = Depth(frames, l - 1) + One(Top) /\ Depth(frames, l - 1) \in Nat
    BY <1>4, HereDepth
  <2>3. QED BY <1>4, <2>1, <2>2
<1>7. ScopesOK(u) /\ status' = "running" /\ ~IsTransfer(return_value')
  <2>1. status' = "running"
    BY <1>1, <1>5
  <2>2. QED BY <1>1, <1>4, <2>1, NextShaped DEF None, IsTransfer
<1>8. Opened(s, 0, s[1].refs, c)
  BY <1>4 DEF Opened, Called
<1>9. ScopesOK(c)
  <2>1. PICK v : v \in BOOLEAN
    OBVIOUS
  <2>2. ScopesOK(Append(s, Scope(0, s[1].refs)))
    BY <1>4, <1>5, <2>1, CalledTyped
  <2>3. QED BY <1>8, <2>2 DEF Opened
<1>10. Homes(s) /\ envBar = SeenIn(s)[d] /\ storeBar = StoreOf(s, d)
  BY <1>4, <1>5, QuietBars DEF Apart
<1>11. /\ Len(c) = d + 1 /\ \A i \in 0..d : SeenIn(c)[i] = SeenIn(s)[i]
       /\ SeenIn(c)[Len(c)] = Abstract!GlobalEnv
       /\ StoreOf(c, Len(c)) = storeBar
  BY <1>4, <1>5, <1>8, <1>9, <1>10, CalledSees
<1>12. PICK x, v : x = Callee.param /\ v = return_value.v
  OBVIOUS
<1>13. u = IF HasArgument THEN setInfo(c, x, v) ELSE c
  BY <1>1, <1>4, <1>12
<1>14. /\ Len(u) = d + 1 /\ \A i \in 0..d : SeenIn(u)[i] = SeenIn(s)[i]
       /\ ~HasArgument => SeenIn(u)[Len(u)] = Abstract!GlobalEnv /\ StoreOf(u, Len(u)) = storeBar
       /\ HasArgument =>
            /\ SeenIn(u)[Len(u)] = Put(Abstract!GlobalEnv, x, PlaceOf(d + 1, x))
            /\ StoreOf(u, Len(u)) = Put(storeBar, PlaceOf(d + 1, x), v)
  <2>1. CASE ~HasArgument
    BY <1>11, <1>13, <2>1
  <2>2. CASE HasArgument
    <3>1. u = setInfo(c, x, v) /\ Len(c) # 0 /\ Len(c) - 1 = d
      BY <1>5, <1>11, <1>13, <2>2
    <3>2. /\ Len(u) = Len(c)
          /\ \A i \in 0..(Len(c) - 1) : SeenIn(u)[i] = SeenIn(c)[i]
          /\ SeenIn(u)[Len(c)] = Put(SeenIn(c)[Len(c)], x, PlaceOf(Len(c), x))
          /\ StoreOf(u, Len(c)) = Put(StoreOf(c, Len(c)), PlaceOf(Len(c), x), v)
      BY <1>7, <1>9, <3>1, SetSees
    <3>3. QED BY <1>11, <2>2, <3>1, <3>2
  <2>3. QED BY <2>1, <2>2
<1>15. PICK place, m, f, o : /\ place = Top.place /\ m = Callee.body /\ f = Going(2, place)
                             /\ o = SeenIn(s)[d]
  OBVIOUS
<1>16. frames' = Append(Below, Going(2, place)) \o <<Frame(m, 0)>>
  BY <1>1, <1>5, <1>15, VisitIs
<1>17. m.kind # "Enter"
  <2>1. \E as, ns : <<m, as, ns>> \in Nodes[program]
    BY <1>3, <1>5, <1>15, CalleeFacts DEF Callee
  <2>2. m.kind \in Expressions \cup Statements
    BY <1>5, <2>1, NodeFacts DEF Fits
  <2>3. QED BY <2>2 DEF Expressions, Statements
<1>18. o = SeenIn(scopes')[Depth(frames, Len(frames) - 1)]
  <2>1. d \in 0..d
    BY <1>5
  <2>2. QED BY <1>4, <1>6, <1>14, <1>15, <2>1
<1>19. Steady(Depth(frames, Len(frames) - 1) - 1)
  <2>1. \A i \in 0..(d - 1) : i \in 0..d
    BY <1>5
  <2>2. QED BY <1>4, <1>6, <1>14, <2>1 DEF Steady
<1>20. /\ agendaBar' = <<Task("run", m)>> \o (Todo(program, Going(2, place), o) \o Rest)
       /\ accBar' = NoValue
       /\ envBar' = SeenIn(scopes')[Len(scopes')]
       /\ storeBar' = StoreOf(scopes', Len(scopes'))
       /\ statusBar' = "running"
  <2>1. 2 \in Nat /\ program' = program
    BY <1>1
  <2>2. OwnsScope(Going(2, place)) => o = SeenIn(scopes')[Depth(frames, Len(frames) - 1)]
    BY <1>18
  <2>3. status' = "running" /\ ~IsTransfer(return_value')
    BY <1>7
  <2>4. QED BY <1>16, <1>17, <1>19, <2>1, <2>2, <2>3, VisitBars
<1>21. Todo(program, f, o) = <<BackTo(program, Top.node, o)>>
  <2>1. f.node = Top.node /\ f.pc = 2
    BY <1>15 DEF Going
  <2>2. f.node.kind = "Call" /\ f.pc = 2
    BY <1>3, <2>1
  <2>3. Todo(program, f, o) = <<BackTo(program, f.node, o)>>
    BY <2>2, TodoIs
  <2>4. QED BY <2>1, <2>3
<1>22. agendaBar' = RunThenBack(m, Callee, o, Rest)
  <2>1. PICK p, n, b, w, q : /\ p = program /\ n = Top.node /\ b = Rest /\ q = p.funcs[n.name]
                             /\ w = <<BackTo(p, n, o)>> \o b
    OBVIOUS
  <2>2. IsSeq(b) /\ Backs(p, n, o, b, q, w)
    BY <2>1, HereShaped DEF Backs
  <2>3. <<Task("run", m)>> \o w = RunThenBack(m, q, o, b)
    BY <2>2, BackAfter
  <2>4. q = Callee
    BY <2>1 DEF Callee
  <2>5. QED BY <1>15, <1>20, <1>21, <2>1, <2>3, <2>4
<1>23. Abstract!Proceed(<<Abstract!Run(Abstract!Callee.body), Abstract!Back(Abstract!Callee, envBar)>>
                        \o Tail(agendaBar))
  BY <1>2, <1>10, <1>15, <1>20, <1>22 DEF Abstract!Proceed, RunThenBack, Calling
<1>24. CASE ~HasArgument
  <2>1. envBar' = Abstract!GlobalEnv /\ storeBar' = storeBar /\ Abstract!Node.kids = <<>>
    BY <1>2, <1>4, <1>14, <1>20, <1>24 DEF Calling
  <2>2. QED BY <1>1, <1>2, <1>20, <1>23, <2>1 DEF Abstract!EnterFunction, Calling, DueCalling
<1>25. CASE HasArgument
  <2>1. Abstract!Node.kids # <<>> /\ accBar = v /\ Abstract!Callee.param = x
    BY <1>2, <1>12, <1>25 DEF Calling
  <2>2. Abstract!Depth(agendaBar') = d + 1
    BY <1>4, <1>7, <1>14, DepthNext
  <2>3. envBar' = Abstract!Put(Abstract!GlobalEnv, x, <<Abstract!Depth(agendaBar'), x>>)
    BY <1>4, <1>14, <1>20, <1>25, <2>2 DEF Put, Abstract!Put, PlaceOf
  <2>4. storeBar' = Abstract!Put(storeBar, <<Abstract!Depth(agendaBar'), x>>, v)
    <3>1. PICK z, q : z = storeBar /\ q = PlaceOf(d + 1, x)
      OBVIOUS
    <3>2. storeBar' = Put(z, q, v)
      BY <1>4, <1>14, <1>20, <1>25, <3>1
    <3>3. Put(z, q, v) = Abstract!Put(z, q, v)
      BY DEF Put, Abstract!Put
    <3>4. q = <<Abstract!Depth(agendaBar'), x>>
      BY <2>2, <3>1 DEF PlaceOf
    <3>5. QED BY <3>1, <3>2, <3>3, <3>4
  <2>5. Abstract!Bind(Abstract!Callee.param, accBar, Abstract!GlobalEnv, agendaBar')
    BY <2>1, <2>3, <2>4 DEF Abstract!Bind
  <2>6. QED BY <1>1, <1>2, <1>20, <1>23, <2>1, <2>5 DEF Abstract!EnterFunction, Calling, DueCalling
<1>26. QED BY <1>24, <1>25

---------------------------------------------------------------------------
(* Transfers.                                                              *)

\* The first task of kind w.
Targets(b, w, n) == /\ n \in 1..Len(b) /\ b[n].task = w
                    /\ \A j \in 1..(n - 1) : b[j].task # w

LEMMA NearestIs ==
  ASSUME IsSeq(agendaBar), NEW w, NEW n, Targets(agendaBar, w, n)
  PROVE  Abstract!Nearest(w) = n
<1>1. Len(agendaBar) \in Nat /\ DOMAIN agendaBar = 1..Len(agendaBar)
  BY SeqFacts
<1>2. PICK b, l : b = agendaBar /\ l = Len(b)
  OBVIOUS
<1> DEFINE Fit(i) == b[i].task = w /\ \A j \in 1..(i - 1) : b[j].task # w
<1>3. l \in Nat /\ n \in 1..l /\ Fit(n)
  BY <1>1, <1>2 DEF Targets
<1>4. \A i \in 1..l : Fit(i) => i = n
  <2>1. TAKE i \in 1..l
  <2>2. HAVE Fit(i)
  <2>3. CASE i < n
    <3>1. i \in 1..(n - 1)
      BY <1>3, <2>3
    <3>2. QED BY <1>3, <2>2, <3>1
  <2>4. CASE n < i
    <3>1. n \in 1..(i - 1)
      BY <1>3, <2>4
    <3>2. QED BY <1>3, <2>2, <3>1
  <2>5. QED BY <1>3, <2>3, <2>4
<1>5. (CHOOSE i \in 1..l : Fit(i)) = n
  <2> HIDE DEF Fit
  <2>1. QED BY <1>3, <1>4
<1>6. QED BY <1>1, <1>2, <1>5 DEF Abstract!Nearest

\* Frame k waits for a transfer, and none above it does.
LEMMA TargetIs ==
  ASSUME NEW p, NEW fr, NEW s, Shaped(fr), NEW k \in 1..Len(fr), NEW x,
         Todo(p, fr[k], Outer(fr, s, k)) = <<x>>, x.task \in {"loop", "back"},
         x.task = "loop" => \A j \in (k + 1)..Len(fr) : fr[j].node.kind # "While",
         x.task = "back" => \A j \in (k + 1)..Len(fr) : ~InCall(fr[j])
  PROVE  /\ \E i \in Nat : /\ Cuts(p, fr, s, k, i) /\ Cuts(p, fr, s, k - 1, i + 1)
                           /\ Targets(Jobs(p, fr, s)[Len(fr)], x.task, i + 1)
         /\ Jobs(p, fr, s)[k] = <<x>> \o Jobs(p, fr, s)[k - 1]
<1> DEFINE m == Len(fr)
           A == Jobs(p, fr, s)
<1>1. m \in Nat /\ k \in Nat /\ k # 0 /\ k - 1 \in 0..m /\ k \in 0..m /\ m \in k..m
  BY DEF Shaped
<1>2. A[k] = <<x>> \o A[k - 1]
  <2>1. Rolled(A, p, fr, s)
    BY JobsDef DEF Shaped
  <2>2. QED BY <2>1 DEF Rolled
<1>3. PICK i \in Nat : Cuts(p, fr, s, k, i)
  BY <1>1, JobsCut
<1>4. PICK n \in Nat : Cuts(p, fr, s, k - 1, n)
  BY <1>1, JobsCut
<1>5. Spans(A[m], A[k], fr, s, k, m)
  BY <1>1, JobsSpan
<1> HIDE DEF A, m
<1>6. PICK a, b, c : a = A[m] /\ b = A[k] /\ c = A[k - 1]
  OBVIOUS
<1>7. /\ IsSeq(b) /\ IsSeq(c) /\ Len(a) \in Nat /\ Len(b) \in Nat /\ Len(c) \in Nat
      /\ Len(b) <= Len(a) /\ i = Len(a) - Len(b) /\ n = Len(a) - Len(c)
  BY <1>3, <1>4, <1>6 DEF Cuts, A, m
<1>8. Len(b) = Len(c) + 1 /\ b[1] = x
  BY <1>2, <1>6, <1>7, ConsFacts
<1>9. n = i + 1
  BY <1>7, <1>8
<1>10. Targets(a, x.task, i + 1)
  <2>1. /\ \A j \in 1..Len(b) : a[Len(a) - Len(b) + j] = b[j]
        /\ \A j \in 1..(Len(a) - Len(b)) :
             /\ a[j].task = "loop" => \E h \in (k + 1)..m : fr[h].node.kind = "While"
             /\ a[j].task = "back" => \E h \in (k + 1)..m : InCall(fr[h])
    BY <1>5, <1>6 DEF Spans
  <2>2. 1 \in 1..Len(b) /\ i + 1 \in 1..Len(a) /\ i + 1 - 1 = i
    BY <1>7, <1>8
  <2>3. a[i + 1] = x
    BY <1>7, <1>8, <2>1, <2>2
  <2>4. \A j \in 1..i : a[j].task # x.task
    <3>1. \A j \in 1..i : /\ a[j].task = "loop" => \E h \in (k + 1)..m : fr[h].node.kind = "While"
                          /\ a[j].task = "back" => \E h \in (k + 1)..m : InCall(fr[h])
      BY <1>7, <2>1
    <3>2. QED BY <3>1 DEF m
  <2>5. QED BY <2>2, <2>3, <2>4 DEF Targets
<1>11. Cuts(p, fr, s, k - 1, i + 1)
  BY <1>4, <1>9
<1>12. QED BY <1>2, <1>3, <1>6, <1>10, <1>11 DEF A, m

\* The structured program goes on at frame t, or after it.
Jumps(w, t, i) ==
  /\ Cuts(program, frames, scopes, t, i) /\ Cuts(program, frames, scopes, t - 1, i + 1)
  /\ Abstract!Nearest(w) = i + 1
  /\ Jobs(program, frames, scopes)[t] = <<Task("loop", frames[t].node)>> \o Jobs(program, frames, scopes)[t - 1]
     \/ w # "loop"

LEMMA JumpIs ==
  ASSUME NEW a, NEW nm, Here(a, nm), ~IsTransfer(return_value), NEW t \in 1..Len(frames),
         NEW w, w \in {"loop", "back"},
         w = "loop" => /\ frames[t].node.kind = "While" /\ frames[t].pc = 2
                       /\ \A j \in (t + 1)..Len(frames) : frames[j].node.kind # "While",
         w = "back" => InCall(frames[t]) /\ \A j \in (t + 1)..Len(frames) : ~InCall(frames[j])
  PROVE  \E i \in Nat : Jumps(w, t, i)
<1>1. PICK p, fr, s, f, o : /\ p = program /\ fr = frames /\ s = scopes
                            /\ f = fr[t] /\ o = Outer(fr, s, t)
  OBVIOUS
<1>2. Shaped(fr)
  BY <1>1, HereShaped
<1>3. PICK x : x = IF w = "loop" THEN Task("loop", f.node) ELSE BackTo(p, f.node, o)
  OBVIOUS
<1>4. x.task = w
  BY <1>3 DEF Task, BackTo
<1>5. Todo(p, f, o) = <<x>>
  <2>1. CASE w = "loop"
    <3>1. f.node.kind = "While" /\ f.pc = 2
      BY <1>1, <2>1
    <3>2. Todo(p, f, o) = <<Task("loop", f.node)>>
      BY <3>1, TodoLoops
    <3>3. QED BY <1>3, <2>1, <3>2
  <2>2. CASE w = "back"
    <3>1. f.node.kind = "Call" /\ f.pc = 2
      BY <1>1, <2>2 DEF InCall
    <3>2. Todo(p, f, o) = <<BackTo(p, f.node, o)>>
      BY <3>1, TodoIs
    <3>3. QED BY <1>3, <2>2, <3>2
  <2>3. QED BY <2>1, <2>2
<1>6. /\ x.task \in {"loop", "back"}
      /\ x.task = "loop" => \A j \in (t + 1)..Len(fr) : fr[j].node.kind # "While"
      /\ x.task = "back" => \A j \in (t + 1)..Len(fr) : ~InCall(fr[j])
      /\ t \in 1..Len(fr) /\ Todo(p, fr[t], Outer(fr, s, t)) = <<x>>
  BY <1>1, <1>4, <1>5
<1>7. /\ \E i \in Nat : /\ Cuts(p, fr, s, t, i) /\ Cuts(p, fr, s, t - 1, i + 1)
                        /\ Targets(Jobs(p, fr, s)[Len(fr)], x.task, i + 1)
      /\ Jobs(p, fr, s)[t] = <<x>> \o Jobs(p, fr, s)[t - 1]
  BY <1>2, <1>6, TargetIs
<1>8. PICK i \in Nat : /\ Cuts(p, fr, s, t, i) /\ Cuts(p, fr, s, t - 1, i + 1)
                       /\ Targets(Jobs(p, fr, s)[Len(fr)], x.task, i + 1)
  BY <1>7
<1>9. agendaBar = Jobs(p, fr, s)[Len(fr)]
  <2>1. PICK r, st : r = return_value /\ st = status
    OBVIOUS
  <2>2. AgendaIn(p, fr, r, s, st) = Jobs(p, fr, s)[Len(fr)]
    BY <1>2, <2>1, QuietIs
  <2>3. QED BY <1>1, <2>1, <2>2, BarsAre
<1>10. Abstract!Nearest(w) = i + 1
  <2>1. IsSeq(agendaBar)
    BY <1>8, <1>9 DEF Cuts
  <2>2. Targets(agendaBar, w, i + 1)
    BY <1>4, <1>8, <1>9
  <2>3. QED BY <2>1, <2>2, NearestIs
<1>11. Jobs(p, fr, s)[t] = <<Task("loop", fr[t].node)>> \o Jobs(p, fr, s)[t - 1] \/ w # "loop"
  BY <1>1, <1>3, <1>7
<1>12. QED BY <1>1, <1>8, <1>10, <1>11 DEF Jumps

\* A visit that answers a transfer leaves the names and values.
LEMMA SentBars ==
  ASSUME NEW a, NEW nm, Here(a, nm), IInv', TypesInv', UNCHANGED <<program, scopes, status>>,
         frames' = Below, IsTransfer(return_value'),
         NEW t \in 1..(Len(frames) - 1), Taking(Below, return_value', t)
  PROVE  /\ agendaBar' = Resumes(return_value', t)
         /\ accBar' = AccOf(Resumes(return_value', t), return_value'.v)
         /\ envBar' = SeenIn(scopes)[Depth(frames, t - 1)]
         /\ storeBar' = StoreOf(scopes, Depth(frames, t - 1))
         /\ statusBar' = "running"
<1>1. status' = "running" /\ program' = program /\ scopes' = scopes
  BY DEF Here
<1>2. Steady(Depth(frames, Len(frames) - 1))
  BY <1>1 DEF Steady
<1>3. StoreOf(scopes', Depth(frames, t - 1)) = StoreOf(scopes, Depth(frames, t - 1))
  BY <1>1
<1>4. QED BY <1>1, <1>2, <1>3, PassedBars

\* A loop is around a break or a continue.
LEMMA LoopAround ==
  ASSUME NEW a, NEW nm, Here(a, nm), Top.node.kind \in {"Break", "Continue"}
  PROVE  \E t \in 1..(Len(frames) - 1) :
           /\ LoopsAt(frames, t, Len(frames) - 1)
           /\ \A j \in (t + 1)..Len(frames) : frames[j].node.kind # "While"
           /\ \A r : r.is # "return" => Taking(Below, r, t)
<1>1. /\ StackOK(frames) /\ program \in Programs /\ Stacked(program, frames, a, nm)
      /\ <<Top.node, a[Len(frames)], nm[Len(frames)]>> \in Nodes[program]
  BY HereFacts DEF Here
<1>2. PICK p, fr, l, k : p = program /\ fr = frames /\ l = Len(fr) /\ k = l - 1
  OBVIOUS
<1>3. l \in Nat /\ l # 0 /\ k \in Nat /\ k + 1 = l /\ DOMAIN fr = 1..l
  BY <1>1, <1>2, HereDepth, SeqFacts DEF StackOK
<1>4. l # 1
  BY <1>1, <1>2 DEF StackOK, Top
<1>5. k \in 1..l /\ k \in 1..(l - 1) /\ k # 0
  BY <1>3, <1>4
<1>6. "loop" \in a[l]
  <2>1. Fits(program, Top.node, a[Len(frames)], nm[Len(frames)])
    BY <1>1, NodeFacts
  <2>2. QED BY <1>2, <2>1 DEF Fits
<1>7. fr[k].pc > 0 /\ a[l] = Asked(p, fr[k], a[k])
  BY <1>1, <1>2, <1>3, <1>5 DEF Stacked
<1>8. PICK t \in 1..k : LoopsAt(fr, t, k)
  BY <1>1, <1>2, <1>3, <1>5, <1>6, <1>7, LoopChain
<1>9. \A j \in (t + 1)..l : fr[j].node.kind # "While"
  <2>1. TAKE j \in (t + 1)..l
  <2>2. CASE j = l
    BY <1>2, <2>2 DEF Top
  <2>3. CASE j # l
    <3>1. j \in (t + 1)..k
      BY <1>3, <2>3
    <3>2. QED BY <1>8, <3>1 DEF LoopsAt
  <2>4. QED BY <2>2, <2>3
<1>10. PICK g : g = Below
  OBVIOUS
<1>11. Len(g) = k /\ IsSeq(g) /\ \A i \in 1..k : g[i] = fr[i]
  BY <1>1, <1>2, <1>3, <1>10, TopFacts
<1>12. LoopsAt(g, t, Len(g))
  <2>1. \A i \in (t + 1)..k : i \in 1..k
    BY <1>3
  <2>2. QED BY <1>8, <1>11, <2>1 DEF LoopsAt
<1>13. Len(g) \in Nat /\ DOMAIN g = 1..Len(g) /\ t \in 1..Len(g)
  BY <1>3, <1>11, SeqFacts
<1>14. \A r : r.is # "return" => Taking(Below, r, t)
  BY <1>10, <1>12, <1>13, LoopTakes
<1>15. QED BY <1>2, <1>3, <1>8, <1>9, <1>14

\* A break drops the tasks up to the loop's test, a continue the ones before it.
LEMMA LoopTransfer ==
  ASSUME NEW a, NEW nm, Here(a, nm), IInv', TypesInv', ~IsTransfer(return_value),
         Top.node.kind \in {"Break", "Continue"}, UNCHANGED <<program, scopes, status>>,
         frames' = Below, return_value' \in {Breaking, Continuing}
  PROVE  \E i \in Nat :
           /\ Abstract!Nearest("loop") = i + 1
           /\ return_value' = Breaking => Abstract!Proceed(Abstract!After(i + 1)) /\ Abstract!Drop(i + 1)
           /\ return_value' = Continuing => Abstract!Proceed(Abstract!After(i)) /\ Abstract!Drop(i)
<1>1. PICK t \in 1..(Len(frames) - 1) :
        /\ LoopsAt(frames, t, Len(frames) - 1)
        /\ \A j \in (t + 1)..Len(frames) : frames[j].node.kind # "While"
        /\ \A r : r.is # "return" => Taking(Below, r, t)
  BY LoopAround
<1>2. PICK A, k : A = Jobs(program, frames, scopes) /\ k = t - 1
  OBVIOUS
<1>3. Len(frames) \in Nat /\ t \in 1..Len(frames) /\ t \in 0..Len(frames) /\ k \in 0..Len(frames) /\ t # 0
  BY <1>1, <1>2, HereDepth
<1>4. frames[t].node.kind = "While" /\ frames[t].pc = 2
  BY <1>1 DEF LoopsAt
<1>5. PICK i \in Nat : Jumps("loop", t, i)
  BY <1>1, <1>3, <1>4, JumpIs
<1>6. PICK r : r = return_value'
  OBVIOUS
<1>7. r.v = NoValue /\ r.is # "return" /\ IsTransfer(r)
  BY <1>6 DEF Breaking, Continuing, IsTransfer
<1>8. /\ agendaBar' = Resumes(r, t) /\ accBar' = AccOf(Resumes(r, t), NoValue)
      /\ envBar' = SeenIn(scopes)[Depth(frames, k)]
      /\ storeBar' = StoreOf(scopes, Depth(frames, k))
      /\ statusBar' = "running"
  <2>1. Taking(Below, return_value', t) /\ IsTransfer(return_value')
    BY <1>1, <1>6, <1>7
  <2>2. /\ agendaBar' = Resumes(return_value', t)
        /\ accBar' = AccOf(Resumes(return_value', t), return_value'.v)
        /\ envBar' = SeenIn(scopes)[Depth(frames, t - 1)]
        /\ storeBar' = StoreOf(scopes, Depth(frames, t - 1))
        /\ statusBar' = "running"
    BY <2>1, SentBars
  <2>3. QED BY <1>2, <1>6, <1>7, <2>2
<1>9. accBar' = NoValue
  BY <1>8 DEF AccOf
<1>10. i + 1 \in Nat
  OBVIOUS
<1>11. ASSUME return_value' = Breaking
       PROVE  Abstract!Proceed(Abstract!After(i + 1)) /\ Abstract!Drop(i + 1)
  <2>1. agendaBar' = A[k]
    BY <1>2, <1>6, <1>8, <1>11 DEF Resumes, Breaking
  <2>2. Cuts(program, frames, scopes, k, i + 1)
    BY <1>2, <1>5 DEF Jumps
  <2>3. /\ Abstract!After(i + 1) = Jobs(program, frames, scopes)[k]
        /\ Abstract!Drop(i + 1)
    BY <1>3, <1>8, <1>10, <2>2, DropTo
  <2>4. QED BY <1>2, <1>9, <2>1, <2>3 DEF Abstract!Proceed
<1>12. ASSUME return_value' = Continuing
       PROVE  Abstract!Proceed(Abstract!After(i)) /\ Abstract!Drop(i)
  <2>1. agendaBar' = <<Task("loop", frames[t].node)>> \o A[k]
    BY <1>2, <1>6, <1>8, <1>12 DEF Resumes, Continuing
  <2>2. agendaBar' = A[t]
    BY <1>2, <1>5, <2>1 DEF Jumps
  <2>3. Depth(frames, t) = Depth(frames, k)
    <3>1. ~OwnsScope(frames[t])
      BY <1>4 DEF OwnsScope
    <3>2. t \in Nat /\ t # 0
      BY <1>3
    <3>3. Depth(frames, t) = Depth(frames, t - 1)
      BY <3>1, <3>2, OuterIs
    <3>4. QED BY <1>2, <3>3
  <2>4. Cuts(program, frames, scopes, t, i)
    BY <1>5 DEF Jumps
  <2>5. /\ Abstract!After(i) = Jobs(program, frames, scopes)[t]
        /\ Abstract!Drop(i)
    BY <1>3, <1>8, <2>3, <2>4, DropTo
  <2>6. QED BY <1>2, <1>9, <2>2, <2>5 DEF Abstract!Proceed
<1>13. Abstract!Nearest("loop") = i + 1
  BY <1>5 DEF Jumps
<1>14. QED BY <1>11, <1>12, <1>13

\* break and continue.
LEMMA LoopTransferStep ==
  ASSUME NEW a, NEW nm, Here(a, nm), IInv', TypesInv', ~IsTransfer(return_value), Break \/ Continue
  PROVE  /\ program' = program
         /\ Abstract!Break \/ Abstract!Continue
<1>1. /\ Top.pc = 0 /\ Top.node.kind \in {"Break", "Continue"} /\ Top.node.kind # "Enter"
      /\ UNCHANGED <<program, scopes, status>> /\ frames' = Below
      /\ \/ Top.node.kind = "Break" /\ return_value' = Breaking
         \/ Top.node.kind = "Continue" /\ return_value' = Continuing
  BY DEF Break, Continue, At, Answer
<1>2. return_value' \in {Breaking, Continuing}
  BY <1>1
<1>3. PICK i \in Nat :
        /\ Abstract!Nearest("loop") = i + 1
        /\ return_value' = Breaking => Abstract!Proceed(Abstract!After(i + 1)) /\ Abstract!Drop(i + 1)
        /\ return_value' = Continuing => Abstract!Proceed(Abstract!After(i)) /\ Abstract!Drop(i)
  BY <1>1, <1>2, LoopTransfer
<1>4. Abstract!DueAt(Top.node.kind, "run")
  BY <1>1, RunHead
<1>5. CASE Top.node.kind = "Break" /\ return_value' = Breaking
  BY <1>1, <1>3, <1>4, <1>5 DEF Abstract!Break
<1>6. CASE Top.node.kind = "Continue" /\ return_value' = Continuing
  <2>1. Abstract!Nearest("loop") - 1 = i
    BY <1>3
  <2>2. QED BY <1>1, <1>3, <1>4, <1>6, <2>1 DEF Abstract!Continue
<1>7. QED BY <1>1, <1>5, <1>6

\* A stack with a frame in a call counts calls.
LEMMA CallsSome ==
  ASSUME NEW fr, NEW n \in Nat
  PROVE  /\ \A t \in 1..n : InCall(fr[t]) => CallsIn(fr, n) > 0
         /\ (\A t \in 1..n : ~InCall(fr[t])) => CallsIn(fr, n) = 0
<1> DEFINE S == {j \in 1..n : InCall(fr[j])}
<1>1. IsFiniteSet(S) /\ Cardinality(S) \in Nat
  <2>1. IsFiniteSet(1..n)
    BY FS_Interval
  <2>2. S \subseteq 1..n
    OBVIOUS
  <2> HIDE DEF S
  <2>3. IsFiniteSet(S)
    BY <2>1, <2>2, FS_Subset
  <2>4. QED BY <2>3, FS_CardinalityType
<1>2. Cardinality(S) = 0 <=> S = {}
  BY <1>1, FS_EmptySet
<1>3. CallsIn(fr, n) = Cardinality(S)
  BY DEF CallsIn
<1>4. ASSUME NEW t \in 1..n, InCall(fr[t])
      PROVE  CallsIn(fr, n) > 0
  <2>1. t \in S
    BY <1>4
  <2> HIDE DEF S
  <2>2. S # {}
    BY <2>1
  <2>3. QED BY <1>1, <1>2, <1>3, <2>2
<1>5. ASSUME \A t \in 1..n : ~InCall(fr[t])
      PROVE  CallsIn(fr, n) = 0
  <2>1. S = {}
    BY <1>5
  <2> HIDE DEF S
  <2>2. QED BY <1>2, <1>3, <2>1
<1>6. QED BY <1>4, <1>5

\* A return goes to the innermost call around it.
LEMMA ReturnTakes ==
  ASSUME NEW a, NEW nm, Here(a, nm), ~InCall(Top), NEW r, r.is = "return"
  PROVE  /\ TakersIn(Below, r) # {} =>
              \E t \in 1..(Len(frames) - 1) :
                /\ Taking(Below, r, t) /\ InCall(frames[t])
                /\ \A j \in (t + 1)..Len(frames) : ~InCall(frames[j])
         /\ TakersIn(Below, r) = {} => \A j \in 1..Len(frames) : ~InCall(frames[j])
<1>1. PICK fr, g, l : fr = frames /\ g = Below /\ l = Len(fr)
  OBVIOUS
<1>2. /\ l \in Nat /\ Len(g) = l - 1 /\ Len(g) \in Nat /\ IsSeq(g)
      /\ \A i \in 1..Len(g) : g[i] = fr[i]
  BY <1>1, HereFacts, TopFacts, HereDepth DEF Here
<1>3. DOMAIN g = 1..Len(g) /\ r.is = "return" /\ ~InCall(fr[l])
  BY <1>1, <1>2, SeqFacts DEF Top
<1>4. /\ TakersIn(g, r) = {j \in 1..Len(g) : InCall(g[j])}
      /\ TakersIn(g, r) # {} => \E t \in 1..Len(g) : Taking(g, r, t)
  BY <1>2, <1>3, CallTakes
<1>5. ASSUME TakersIn(g, r) # {}
      PROVE  \E t \in 1..(l - 1) : /\ Taking(g, r, t) /\ InCall(fr[t])
                                   /\ \A j \in (t + 1)..l : ~InCall(fr[j])
  <2>1. PICK t \in 1..Len(g) : Taking(g, r, t)
    BY <1>4, <1>5
  <2>2. InCall(g[t]) /\ \A j \in 1..Len(g) : InCall(g[j]) => j <= t
    BY <1>4, <2>1 DEF Taking
  <2>3. InCall(fr[t]) /\ t \in 1..(l - 1)
    BY <1>2, <2>2
  <2>4. \A j \in (t + 1)..l : ~InCall(fr[j])
    <3>1. TAKE j \in (t + 1)..l
    <3>2. CASE j = l
      BY <1>3, <3>2
    <3>3. CASE j # l
      <4>1. j \in 1..Len(g) /\ ~(j <= t)
        BY <1>2, <3>3
      <4>2. QED BY <1>2, <2>2, <4>1
    <3>4. QED BY <3>2, <3>3
  <2>5. QED BY <2>1, <2>3, <2>4
<1>6. ASSUME TakersIn(g, r) = {}
      PROVE  \A j \in 1..l : ~InCall(fr[j])
  <2>1. \A j \in 1..Len(g) : ~InCall(g[j])
    BY <1>4, <1>6
  <2>2. \A j \in 1..l : j = l \/ j \in 1..Len(g)
    BY <1>2
  <2>3. QED BY <1>2, <1>3, <2>1, <2>2
<1>7. QED BY <1>1, <1>5, <1>6

\* A return cuts what is left to do to what comes after its call, or to
\* nothing where no call is around it.
LEMMA ReturnTransfer ==
  ASSUME NEW a, NEW nm, Here(a, nm), IInv', TypesInv', ~IsTransfer(return_value),
         Top.node.kind = "Return", UNCHANGED <<program, scopes, status>>,
         frames' = Below, NEW v, return_value' = Returned(v)
  PROVE  Abstract!Returning(v)
<1>1. PICK r : r = return_value'
  OBVIOUS
<1>2. r = Returned(v) /\ r.v = v /\ r.is = "return" /\ IsTransfer(r)
  BY <1>1 DEF Returned, IsTransfer
<1>3. ~InCall(Top) /\ status = "running" /\ status' = "running"
  BY DEF InCall, Here
<1>4. /\ TakersIn(Below, r) # {} =>
            \E t \in 1..(Len(frames) - 1) :
              /\ Taking(Below, r, t) /\ InCall(frames[t])
              /\ \A j \in (t + 1)..Len(frames) : ~InCall(frames[j])
      /\ TakersIn(Below, r) = {} => \A j \in 1..Len(frames) : ~InCall(frames[j])
  BY <1>2, <1>3, ReturnTakes
<1>5. PICK l : l = Len(frames)
  OBVIOUS
<1>6. l \in Nat
  BY <1>5, HereDepth
<1>7. Abstract!Calls(agendaBar) = CallsIn(frames, l)
  BY <1>5, AgendaCounts
<1>8. CASE TakersIn(Below, r) # {}
  <2>1. PICK t \in 1..(l - 1) : /\ Taking(Below, r, t) /\ InCall(frames[t])
                                /\ \A j \in (t + 1)..l : ~InCall(frames[j])
    BY <1>4, <1>5, <1>8
  <2>2. t \in 1..l /\ t - 1 \in 0..l /\ t \in 1..Len(frames)
    BY <1>5, <1>6
  <2>3. Abstract!Calls(agendaBar) > 0
    BY <1>6, <1>7, <2>1, <2>2, CallsSome
  <2>4. PICK i \in Nat : Jumps("back", t, i)
    BY <1>5, <2>1, <2>2, JumpIs
  <2>5. PICK A, k : A = Jobs(program, frames, scopes) /\ k = t - 1
    OBVIOUS
  <2>6. /\ agendaBar' = Resumes(r, t) /\ accBar' = AccOf(Resumes(r, t), v)
        /\ envBar' = SeenIn(scopes)[Depth(frames, k)]
        /\ storeBar' = StoreOf(scopes, Depth(frames, k))
        /\ statusBar' = "running"
    <3>1. Taking(Below, return_value', t) /\ IsTransfer(return_value') /\ t \in 1..(Len(frames) - 1)
      BY <1>1, <1>2, <1>5, <2>1
    <3>2. /\ agendaBar' = Resumes(return_value', t)
          /\ accBar' = AccOf(Resumes(return_value', t), return_value'.v)
          /\ envBar' = SeenIn(scopes)[Depth(frames, t - 1)]
          /\ storeBar' = StoreOf(scopes, Depth(frames, t - 1))
          /\ statusBar' = "running"
      BY <3>1, SentBars
    <3>3. QED BY <1>1, <1>2, <2>5, <3>2
  <2>7. Resumes(r, t) = A[k]
    BY <1>2, <2>5 DEF Resumes
  <2>8. i + 1 \in Nat /\ k \in 0..Len(frames)
    BY <1>5, <2>2, <2>5
  <2>9. Cuts(program, frames, scopes, k, i + 1) /\ Abstract!Nearest("back") = i + 1
    BY <2>4, <2>5 DEF Jumps
  <2>10. /\ Abstract!After(i + 1) = Jobs(program, frames, scopes)[k]
         /\ Abstract!Drop(i + 1)
    BY <2>6, <2>8, <2>9, DropTo
  <2>11. Abstract!Deliver(Abstract!After(i + 1), v)
    BY <2>5, <2>6, <2>7, <2>10 DEF Abstract!Deliver, AccOf
  <2>12. QED BY <2>3, <2>9, <2>10, <2>11 DEF Abstract!Returning
<1>9. CASE TakersIn(Below, r) = {}
  <2>1. \A j \in 1..l : ~InCall(frames[j])
    BY <1>4, <1>5, <1>9
  <2>2. Abstract!Calls(agendaBar) = 0
    BY <1>6, <1>7, <2>1, CallsSome
  <2>3. Len(frames') \in Nat /\ TakersIn(frames', return_value') = {}
    <3>1. Len(Below) \in Nat
      BY HereFacts, TopFacts DEF Here
    <3>2. QED BY <1>1, <1>9, <3>1
  <2>4. return_value'.is = "return" /\ return_value'.v = v /\ status' # "aborted"
    BY <1>1, <1>2, <1>3
  <2>5. /\ agendaBar' = <<>> /\ accBar' = return_value'.v /\ envBar' = <<>> /\ storeBar' = <<>>
        /\ statusBar' = "exited"
    BY <2>3, <2>4, ExitNext
  <2>6. ~(Abstract!Calls(agendaBar) > 0)
    BY <2>2
  <2>7. QED BY <2>4, <2>5, <2>6 DEF Abstract!Returning
<1>10. QED BY <1>8, <1>9

\* return, with or without a value.
LEMMA ReturnStep ==
  ASSUME NEW a, NEW nm, Here(a, nm), IInv', TypesInv', ~IsTransfer(return_value),
         ReturnNothing \/ ReturnValue
  PROVE  program' = program /\ Abstract!Return
<1>1. Top.node.kind = "Return" /\ UNCHANGED <<program, scopes, status>> /\ frames' = Below
  BY DEF ReturnNothing, ReturnValue, At, Answer
<1>2. CASE ReturnNothing
  <2>1. Top.pc = 0 /\ Top.node.kids = <<>> /\ return_value' = Returned(NoValue) /\ Top.node.kind # "Enter"
    BY <1>1, <1>2 DEF ReturnNothing, At, Answer
  <2>2. Abstract!Returning(NoValue)
    BY <1>1, <2>1, ReturnTransfer
  <2>3. Abstract!DueAt(Top.node.kind, "run") /\ Abstract!Node = Top.node
    BY <2>1, RunHead
  <2>4. QED BY <1>1, <2>1, <2>2, <2>3 DEF Abstract!Return
<1>3. CASE ReturnValue
  <2>1. Top.pc = 1 /\ return_value' = Returned(return_value.v)
        /\ Top.node.kind \notin {"Enter", "Block", "While"}
    BY <1>1, <1>3 DEF ReturnValue, At, Answer
  <2>2. PICK v : v = return_value.v
    OBVIOUS
  <2>3. return_value' = Returned(v)
    BY <2>1, <2>2
  <2>4. Abstract!Returning(v)
    BY <1>1, <2>3, ReturnTransfer
  <2>5. Abstract!DueAt(Top.node.kind, "use") /\ accBar = return_value.v
    BY <2>1, UseHead
  <2>6. Abstract!Returning(accBar)
    BY <2>2, <2>4, <2>5
  <2>7. QED BY <1>1, <2>5, <2>6 DEF Abstract!Return
<1>4. QED BY <1>2, <1>3

---------------------------------------------------------------------------
(* The steps of a transfer under way: the structured program took them all *)
(* at once.                                                                *)

\* The contexts stay, or the one of the frame on top goes.
Leaving == scopes' = scopes \/ (OwnsScope(Top) /\ scopes' = Popped)

\* The contexts of the frames below stay.
LEMMA LeavingSees ==
  ASSUME NEW a, NEW nm, Here(a, nm), Leaving
  PROVE  LET e == Depth(frames, Len(frames) - 1) IN
         /\ Steady(e) /\ \A k \in 0..e : StoreOf(scopes', k) = StoreOf(scopes, k)
<1>1. PICK s, u, d, e : /\ s = scopes /\ u = scopes' /\ d = Len(s)
                        /\ e = Depth(frames, Len(frames) - 1)
  OBVIOUS
<1>2. ScopesOK(s) /\ d \in Nat /\ d # 0
  BY <1>1, HereFacts DEF Here
<1>3. d = e + One(Top) /\ e \in Nat
  <2>1. Len(scopes) = Depth(frames, Len(frames) - 1) + One(Top) /\ Depth(frames, Len(frames) - 1) \in Nat
    BY HereDepth
  <2>2. QED BY <1>1, <2>1
<1>4. CASE u = s
  BY <1>1, <1>4 DEF Steady
<1>5. CASE OwnsScope(Top) /\ scopes' = Popped
  <2>1. d - 1 = e
    BY <1>2, <1>3, <1>5 DEF One
  <2>2. u = SubSeq(s, 1, Len(s) - 1)
    BY <1>1, <1>5 DEF Popped
  <2>3. \A i \in 0..(Len(s) - 1) : SeenIn(u)[i] = SeenIn(s)[i] /\ StoreOf(u, i) = StoreOf(s, i)
    BY <1>1, <1>2, <2>2, PoppedSees
  <2>4. \A i \in 0..e : SeenIn(u)[i] = SeenIn(s)[i] /\ StoreOf(u, i) = StoreOf(s, i)
    BY <1>1, <2>1, <2>3
  <2>5. QED BY <1>1, <2>4 DEF Steady
<1>6. QED BY <1>1, <1>4, <1>5 DEF Leaving

\* The frame on top hands a transfer on that frame t takes.
LEMMA HandedTo ==
  ASSUME NEW a, NEW nm, Here(a, nm), IInv', TypesInv', IsTransfer(return_value),
         UNCHANGED <<program, return_value, status>>, frames' = Below, Leaving,
         NEW t \in 1..(Len(frames) - 1), Taking(frames, return_value, t), Taking(Below, return_value, t)
  PROVE  UNCHANGED Abstract!vars
<1>1. status' = "running" /\ program' = program /\ IsTransfer(return_value')
      /\ Taking(Below, return_value', t)
  BY DEF Here
<1>2. PICK e, k : e = Depth(frames, Len(frames) - 1) /\ k = Depth(frames, t - 1)
  OBVIOUS
<1>3. Steady(e) /\ \A i \in 0..e : StoreOf(scopes', i) = StoreOf(scopes, i)
  BY <1>2, LeavingSees
<1>4. t \in 1..Len(frames) /\ k \in 0..e
  <2>1. PICK i, n : i = t - 1 /\ n = Len(frames) - 1
    OBVIOUS
  <2>2. Len(frames) \in Nat /\ Depth(frames, Len(frames) - 1) \in Nat
    BY HereDepth
  <2>3. i \in Nat /\ n \in Nat /\ i <= n /\ t \in 1..Len(frames)
    BY <2>1, <2>2
  <2>4. Depth(frames, i) \in 1..Depth(frames, n)
    BY <2>3, DepthGrows
  <2>5. k \in 1..e /\ e \in Nat
    BY <1>2, <2>1, <2>2, <2>4
  <2>6. QED BY <2>3, <2>5
<1>5. /\ agendaBar = Resumes(return_value, t)
      /\ accBar = AccOf(Resumes(return_value, t), return_value.v)
      /\ envBar = SeenIn(scopes)[Depth(frames, t - 1)]
      /\ storeBar = StoreOf(scopes, Depth(frames, t - 1))
      /\ statusBar = "running"
  BY <1>4, TransferBars
<1>6. /\ agendaBar' = Resumes(return_value', t)
      /\ accBar' = AccOf(Resumes(return_value', t), return_value'.v)
      /\ envBar' = SeenIn(scopes)[Depth(frames, t - 1)]
      /\ storeBar' = StoreOf(scopes, Depth(frames, t - 1))
      /\ statusBar' = "running"
  <2>1. Steady(Depth(frames, Len(frames) - 1))
    BY <1>2, <1>3
  <2>2. StoreOf(scopes', Depth(frames, t - 1)) = StoreOf(scopes, Depth(frames, t - 1))
    BY <1>2, <1>3, <1>4
  <2>3. QED BY <1>1, <2>1, <2>2, PassedBars
<1>7. return_value' = return_value
  OBVIOUS
<1>8. QED BY <1>1, <1>5, <1>6, <1>7 DEF Abstract!vars

\* A frame that takes no transfer hands it on.
LEMMA HandedOn ==
  ASSUME NEW a, NEW nm, Here(a, nm), Calm, IInv', TypesInv', IsTransfer(return_value),
         UNCHANGED <<program, return_value, status>>, frames' = Below, Leaving,
         IF return_value.is = "return" THEN ~InCall(Top) ELSE Top.node.kind \in {"If", "Block"}
  PROVE  UNCHANGED Abstract!vars
<1>1. PICK r, fr, g, l : r = return_value /\ fr = frames /\ g = Below /\ l = Len(fr)
  OBVIOUS
<1>2. /\ StackOK(fr) /\ l \in Nat /\ Len(g) = l - 1 /\ Len(g) \in Nat /\ IsSeq(g)
      /\ \A i \in 1..Len(g) : g[i] = fr[i]
  BY <1>1, HereFacts, TopFacts, HereDepth DEF Here
<1>3. DOMAIN g = 1..Len(g) /\ DOMAIN fr = 1..l
  BY <1>1, <1>2, SeqFacts DEF StackOK
<1>4. CASE r.is # "return"
  <2>1. PICK t \in 1..l : LoopsAt(fr, t, l)
    BY <1>1, <1>4, TransferNow
  <2>2. t # l
    BY <1>1, <1>4, <2>1 DEF LoopsAt, Top
  <2>3. t \in 1..(l - 1) /\ t \in 1..Len(g)
    BY <1>2, <2>1, <2>2
  <2>4. LoopsAt(g, t, Len(g))
    <3>1. \A i \in (t + 1)..Len(g) : i \in (t + 1)..l /\ i \in 1..Len(g)
      BY <1>2, <2>3
    <3>2. QED BY <1>2, <2>1, <2>3, <3>1 DEF LoopsAt
  <2>5. Taking(g, r, t)
    BY <1>2, <1>3, <1>4, <2>3, <2>4, LoopTakes
  <2>6. Taking(fr, r, t)
    BY <1>1, <1>2, <1>3, <1>4, <2>1, LoopTakes
  <2>7. QED BY <1>1, <2>3, <2>5, <2>6, HandedTo
<1>5. CASE r.is = "return"
  <2>1. ~InCall(Top)
    BY <1>1, <1>5
  <2>2. /\ TakersIn(Below, r) # {} =>
             \E t \in 1..(Len(frames) - 1) :
               /\ Taking(Below, r, t) /\ InCall(frames[t])
               /\ \A j \in (t + 1)..Len(frames) : ~InCall(frames[j])
        /\ TakersIn(Below, r) = {} => \A j \in 1..Len(frames) : ~InCall(frames[j])
    BY <1>5, <2>1, ReturnTakes
  <2>3. TakersIn(fr, r) = {j \in 1..Len(fr) : InCall(fr[j])}
    BY <1>1, <1>2, <1>3, <1>5, CallTakes
  <2>4. CASE TakersIn(g, r) # {}
    <3>1. PICK t \in 1..(l - 1) : /\ Taking(g, r, t) /\ InCall(fr[t])
                                  /\ \A j \in (t + 1)..l : ~InCall(fr[j])
      BY <1>1, <2>2, <2>4
    <3>2. Taking(fr, r, t)
      <4>1. t \in TakersIn(fr, r)
        BY <1>1, <1>2, <2>3, <3>1
      <4>2. \A j \in 1..l : InCall(fr[j]) => j <= t
        <5>1. \A j \in 1..l : j <= t \/ j \in (t + 1)..l
          BY <1>2
        <5>2. QED BY <3>1, <5>1
      <4>3. QED BY <1>1, <2>3, <4>1, <4>2 DEF Taking
    <3>3. QED BY <1>1, <3>1, <3>2, HandedTo
  <2>5. CASE TakersIn(g, r) = {}
    <3>1. TakersIn(frames, return_value) = {}
      BY <1>1, <2>2, <2>3, <2>5
    <3>2. Len(frames) \in Nat /\ return_value.is = "return" /\ status # "aborted"
      BY <1>1, <1>2, <1>5 DEF Here
    <3>3. Len(frames') \in Nat /\ return_value'.is = "return" /\ status' # "aborted"
          /\ TakersIn(frames', return_value') = {}
      BY <1>1, <1>2, <2>5, <3>2
    <3>4. /\ agendaBar = <<>> /\ accBar = return_value.v /\ envBar = <<>> /\ storeBar = <<>>
          /\ statusBar = "exited"
      BY <3>1, <3>2, ExitBars
    <3>5. /\ agendaBar' = <<>> /\ accBar' = return_value'.v /\ envBar' = <<>> /\ storeBar' = <<>>
          /\ statusBar' = "exited"
      BY <3>3, ExitNext
    <3>6. program' = program /\ return_value' = return_value
      OBVIOUS
    <3>7. QED BY <3>4, <3>5, <3>6 DEF Abstract!vars
  <2>6. QED BY <2>4, <2>5
<1>6. QED BY <1>4, <1>5

\* The frame on top takes the transfer under way, and answers no other.
LEMMA TakenOver ==
  ASSUME NEW a, NEW nm, Here(a, nm), IInv', TypesInv', IsTransfer(return_value),
         return_value.is # "continue", Taking(frames, return_value, Len(frames)),
         UNCHANGED <<program, status>>, frames' = Below, Leaving,
         ~IsTransfer(return_value'), return_value'.v = return_value.v
  PROVE  UNCHANGED Abstract!vars
<1>1. status' = "running" /\ program' = program
  BY DEF Here
<1>2. PICK e : e = Depth(frames, Len(frames) - 1)
  OBVIOUS
<1>3. e \in Nat /\ Len(frames) \in 1..Len(frames)
  BY <1>2, HereDepth
<1>4. Steady(e) /\ StoreOf(scopes', e) = StoreOf(scopes, e)
  <2>1. Steady(e) /\ \A i \in 0..e : StoreOf(scopes', i) = StoreOf(scopes, i)
    BY <1>2, LeavingSees
  <2>2. QED BY <1>3, <2>1
<1>5. /\ agendaBar = Resumes(return_value, Len(frames))
      /\ accBar = AccOf(Resumes(return_value, Len(frames)), return_value.v)
      /\ envBar = SeenIn(scopes)[Depth(frames, Len(frames) - 1)]
      /\ storeBar = StoreOf(scopes, Depth(frames, Len(frames) - 1))
      /\ statusBar = "running"
  BY <1>3, TransferBars
<1>6. Resumes(return_value, Len(frames)) = Rest
  BY DEF Resumes, Rest
<1>7. /\ agendaBar' = Rest
      /\ accBar' = AccOf(Rest, return_value'.v)
      /\ envBar' = SeenIn(scopes')[Len(scopes')]
      /\ storeBar' = StoreOf(scopes', Len(scopes'))
      /\ statusBar' = "running"
      /\ Len(scopes') = Depth(frames, Len(frames) - 1)
  <2>1. Steady(Depth(frames, Len(frames) - 1) - 1)
    <3>1. \A d \in 0..(e - 1) : d \in 0..e
      BY <1>3
    <3>2. QED BY <1>2, <1>4, <3>1 DEF Steady
  <2>2. QED BY <1>1, <2>1, AnswerBars
<1>8. SeenIn(scopes')[e] = SeenIn(scopes)[e]
  <2>1. e \in 0..e
    BY <1>3
  <2>2. QED BY <1>4, <2>1 DEF Steady
<1>9. envBar' = envBar /\ storeBar' = storeBar
  BY <1>2, <1>4, <1>5, <1>7, <1>8
<1>10. agendaBar' = agendaBar /\ accBar' = accBar /\ statusBar' = statusBar
  BY <1>5, <1>6, <1>7
<1>11. QED BY <1>1, <1>9, <1>10 DEF Abstract!vars

\* A block, an if, and a loop that a return leaves hand it on.
LEMMA HandingStep ==
  ASSUME NEW a, NEW nm, Here(a, nm), Calm, IInv', TypesInv', IsTransfer(return_value),
         BlockDone \/ IfDone \/ (WhileBody /\ return_value.is = "return")
  PROVE  program' = program /\ UNCHANGED Abstract!vars
<1>1. CASE BlockDone
  <2>1. /\ Top.node.kind = "Block" /\ Top.pc > 0 /\ UNCHANGED <<program, return_value, status>>
        /\ frames' = Below /\ scopes' = Popped
    BY <1>1 DEF BlockDone, InBlock, ScopesAfterBlock, Answer, _isCFD, _isNone, _isValue, IsTransfer
  <2>2. Leaving /\ ~InCall(Top)
    BY <2>1 DEF Leaving, OwnsScope, InCall
  <2>3. QED BY <2>1, <2>2, HandedOn
<1>2. CASE IfDone
  <2>1. /\ Top.node.kind = "If" /\ UNCHANGED <<program, return_value, status>>
        /\ frames' = Below /\ scopes' = scopes
    BY <1>2 DEF IfDone, At, Answer
  <2>2. Leaving /\ ~InCall(Top)
    BY <2>1 DEF Leaving, InCall
  <2>3. QED BY <2>1, <2>2, HandedOn
<1>3. CASE WhileBody /\ return_value.is = "return"
  <2>1. /\ Top.node.kind = "While" /\ UNCHANGED <<program, return_value, status>>
        /\ frames' = Below /\ scopes' = scopes
    BY <1>3 DEF WhileBody, WhileEnds, WhileAnswer, At, Answer
  <2>2. Leaving /\ ~InCall(Top)
    BY <2>1 DEF Leaving, InCall
  <2>3. QED BY <1>3, <2>1, <2>2, HandedOn
<1>4. QED BY <1>1, <1>2, <1>3

\* A loop takes a break, a call a return.
LEMMA TakingStep ==
  ASSUME NEW a, NEW nm, Here(a, nm), Calm, IInv', TypesInv', IsTransfer(return_value),
         (WhileBody /\ return_value.is = "break") \/ CallDone
  PROVE  program' = program /\ UNCHANGED Abstract!vars
<1>1. PICK r, fr, l : r = return_value /\ fr = frames /\ l = Len(fr)
  OBVIOUS
<1>2. StackOK(fr) /\ l \in Nat /\ l # 0
  BY <1>1, HereFacts, HereDepth DEF Here
<1>3. DOMAIN fr = 1..l /\ l \in 1..l /\ fr[l] = Top
  BY <1>1, <1>2, SeqFacts DEF StackOK, Top
<1>4. /\ return_value.is \in {"break", "continue", "return"}
      /\ return_value.is # "return" =>
           /\ return_value.v = NoValue /\ "loop" \in Asked(program, Top, a[Len(frames)])
  BY TransferNow
<1>5. CASE WhileBody /\ return_value.is = "break"
  <2>1. /\ Top.node.kind = "While" /\ Top.pc = 2 /\ UNCHANGED <<program, status>>
        /\ frames' = Below /\ scopes' = scopes /\ return_value' = None
    BY <1>5 DEF WhileBody, WhileEnds, WhileAnswer, At, Answer
  <2>2. Leaving /\ ~IsTransfer(return_value') /\ return_value'.v = return_value.v
    BY <1>4, <1>5, <2>1 DEF Leaving, None, IsTransfer
  <2>3. LoopsAt(fr, l, l)
    <3>1. \A i \in (l + 1)..l : FALSE
      BY <1>2
    <3>2. QED BY <1>3, <2>1, <3>1 DEF LoopsAt
  <2>4. Taking(fr, r, l)
    BY <1>1, <1>2, <1>3, <1>5, <2>3, LoopTakes
  <2>5. QED BY <1>1, <1>5, <2>1, <2>2, <2>4, TakenOver
<1>6. CASE CallDone
  <2>1. /\ Top.node.kind = "Call" /\ Top.pc = 2 /\ UNCHANGED <<program, status>>
        /\ frames' = Below /\ scopes' = Popped /\ return_value' = CallAnswer(return_value)
    BY <1>6 DEF CallDone, At, Answer
  <2>2. return_value.is = "return"
    <3>1. "loop" \notin Asked(program, Top, a[Len(frames)])
      BY <2>1 DEF Asked, BodyAsks
    <3>2. QED BY <1>4, <3>1
  <2>3. Leaving /\ InCall(Top)
    BY <2>1 DEF Leaving, OwnsScope, InCall
  <2>4. ~IsTransfer(return_value') /\ return_value'.v = return_value.v
    BY <2>1, <2>2 DEF CallAnswer, Value, None, IsTransfer
  <2>5. Taking(fr, r, l)
    <3>1. TakersIn(fr, r) = {j \in 1..Len(fr) : InCall(fr[j])}
      BY <1>1, <1>2, <1>3, <2>2, CallTakes
    <3>2. QED BY <1>1, <1>2, <1>3, <2>3, <3>1 DEF Taking
  <2>6. QED BY <1>1, <2>1, <2>2, <2>3, <2>4, <2>5, TakenOver
<1>7. QED BY <1>5, <1>6

\* main's return has arrived: the structured program has ended.
LEMMA ExitStep ==
  ASSUME NEW a, NEW nm, Here(a, nm), Calm, IsTransfer(return_value), EnterDone
  PROVE  program' = program /\ UNCHANGED Abstract!vars
<1>1. PICK r, fr : r = return_value /\ fr = frames
  OBVIOUS
<1>2. /\ Top.node.kind = "Enter" /\ Top.pc = Len(Top.node.kids)
  BY DEF EnterDone
<1>3. StackOK(fr) /\ Len(fr) = 1 /\ fr[1] = Top
  BY <1>1, <1>2, HereFacts DEF Here, Top
<1>4. return_value.is = "return" /\ return_value.v # NoValue
  <2>1. Len(Top.node.kids) \in Nat
    <3>1. Shaped(frames) /\ Len(frames) \in 1..Len(frames)
      BY HereShaped, HereDepth
    <3>2. QED BY <3>1 DEF Shaped, FrameOK, Top
  <2>2. Asked(program, Top, a[Len(frames)]) = {"result"}
    BY <1>2, <2>1 DEF Asked
  <2>3. /\ return_value.is \in {"break", "continue", "return"}
        /\ Answering(return_value, Asked(program, Top, a[Len(frames)]))
    BY TransferNow
  <2>4. QED BY <2>2, <2>3 DEF Answering
<1>5. status = "running" /\ status' = "exited" /\ frames' = <<>> /\ UNCHANGED <<program, return_value>>
  BY <1>4 DEF EnterDone
<1>6. TakersIn(frames, return_value) = {}
  <2>1. DOMAIN fr = 1..1
    BY <1>3, SeqFacts DEF StackOK
  <2>2. fr[1].node.kind # "Call"
    BY <1>2, <1>3
  <2>3. TakersIn(fr, r) = {}
    BY <1>1, <1>4, <2>1, <2>2 DEF TakersIn
  <2>4. QED BY <1>1, <2>3
<1>7. TakersIn(frames', return_value') = {} /\ Len(frames') \in Nat
  <2>1. TakersIn(<<>>, r) = {}
    BY DEF TakersIn
  <2>2. QED BY <1>1, <1>5, <2>1
<1>8. /\ agendaBar = <<>> /\ accBar = return_value.v /\ envBar = <<>> /\ storeBar = <<>>
      /\ statusBar = "exited"
  BY <1>1, <1>3, <1>4, <1>5, <1>6, ExitBars
<1>9. /\ agendaBar' = <<>> /\ accBar' = return_value'.v /\ envBar' = <<>> /\ storeBar' = <<>>
      /\ statusBar' = "exited"
  BY <1>4, <1>5, <1>7, ExitNext
<1>10. QED BY <1>5, <1>8, <1>9 DEF Abstract!vars

---------------------------------------------------------------------------
(* The interpreter takes the steps of the structured program.              *)

\* The visits that a node begins with, and the answers of what has no parts.
LEMMA LeafSteps ==
  ASSUME NEW a, NEW nm, Here(a, nm), Apart, IInv', TypesInv', ~IsTransfer(return_value),
         \/ IntLiteral \/ getint \/ DeclRef \/ AndOrLeft \/ CallArgument
         \/ VarDecl \/ Assign \/ If \/ Return \/ While \/ Block
  PROVE  Abstract!Next
<1>1. CASE IntLiteral \/ getint \/ DeclRef
  BY <1>1, LeafStep DEF Abstract!Next
<1>2. CASE AndOrLeft \/ CallArgument \/ VarDecl \/ Assign \/ If \/ Return
  BY <1>2, FirstStep DEF Abstract!Next
<1>3. CASE While
  BY <1>3, WhileStep DEF Abstract!Next
<1>4. CASE Block
  BY <1>4, EnterBlockStep DEF Abstract!Next
<1>5. QED BY <1>1, <1>2, <1>3, <1>4

\* What is done with a value.
LEMMA UseSteps ==
  ASSUME NEW a, NEW nm, Here(a, nm), Apart, IInv', TypesInv', ~IsTransfer(return_value),
         \/ AndOrDecide \/ IfArm \/ WhileTest \/ VarDeclSet \/ AssignSet
         \/ CallBody \/ CallOverflow \/ ReturnNothing \/ ReturnValue
  PROVE  Abstract!Next
<1>1. CASE AndOrDecide
  BY <1>1, DecideStep DEF Abstract!Next
<1>2. CASE IfArm
  BY <1>2, ArmStep DEF Abstract!Next
<1>3. CASE WhileTest
  BY <1>3, TestStep DEF Abstract!Next
<1>4. CASE VarDeclSet
  BY <1>4, DeclareStep DEF Abstract!Next
<1>5. CASE AssignSet
  BY <1>5, AssignStep DEF Abstract!Next
<1>6. CASE CallBody
  BY <1>6, EnterFunctionStep DEF Abstract!Next
<1>7. CASE CallOverflow
  BY <1>7, OverflowStep DEF Abstract!Next
<1>8. CASE ReturnNothing \/ ReturnValue
  BY <1>8, ReturnStep DEF Abstract!Next
<1>9. QED BY <1>1, <1>2, <1>3, <1>4, <1>5, <1>6, <1>7, <1>8

\* What is left without a transfer under way, and how a transfer begins.
LEMMA LeaveSteps ==
  ASSUME NEW a, NEW nm, Here(a, nm), IInv', TypesInv', ~IsTransfer(return_value),
         \/ Break \/ Continue \/ BlockDone \/ CallDone \/ CallWithoutResult
         \/ EnterNext \/ BlockNext \/ AndOrRight \/ IfDone \/ EnterDone
  PROVE  [Abstract!Next]_(Abstract!vars)
<1>1. CASE Break \/ Continue
  BY <1>1, LoopTransferStep DEF Abstract!Next
<1>2. CASE BlockDone
  BY <1>2, BlockDoneStep DEF Abstract!Next
<1>3. CASE CallDone
  BY <1>3, FallOffStep DEF Abstract!Next
<1>4. CASE CallWithoutResult
  BY <1>4, NoResultStep DEF Abstract!Next
<1>5. CASE EnterNext \/ BlockNext
  BY <1>5, ListStep
<1>6. CASE AndOrRight \/ IfDone
  BY <1>6, EmptyStep
<1>7. CASE EnterDone
  <2>1. EnterDone /\ Abort
    BY <1>7 DEF EnterDone, IsTransfer
  <2>2. QED BY <2>1, NoResultStep DEF Abstract!Next
<1>8. QED BY <1>1, <1>2, <1>3, <1>4, <1>5, <1>6, <1>7

\* A transfer is under way.
LEMMA TransferSteps ==
  ASSUME NEW a, NEW nm, Here(a, nm), Calm, IInv', TypesInv', IsTransfer(return_value), Next
  PROVE  [Abstract!Next]_(Abstract!vars)
<1>1. return_value.is \in {"break", "continue", "return"} /\ status = "running"
  BY TransferNow DEF Here
<1>2. EnterDone \/ CallDone \/ IfDone \/ WhileBody \/ BlockDone
  <2>1. ~Done
    BY <1>1 DEF Done
  <2>2. Passing
    BY <2>1, QuietNow
  <2>3. QED BY <2>2 DEF Passing
<1>3. CASE EnterDone
  BY <1>3, ExitStep
<1>4. CASE CallDone
  BY <1>4, TakingStep
<1>5. CASE IfDone \/ BlockDone
  BY <1>5, HandingStep
<1>6. CASE WhileBody /\ return_value.is = "return"
  BY <1>6, HandingStep
<1>7. CASE WhileBody /\ return_value.is = "break"
  BY <1>7, TakingStep
<1>8. CASE WhileBody /\ return_value.is = "continue"
  <2>1. ~WhileEnds
    BY <1>8 DEF WhileEnds
  <2>2. QED BY <1>8, <2>1, AgainStep DEF Abstract!Next
<1>9. QED BY <1>1, <1>2, <1>3, <1>4, <1>5, <1>6, <1>7, <1>8

\* Every step of the interpreter is one of the structured program, or none.
LEMMA StepStructured ==
  Whole /\ Whole' /\ [Next]_vars => [Abstract!Next]_(Abstract!vars)
<1> SUFFICES ASSUME Whole, Whole', [Next]_vars
             PROVE  [Abstract!Next]_(Abstract!vars)
  OBVIOUS
<1>1. TypesInv /\ IInv /\ Calm /\ Apart /\ TypesInv' /\ IInv'
  BY DEF Whole
<1>2. CASE UNCHANGED vars
  BY <1>2, BarsStay
<1>3. CASE Next /\ status # "running"
  <2>1. UNCHANGED vars
    BY <1>3 DEF Next, EnterNext, EnterDone, At, IntLiteral, getint, DeclRef, AndOrLeft, AndOrDecide,
      AndOrRight, CallArgument, CallBody, CallOverflow, CallDone, CallWithoutResult, VarDecl,
      VarDeclSet, Assign, AssignSet, If, IfArm, IfDone, While, WhileTest, WhileBody, Break,
      Continue, ReturnNothing, Return, ReturnValue, Block, InBlock, BlockNext, BlockDone, Done, vars
  <2>2. QED BY <2>1, BarsStay
<1>4. CASE Next /\ status = "running"
  <2>1. PICK a, nm : Here(a, nm)
    BY <1>1, <1>4 DEF TypesInv, Typed, Here
  <2>2. CASE IsTransfer(return_value)
    BY <1>1, <1>4, <2>1, <2>2, TransferSteps
  <2>3. CASE ~IsTransfer(return_value)
    <3>1. CASE \/ IntLiteral \/ getint \/ DeclRef \/ AndOrLeft \/ CallArgument
               \/ VarDecl \/ Assign \/ If \/ Return \/ While \/ Block
      BY <1>1, <2>1, <2>3, <3>1, LeafSteps
    <3>2. CASE \/ AndOrDecide \/ IfArm \/ WhileTest \/ VarDeclSet \/ AssignSet
               \/ CallBody \/ CallOverflow \/ ReturnNothing \/ ReturnValue
      BY <1>1, <2>1, <2>3, <3>2, UseSteps
    <3>3. CASE \/ Break \/ Continue \/ BlockDone \/ CallDone \/ CallWithoutResult
               \/ EnterNext \/ BlockNext \/ AndOrRight \/ IfDone \/ EnterDone
      BY <1>1, <2>1, <2>3, <3>3, LeaveSteps
    <3>4. CASE WhileBody
      <4>1. ~WhileEnds
        BY <2>3 DEF WhileEnds, IsTransfer
      <4>2. QED BY <1>1, <2>1, <3>4, <4>1, AgainStep DEF Abstract!Next
    <3>5. CASE Done
      BY <1>4, <3>5 DEF Done
    <3>6. QED BY <1>4, <3>1, <3>2, <3>3, <3>4, <3>5 DEF Next
  <2>4. QED BY <2>2, <2>3
<1>5. QED BY <1>2, <1>3, <1>4

\* A map without entries.
LEMMA EmptyMap ==
  ASSUME NEW f, f = [x \in DOMAIN f |-> f[x]], DOMAIN f = {}
  PROVE  f = <<>>
<1>1. 1..0 = {}
  OBVIOUS
<1>2. f = [i \in 1..0 |-> f[i]]
  BY <1>1
<1>3. IsSeq(f) /\ Len(f) = 0
  BY <1>2, FunctionIsSeq
<1>4. QED BY <1>3, EmptyFacts

\* The globals, main, and the end of the program.
StartsWith(gl, m, x) == Abstract!RunAll(gl) \o <<Abstract!Run(m), x>>

LEMMA StartIs ==
  ASSUME NEW gl, IsSeq(gl), NEW m, NEW x, NEW ns, ns = Append(gl, m)
  PROVE  Runs(ns, 0) \o <<x>> = StartsWith(gl, m, x)
<1> DEFINE g == Abstract!RunAll(gl)
           y == Abstract!Run(m)
           n == Len(gl)
           R == Runs(ns, 0)
           t == g \o <<y>>
<1>1. n \in Nat /\ DOMAIN gl = 1..n
  BY SeqFacts
<1>2. Len(ns) = n + 1 /\ ns[n + 1] = m /\ \A i \in 1..n : ns[i] = gl[i]
  BY AppendFacts
<1>3. IsSeq(g) /\ Len(g) = n /\ \A i \in 1..n : g[i] = Task("run", gl[i])
  <2>1. g = [i \in 1..n |-> Task("run", gl[i])]
    BY <1>1 DEF Abstract!RunAll, Abstract!Run, Task
  <2> HIDE DEF g, n
  <2>2. \A i \in 1..n : g[i] = Task("run", gl[i])
    BY <2>1
  <2>3. g = [i \in 1..n |-> g[i]]
    BY <2>1
  <2>4. QED BY <1>1, <2>2, <2>3, FunctionIsSeq
<1>4. IsSeq(R) /\ Len(R) = n + 1 /\ \A j \in 1..(n + 1) : R[j] = Task("run", ns[j])
  <2>1. Len(ns) \in Nat /\ 0 \in 0..Len(ns)
    BY <1>1, <1>2
  <2>2. /\ IsSeq(Runs(ns, 0)) /\ Len(Runs(ns, 0)) = Len(ns) - 0
        /\ \A j \in 1..(Len(ns) - 0) : Runs(ns, 0)[j] = Task("run", ns[j + 0])
    BY <2>1, RunsFacts
  <2>3. QED BY <1>1, <1>2, <2>2
<1>5. y = Task("run", m) /\ IsSeq(<<y>>) /\ IsSeq(<<x>>) /\ Len(<<y>>) = 1 /\ <<y>>[1] = y
  BY OneFacts DEF Abstract!Run, Task
<1> HIDE DEF g, y, n, R
<1>6. /\ IsSeq(t) /\ Len(t) = n + 1 /\ t[n + 1] = y
      /\ \A i \in 1..n : t[i] = g[i]
  <2>1. PICK e : e = <<y>>
    OBVIOUS
  <2>2. /\ IsSeq(g \o e) /\ Len(g \o e) = Len(g) + Len(e)
        /\ \A i \in 1..Len(g) : (g \o e)[i] = g[i]
        /\ \A i \in 1..Len(e) : (g \o e)[Len(g) + i] = e[i]
    BY <1>3, <1>5, <2>1, ConcatFacts
  <2>3. 1 \in 1..Len(e) /\ Len(e) = 1 /\ e[1] = y
    BY <1>5, <2>1
  <2>4. QED BY <1>3, <2>1, <2>2, <2>3
<1> HIDE DEF t
<1>7. R = t
  <2>1. \A i \in 1..(n + 1) : i \in 1..n \/ i = n + 1
    BY <1>1
  <2>2. \A i \in 1..(n + 1) : R[i] = t[i]
    BY <1>2, <1>3, <1>4, <1>5, <1>6, <2>1
  <2>3. QED BY <1>4, <1>6, <2>2, SameSeq
<1>8. (g \o <<y>>) \o <<x>> = g \o (<<y>> \o <<x>>)
  BY <1>3, <1>5, ConcatAssoc
<1>9. <<y>> \o <<x>> = <<y, x>>
  BY TwoFacts
<1>10. R \o <<x>> = g \o <<y, x>>
  BY <1>7, <1>8, <1>9 DEF t
<1>11. QED BY <1>10 DEF R, g, y, StartsWith

\* enter's frame is the structured program before its first step.
LEMMA InitStructured == Init => Abstract!Init
<1> SUFFICES ASSUME Init
             PROVE  Abstract!Init
  OBVIOUS
<1>1. PICK p, f, fr, r, s : /\ p = program /\ f = Frame(Entry(p), 0) /\ fr = <<f>>
                            /\ r = None /\ s = <<Scope(0, Nothing)>>
  OBVIOUS
<1>2. p \in Programs /\ frames = fr /\ return_value = r /\ scopes = s /\ status = "running"
  BY <1>1 DEF Init
<1>3. Whole
  BY WholeInvariant
<1>4. PICK a, nm : Here(a, nm)
  BY <1>2, <1>3 DEF Whole, TypesInv, Typed, Here
<1>5. Top = f /\ Len(frames) = 1 /\ Len(scopes) = 1 /\ ~IsTransfer(return_value)
  BY <1>1, <1>2 DEF Top, IsTransfer, None
<1>6. PICK o, gl : o = Outer(frames, scopes, 1) /\ gl = p.globals
  OBVIOUS
<1>7. /\ agendaBar = Todo(program, Top, o) \o Rest
      /\ accBar = AccOf(agendaBar, return_value.v)
      /\ envBar = SeenIn(scopes)[1]
      /\ storeBar = StoreOf(scopes, 1)
      /\ statusBar = "running"
  BY <1>4, <1>5, <1>6, QuietBars
<1>8. Rest = <<>>
  <2>1. Shaped(frames)
    BY <1>4, HereShaped
  <2>2. Rolled(Jobs(program, frames, scopes), program, frames, scopes)
    BY <2>1, JobsDef DEF Shaped
  <2>3. QED BY <1>5, <2>2 DEF Rolled, Rest
<1>9. PICK ns : ns = Append(gl, p.main)
  OBVIOUS
<1>10. gl \in Seq({gl[i] : i \in DOMAIN gl}) /\ Len(gl) \in Nat /\ IsSeq(ns) /\ Len(ns) = Len(gl) + 1
  <2>1. WellFormed(p, Nodes[p])
    BY <1>2, ProgramsAssumption
  <2>2. gl \in Seq({gl[i] : i \in DOMAIN gl})
    BY <1>6, <2>1 DEF WellFormed
  <2>3. IsSeq(Entry(p).kids) /\ Len(Entry(p).kids) = Len(p.globals) + 1 /\ Len(p.globals) \in Nat
    BY <1>2, EntryFacts
  <2>4. QED BY <1>6, <1>9, <2>2, <2>3 DEF Entry
<1>11. Todo(program, Top, o) = Runs(ns, 0) \o <<ExitTask>>
  <2>1. f.node.kind = "Enter" /\ f.pc = 0 /\ f.node.kids = ns
    BY <1>1, <1>6, <1>9 DEF Frame, Entry
  <2>2. Todo(p, f, o) = Runs(f.node.kids, f.pc) \o <<ExitTask>>
    BY <2>1, TodoIs
  <2>3. QED BY <1>1, <1>5, <2>1, <2>2
<1>12. Runs(ns, 0) \o <<ExitTask>> = Abstract!Starting(p)
  <2>1. PICK x, m : x = ExitTask /\ m = p.main
    OBVIOUS
  <2>2. IsSeq(gl) /\ ns = Append(gl, m)
    BY <1>9, <1>10, <2>1, TypedIsSeq
  <2>3. Runs(ns, 0) \o <<x>> = StartsWith(gl, m, x)
    BY <2>2, StartIs
  <2>4. StartsWith(gl, m, x) = Abstract!Starting(p)
    BY <1>6, <2>1 DEF StartsWith, Abstract!Starting, Abstract!Exit, ExitTask
  <2>5. QED BY <2>1, <2>3, <2>4
<1>13. agendaBar = Abstract!Starting(program)
  <2>1. IsSeq(Runs(ns, 0) \o <<ExitTask>>)
    <3>1. Len(ns) \in Nat /\ 0 \in 0..Len(ns)
      BY <1>10
    <3>2. IsSeq(Runs(ns, 0))
      BY <3>1, RunsFacts
    <3>3. QED BY <3>2, OneFacts, ConcatFacts
  <2>2. PICK q : q = Runs(ns, 0) \o <<ExitTask>>
    OBVIOUS
  <2>3. q \o <<>> = q
    <3>1. IsSeq(q)
      BY <2>1, <2>2
    <3>2. QED BY <3>1, NoneAfter
  <2>4. QED BY <1>1, <1>2, <1>7, <1>8, <1>11, <1>12, <2>2, <2>3
<1>14. accBar = NoValue
  <2>1. return_value.v = NoValue
    BY <1>1, <1>2 DEF None
  <2>2. QED BY <1>7, <2>1 DEF AccOf
<1>15. envBar = <<>> /\ storeBar = <<>>
  <2>1. Chained(s) /\ ScopesOK(s) /\ Len(s) = 1
    <3>1. ScopesOK(s) /\ Len(s) = 1
      BY <1>2, <1>4, <1>5, HereFacts DEF Here
    <3>2. QED BY <3>1, ChainedFacts
  <2>2. s[1].refs = <<>> /\ s[1].vals = <<>> /\ s[1].parent = 0
    BY <1>1 DEF Scope, Nothing
  <2>3. DOMAIN <<>> = {}
    OBVIOUS
  <2>4. SeenIn(s)[1] = <<>>
    <3>1. /\ SeenIn(s)[0] = Nothing
          /\ \A d \in 1..Len(s) : /\ SeenIn(s)[d] = Over(s[d].refs, SeenIn(s)[s[d].parent])
                                   /\ DOMAIN SeenIn(s)[d] = DOMAIN s[d].refs \cup DOMAIN SeenIn(s)[s[d].parent]
      BY <2>1, SeenFacts
    <3>2. 1 \in 1..Len(s)
      BY <2>1
    <3>3. DOMAIN SeenIn(s)[1] = {}
      BY <2>2, <2>3, <3>1, <3>2 DEF Nothing
    <3>4. 1 \in 0..Len(s)
      BY <2>1
    <3>5. SeenIn(s)[1] = [x \in DOMAIN SeenIn(s)[1] |-> SeenIn(s)[1][x]]
      BY <2>1, <3>4, SeenMaps
    <3>6. QED BY <3>3, <3>5, EmptyMap
  <2>5. StoreOf(s, 1) = <<>>
    <3>1. 1 \in Nat
      OBVIOUS
    <3>2. /\ \A l : l \in DOMAIN StoreOf(s, 1)
                     <=> l = <<l[1], l[2]>> /\ l[1] \in 1..1 /\ l[2] \in DOMAIN s[l[1]].vals
          /\ \A l \in DOMAIN StoreOf(s, 1) : StoreOf(s, 1)[l] = s[l[1]].vals[l[2]]
          /\ StoreOf(s, 1) = [l \in DOMAIN StoreOf(s, 1) |-> s[l[1]].vals[l[2]]]
      BY <3>1, StorePlaces
    <3>3. \A e \in 1..1 : e = 1
      OBVIOUS
    <3>4. DOMAIN StoreOf(s, 1) = {}
      BY <2>2, <2>3, <3>2, <3>3
    <3>5. PICK mp : mp = StoreOf(s, 1)
      OBVIOUS
    <3>6. mp = [l \in DOMAIN mp |-> mp[l]]
      BY <3>2, <3>5
    <3>7. QED BY <3>4, <3>5, <3>6, EmptyMap
  <2>6. QED BY <1>2, <1>7, <2>4, <2>5
<1>16. QED BY <1>1, <1>2, <1>7, <1>13, <1>14, <1>15 DEF Abstract!Init

\* The interpreter takes the steps of the structured program, for any programs
\* of the language and any depth of calls (Interpreter.cpp): a
\* transfer reaches its loop or its call and nothing runs on the way, every
\* name is the innermost declaration around it in the text, arguments are
\* copies, and what ends without a value to take stops the program.
THEOREM InterpreterIsStructured == Spec => StepsAsStructured
<1>1. Init => Whole
  BY WholeInvariant
<1>2. Whole /\ [Next]_vars => Whole'
  BY WholeInvariant
<1>3. Init => Abstract!Init
  BY InitStructured
<1>4. Whole /\ Whole' /\ [Next]_vars => [Abstract!Next]_(Abstract!vars)
  BY StepStructured
<1>5. QED BY <1>1, <1>2, <1>3, <1>4, PTL DEF Spec, StepsAsStructured
=============================================================================
