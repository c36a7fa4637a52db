---------------------------- MODULE EmitterProofs ----------------------------
(***************************************************************************)
(* Proofs that the emitter keeps the discipline of the builder and that    *)
(* its state keeps its shape, for any programs and any finite number of    *)
(* blocks.                                                                 *)
(*                                                                         *)
(* Its first part shows that what the visits still have to do is always a  *)
(* legal sequence of calls: lemmas about scripts and about the stack of    *)
(* frames.  The calls that a frame has left are checked the way a type     *)
(* checker would.  A context says which blocks the visit has made, which   *)
(* of them were given a parameter, and whether a block is saved or a loop  *)
(* noted; each call is legal in some contexts and leads to another.        *)
(***************************************************************************)
EXTENDS Emitter, BuilderProtocolProofs, AnySequences, FiniteSetTheorems

\* Calls that look for the operand of a variable or complete a block.  They
\* are put before the rest of a visit and are done when it goes on.
ReadCalls == {"read", "write_found", "write", "addArg", "sealed", "answer_found"}

IsNode(n) == \E loop : <<n, loop>> \in Nodes

Ctx(slots, args, open, loop) == [slots |-> slots, args |-> args, open |-> open, loop |-> loop]
Blank == Ctx({}, {}, FALSE, FALSE)

\* What a call of a visit of node n needs and does.
NodeCall(n, call, c, d) ==
  \/ /\ call[1] \in {"literal", "readVar", "assign", "declare", "rt", "call", "push_env", "pop_env",
                     "keep", "seal_current", "br"}
     /\ d = c
  \/ /\ call[1] = "jp_loop"
     /\ n.kind \in {"Break", "Continue"} /\ call[2] \in {"cond", "cont"}
     /\ d = c
  \/ /\ call[1] = "visit"
     /\ call[2] \in DOMAIN n.kids
     /\ n.kind = "While" /\ call[2] = 2 => c.loop
     /\ d = c
  \/ /\ call[1] = "decide"
     /\ n.kind \in {"And", "Or", "If"} /\ c = Blank
     /\ d = c
  \/ /\ call[1] = "stop_if_term"
     /\ n.kind = "Block"
     /\ d = c
  \/ /\ call[1] = "newBasicBlock"
     /\ call[2] \notin c.slots
     /\ d = Ctx(c.slots \cup {call[2]}, c.args, c.open, c.loop)
  \/ /\ call[1] = "save_and_entry"
     /\ call[2] \in c.slots /\ ~c.open
     /\ d = Ctx(c.slots, c.args, TRUE, c.loop)
  \/ /\ call[1] = "pop_block"
     /\ c.open
     /\ d = Ctx(c.slots, c.args, FALSE, c.loop)
  \/ /\ call[1] = "push_cfd"
     /\ {"cond", "cont"} \subseteq c.slots /\ ~c.loop
     /\ d = Ctx(c.slots, c.args, c.open, TRUE)
  \/ /\ call[1] = "pop_cfd"
     /\ c.loop
     /\ d = Ctx(c.slots, c.args, c.open, FALSE)
  \/ /\ call[1] \in {"seal", "jp", "jp_value", "setNext", "setElse", "entry_block"}
     /\ call[2] \in c.slots
     /\ d = c
  \/ /\ call[1] = "add_arg"
     /\ call[2] \in c.slots
     /\ d = Ctx(c.slots, c.args \cup {call[2]}, c.open, c.loop)
  \/ /\ call[1] = "answer_arg"
     /\ call[2] \in c.args
     /\ d = c

\* A block's visit makes no basic block, so it may end early.
BlockCall(n, call, c, d) ==
  n.kind = "Block" =>
    /\ call[1] \in {"push_env", "visit", "stop_if_term", "pop_env"}
    /\ c = Blank /\ d = Blank

\* A function whose body is emitted.
IsFunction(p, f) == f = "main" \/ \E i \in DOMAIN p.order : f = p.order[i]

\* The calls of enter; a context is a phase of the builder.
UnitCall(p, call, c, d) ==
  \/ call[1] = "setup_code" /\ c = "no code" /\ d = "outside"
  \/ call[1] \in {"push_env", "pop_env"} /\ c \in {"outside", "body"} /\ d = c
  \/ call[1] = "entry_function" /\ IsFunction(p, call[2]) /\ c \in {"outside", "body"} /\ d = "entered"
  \/ call[1] = "first_block" /\ c = "entered" /\ d = "body"
  \/ call[1] \in {"param", "body"} /\ IsFunction(p, call[2]) /\ c = "body" /\ d = "body"

---------------------------------------------------------------------------
(* The same calls, checked for what they do to edges.  A context says      *)
(* which blocks the visit has made and not entered yet, and how far the    *)
(* code of the current block is: clean, without gateway and targets; next  *)
(* or both, with its targets drawn for a branch; branched; left, which is  *)
(* clean or ended by a jump or return; done, the same when a block's visit *)
(* is about to return.                                                     *)

Edge(fresh, cur) == [fresh |-> fresh, cur |-> cur]

\* What a visit of node n makes of a clean block.
AfterVisit(n) == IF n.kind \in Expressions THEN "clean" ELSE "left"

\* Calls that make no instruction and draw no edge.
EdgeFree == {"literal", "keep", "push_env", "declare", "seal", "seal_current", "add_arg", "answer_arg",
             "push_cfd", "pop_cfd"} \cup ReadCalls

EdgeCall(n, call, c, d) ==
  \/ call[1] \in EdgeFree /\ c.cur # "done" /\ d = c
  \/ call[1] \in {"call", "readVar", "assign"} /\ c.cur = "clean" /\ d = c
  \/ call[1] = "decide" /\ n.kind \in {"And", "Or", "If"} /\ c = Edge({}, "clean") /\ d = c
  \/ call[1] = "visit" /\ c.cur = "clean" /\ d = Edge(c.fresh, AfterVisit(n.kids[call[2]]))
  \/ /\ call[1] = "stop_if_term" /\ n.kind = "Block" /\ c.cur \in {"clean", "left"}
     /\ d = Edge(c.fresh, "clean")
  \/ call[1] = "pop_env" /\ n.kind = "Block" /\ c.cur \in {"clean", "left"} /\ d = Edge(c.fresh, "done")
  \/ call[1] = "newBasicBlock" /\ c.cur = "clean" /\ d = Edge(c.fresh \cup {call[2]}, "clean")
  \/ /\ call[1] = "save_and_entry" /\ c.cur = "clean" /\ call[2] \in c.fresh
     /\ d = Edge(c.fresh \ {call[2]}, "clean")
  \/ call[1] = "pop_block" /\ c.cur \in {"left", "branched"} /\ d = Edge(c.fresh, "clean")
  \/ /\ call[1] = "entry_block" /\ c.cur \in {"left", "branched"} /\ call[2] \in c.fresh
     /\ d = Edge(c.fresh \ {call[2]}, "clean")
  \/ call[1] = "setNext" /\ c.cur = "clean" /\ d = Edge(c.fresh, "next")
  \/ call[1] = "setElse" /\ c.cur = "next" /\ d = Edge(c.fresh, "both")
  \/ call[1] = "br" /\ c.cur = "both" /\ d = Edge(c.fresh, "branched")
  \/ call[1] \in {"jp", "jp_value", "jp_loop"} /\ c.cur \in {"clean", "left"} /\ d = Edge(c.fresh, "left")
  \/ call[1] = "rt" /\ c.cur = "clean" /\ d = Edge(c.fresh, "left")

\* The calls of enter.
EdgeUnitCall(call, c, d) ==
  \/ call[1] \in {"setup_code", "push_env", "pop_env", "entry_function", "param"} /\ d = c
  \/ call[1] = "first_block" /\ c.cur \in {"clean", "left"} /\ d = Edge({}, "clean")
  \/ call[1] = "body" /\ c.cur = "clean" /\ d = Edge({}, "left")

---------------------------------------------------------------------------
(* And once more, for how blocks are reached.  A context says which blocks *)
(* the visit has made and not entered (fresh), which it has entered before *)
(* anything led to them (due), which of the fresh ones something leads to  *)
(* (met), what the current block leads to by the visit's own calls (next,  *)
(* else), and whether a block is saved (open).                             *)

Path(fresh, due, met, next, else, open) ==
  [fresh |-> fresh, due |-> due, met |-> met, next |-> next, else |-> else, open |-> open]
Nil == Path({}, {}, {}, {}, {}, FALSE)

\* Calls that make no block, go to none and draw no edge that counts.
PathFree == {"literal", "keep", "push_env", "pop_env", "declare", "seal", "seal_current", "add_arg",
             "answer_arg", "push_cfd", "pop_cfd", "call", "readVar", "assign", "br", "rt", "stop_if_term"}

LedBy(c) == c.next \cup c.else

PathStep(call, c, d) ==
  \/ call[1] \in PathFree /\ d = c
  \/ call[1] = "decide" /\ c = Nil /\ d = c
  \/ call[1] = "jp_loop" /\ c.next = {} /\ d = c
  \/ call[1] = "visit" /\ LedBy(c) = {} /\ (c.open \/ c.due = {}) /\ d = c
  \/ /\ call[1] = "newBasicBlock" /\ call[2] \notin c.fresh \cup c.due
     /\ c.met \subseteq c.fresh /\ LedBy(c) = {}
     /\ d = Path(c.fresh \cup {call[2]}, c.due, c.met, {}, {}, c.open)
  \/ /\ call[1] = "save_and_entry" /\ call[2] \in c.fresh /\ LedBy(c) = {} /\ ~c.open
     /\ d = Path(c.fresh \ {call[2]}, c.due \cup ({call[2]} \ c.met), c.met \ {call[2]}, {}, {}, TRUE)
  \/ /\ call[1] = "pop_block" /\ c.open
     /\ d = Path(c.fresh, c.due, c.met \cup (LedBy(c) \cap c.fresh), {}, {}, FALSE)
  \/ /\ call[1] = "entry_block" /\ call[2] \in c.fresh /\ call[2] \in c.met \cup LedBy(c)
     /\ c.due \subseteq LedBy(c) /\ ~c.open
     /\ d = Path(c.fresh \ {call[2]}, {}, (c.met \cup (LedBy(c) \cap c.fresh)) \ {call[2]}, {}, {}, FALSE)
  \/ /\ call[1] \in {"jp", "jp_value", "setNext"} /\ c.next = {}
     /\ d = Path(c.fresh, c.due, c.met, {call[2]}, c.else, c.open)
  \/ /\ call[1] = "setElse" /\ c.else = {}
     /\ d = Path(c.fresh, c.due, c.met, c.next, {call[2]}, c.open)

\* The visit of a Block makes and enters no block.
PathCall(n, call, c, d) ==
  \/ call[1] \in ReadCalls /\ d = c
  \/ PathStep(call, c, d) /\ (n.kind = "Block" => c = Nil /\ d = Nil)

---------------------------------------------------------------------------
\* The calls of enter, of a visit as it begins, and of one that may be looking
\* for an operand; and enter and visits again, for their edges.
Typed(kind, n, call, c, d) ==
  \/ kind = "unit" /\ UnitCall(n, call, c, d)
  \/ kind \in {"script", "visit"} /\ NodeCall(n, call, c, d) /\ BlockCall(n, call, c, d)
  \/ kind = "visit" /\ call[1] \in ReadCalls /\ d = c
  \/ kind = "edges" /\ EdgeCall(n, call, c, d)
  \/ kind = "unit edges" /\ EdgeUnitCall(call, c, d)
  \/ kind = "paths" /\ PathCall(n, call, c, d)

\* The calls s are legal from context c on and end in context e.
Legal(kind, n, s, c, e) ==
  /\ IsSeq(s)
  /\ \E tr : /\ tr[0] = c /\ tr[Len(s)] = e
             /\ \A j \in 1..Len(s) : Typed(kind, n, s[j], tr[j - 1], tr[j])

---------------------------------------------------------------------------
(* Legal sequences of calls.                                               *)

LEMMA LegalEmpty ==
  ASSUME NEW o, NEW n, NEW c
  PROVE  Legal(o, n, <<>>, c, c)
<1> DEFINE tr == [j \in {0} |-> c]
<1>1. IsSeq(<<>>) /\ Len(<<>>) = 0
  BY EmptyFacts
<1>2. tr[0] = c /\ \A j \in 1..0 : Typed(o, n, <<>>[j], tr[j - 1], tr[j])
  OBVIOUS
<1> HIDE DEF tr
<1>3. QED BY <1>1, <1>2 DEF Legal

\* The first call, and what is left after it.
LEMMA LegalTail ==
  ASSUME NEW o, NEW n, NEW s, NEW c, NEW e, Legal(o, n, s, c, e), Len(s) # 0
  PROVE  \E d : Typed(o, n, s[1], c, d) /\ Legal(o, n, Tail(s), d, e)
<1>1. PICK tr : /\ tr[0] = c /\ tr[Len(s)] = e
                /\ \A j \in 1..Len(s) : Typed(o, n, s[j], tr[j - 1], tr[j])
  BY DEF Legal
<1>2. IsSeq(s) /\ Len(s) \in Nat
  BY SeqFacts DEF Legal
<1>3. IsSeq(Tail(s)) /\ Len(Tail(s)) = Len(s) - 1 /\ \A i \in 1..(Len(s) - 1) : Tail(s)[i] = s[i + 1]
  BY <1>2, TailFacts
<1> DEFINE m == Len(s) - 1
           ur == [j \in 0..m |-> tr[j + 1]]
<1>4. m \in Nat /\ 1 \in 1..Len(s) /\ 1 - 1 = 0
  BY <1>2
<1>5. Typed(o, n, s[1], c, tr[1])
  BY <1>1, <1>4
<1>6. ur[0] = tr[1] /\ ur[m] = e
  <2>1. 0 \in 0..m /\ m \in 0..m /\ 0 + 1 = 1 /\ m + 1 = Len(s)
    BY <1>2, <1>4
  <2> HIDE DEF m
  <2>2. QED BY <1>1, <2>1
<1>7. ASSUME NEW j \in 1..m PROVE Typed(o, n, Tail(s)[j], ur[j - 1], ur[j])
  <2>1. /\ j + 1 \in 1..Len(s) /\ j \in 1..(Len(s) - 1) /\ j - 1 \in 0..m /\ j \in 0..m
        /\ j + 1 - 1 = j /\ j - 1 + 1 = j
    BY <1>2
  <2>2. ur[j - 1] = tr[j] /\ ur[j] = tr[j + 1] /\ Tail(s)[j] = s[j + 1]
    <3> HIDE DEF m
    <3>1. QED BY <1>3, <2>1 DEF m
  <2> HIDE DEF ur
  <2>3. QED BY <1>1, <2>1, <2>2
<1>8. Legal(o, n, Tail(s), tr[1], e)
  <2> HIDE DEF ur
  <2>1. QED BY <1>3, <1>6, <1>7 DEF Legal, m
<1>9. QED BY <1>5, <1>8

\* One sequence after another.
LEMMA LegalConcat ==
  ASSUME NEW o, NEW n, NEW s, NEW t, NEW c, NEW d, NEW e,
         Legal(o, n, s, c, d), Legal(o, n, t, d, e)
  PROVE  Legal(o, n, s \o t, c, e)
<1>1. PICK tr : /\ tr[0] = c /\ tr[Len(s)] = d
                /\ \A j \in 1..Len(s) : Typed(o, n, s[j], tr[j - 1], tr[j])
  BY DEF Legal
<1>2. PICK ur : /\ ur[0] = d /\ ur[Len(t)] = e
                /\ \A j \in 1..Len(t) : Typed(o, n, t[j], ur[j - 1], ur[j])
  BY DEF Legal
<1>3. IsSeq(s) /\ IsSeq(t) /\ Len(s) \in Nat /\ Len(t) \in Nat
  BY SeqFacts DEF Legal
<1> DEFINE a == Len(s)
           b == Len(t)
           r == s \o t
           vr == [j \in 0..(a + b) |-> IF j <= a THEN tr[j] ELSE ur[j - a]]
<1>4. /\ IsSeq(r) /\ Len(r) = a + b
      /\ \A i \in 1..a : r[i] = s[i]
      /\ \A i \in 1..b : r[a + i] = t[i]
  BY <1>3, ConcatFacts
<1>5. a \in Nat /\ b \in Nat
  BY <1>3
<1>6. tr[a] = ur[0] /\ tr[0] = c /\ ur[b] = e
  BY <1>1, <1>2
<1>7. /\ \A j \in 1..a : Typed(o, n, s[j], tr[j - 1], tr[j])
      /\ \A j \in 1..b : Typed(o, n, t[j], ur[j - 1], ur[j])
  BY <1>1, <1>2
<1> HIDE DEF a, b, r
<1>8. vr[0] = c
  BY <1>5, <1>6
<1>9. vr[a + b] = e
  <2>1. CASE b = 0
    BY <1>5, <1>6, <2>1
  <2>2. CASE b # 0
    <3>1. ~(a + b <= a) /\ a + b - a = b /\ a + b \in 0..(a + b)
      BY <1>5, <2>2
    <3>2. vr[a + b] = ur[a + b - a]
      BY <1>5, <3>1
    <3>3. QED BY <1>6, <3>1, <3>2
  <2>3. QED BY <2>1, <2>2
<1>10. ASSUME NEW j \in 1..(a + b) PROVE Typed(o, n, r[j], vr[j - 1], vr[j])
  <2>1. CASE j <= a
    <3>1. j \in 1..a /\ j - 1 <= a /\ j - 1 \in 0..(a + b) /\ j \in 0..(a + b)
      BY <1>5, <2>1
    <3>2. vr[j - 1] = tr[j - 1] /\ vr[j] = tr[j] /\ r[j] = s[j]
      BY <1>4, <2>1, <3>1
    <3> HIDE DEF vr
    <3>3. QED BY <1>7, <3>1, <3>2
  <2>2. CASE ~(j <= a)
    <3> DEFINE k == j - a
    <3>1. /\ k \in 1..b /\ a + k = j /\ j - 1 \in 0..(a + b) /\ j \in 0..(a + b)
          /\ j - 1 <= a => j - 1 = a /\ k - 1 = 0
          /\ j - 1 - a = k - 1
      BY <1>5, <2>2
    <3>2. vr[j] = ur[k]
      BY <2>2, <3>1
    <3>3. vr[j - 1] = ur[k - 1]
      <4>1. CASE j - 1 <= a
        <5>1. vr[j - 1] = tr[j - 1]
          BY <3>1, <4>1
        <5>2. QED BY <1>6, <3>1, <4>1, <5>1
      <4>2. CASE ~(j - 1 <= a)
        BY <3>1, <4>2
      <4>3. QED BY <4>1, <4>2
    <3>4. r[j] = t[k]
      BY <1>4, <3>1
    <3> HIDE DEF vr, k
    <3>5. QED BY <1>7, <3>1, <3>2, <3>3, <3>4
  <2>3. QED BY <2>1, <2>2
<1>11. Legal(o, n, r, c, e)
  <2> HIDE DEF vr
  <2>1. QED BY <1>4, <1>8, <1>9, <1>10 DEF Legal
<1>12. QED BY <1>11 DEF r

\* Calls that leave the context alone.
LEMMA LegalSame ==
  ASSUME NEW o, NEW n, NEW s, NEW c, IsSeq(s), \A j \in 1..Len(s) : Typed(o, n, s[j], c, c)
  PROVE  Legal(o, n, s, c, c)
<1> DEFINE tr == [j \in 0..Len(s) |-> c]
<1>1. Len(s) \in Nat
  BY SeqFacts
<1>2. tr[0] = c /\ tr[Len(s)] = c /\ \A j \in 1..Len(s) : tr[j - 1] = c /\ tr[j] = c
  BY <1>1
<1> HIDE DEF tr
<1>3. QED BY <1>2 DEF Legal

\* A single call, and several.
LEMMA LegalOne ==
  ASSUME NEW o, NEW n, NEW x, NEW c, NEW d, Typed(o, n, x, c, d)
  PROVE  Legal(o, n, <<x>>, c, d)
<1> DEFINE s == <<x>>
           tr == [j \in {0, 1} |-> IF j = 0 THEN c ELSE d]
<1>1. IsSeq(s) /\ Len(s) = 1 /\ s[1] = x
  BY DEF IsSeq
<1>2. tr[0] = c /\ tr[1] = d
  OBVIOUS
<1> HIDE DEF s, tr
<1>3. \A j \in 1..1 : j = 1 /\ j - 1 = 0
  OBVIOUS
<1>4. \A j \in 1..Len(s) : Typed(o, n, s[j], tr[j - 1], tr[j])
  BY <1>1, <1>2, <1>3
<1>5. Legal(o, n, s, c, d)
  BY <1>1, <1>2, <1>4 DEF Legal
<1>6. QED BY <1>5 DEF s

LEMMA LegalTwo ==
  ASSUME NEW o, NEW n, NEW x, NEW y, NEW c, NEW d, NEW e, Typed(o, n, x, c, d), Typed(o, n, y, d, e)
  PROVE  Legal(o, n, <<x, y>>, c, e)
<1> DEFINE s == <<x, y>>
           tr == [j \in {0, 1, 2} |-> IF j = 0 THEN c ELSE IF j = 1 THEN d ELSE e]
<1>1. IsSeq(s) /\ Len(s) = 2 /\ s[1] = x /\ s[2] = y
  BY DEF IsSeq
<1>2. tr[0] = c /\ tr[1] = d /\ tr[2] = e
  OBVIOUS
<1> HIDE DEF s, tr
<1>3. \A j \in 1..2 : (j = 1 /\ j - 1 = 0) \/ (j = 2 /\ j - 1 = 1)
  OBVIOUS
<1>4. \A j \in 1..Len(s) : Typed(o, n, s[j], tr[j - 1], tr[j])
  BY <1>1, <1>2, <1>3
<1>5. Legal(o, n, s, c, e)
  BY <1>1, <1>2, <1>4 DEF Legal
<1>6. QED BY <1>5 DEF s

LEMMA LegalThree ==
  ASSUME NEW o, NEW n, NEW x, NEW y, NEW z, NEW c, NEW d, NEW e, NEW f,
         Typed(o, n, x, c, d), Typed(o, n, y, d, e), Typed(o, n, z, e, f)
  PROVE  Legal(o, n, <<x, y, z>>, c, f)
<1> DEFINE s == <<x, y, z>>
           tr == [j \in {0, 1, 2, 3} |-> IF j = 0 THEN c ELSE IF j = 1 THEN d ELSE IF j = 2 THEN e ELSE f]
<1>1. IsSeq(s) /\ Len(s) = 3 /\ s[1] = x /\ s[2] = y /\ s[3] = z
  BY DEF IsSeq
<1>2. tr[0] = c /\ tr[1] = d /\ tr[2] = e /\ tr[3] = f
  OBVIOUS
<1> HIDE DEF s, tr
<1>3. \A j \in 1..3 : (j = 1 /\ j - 1 = 0) \/ (j = 2 /\ j - 1 = 1) \/ (j = 3 /\ j - 1 = 2)
  OBVIOUS
<1>4. \A j \in 1..Len(s) : Typed(o, n, s[j], tr[j - 1], tr[j])
  BY <1>1, <1>2, <1>3
<1>5. Legal(o, n, s, c, f)
  BY <1>1, <1>2, <1>4 DEF Legal
<1>6. QED BY <1>5 DEF s
LEMMA LegalFour ==
  ASSUME NEW o, NEW n, NEW w, NEW x, NEW y, NEW z, NEW c, NEW d, NEW e, NEW f, NEW g,
         Typed(o, n, w, c, d), Typed(o, n, x, d, e), Typed(o, n, y, e, f), Typed(o, n, z, f, g)
  PROVE  Legal(o, n, <<w, x, y, z>>, c, g)
<1> DEFINE s == <<w, x, y, z>>
           tr == [j \in {0, 1, 2, 3, 4} |->
                   IF j = 0 THEN c ELSE IF j = 1 THEN d ELSE IF j = 2 THEN e ELSE IF j = 3 THEN f ELSE g]
<1>1. IsSeq(s) /\ Len(s) = 4 /\ s[1] = w /\ s[2] = x /\ s[3] = y /\ s[4] = z
  BY DEF IsSeq
<1>2. tr[0] = c /\ tr[1] = d /\ tr[2] = e /\ tr[3] = f /\ tr[4] = g
  OBVIOUS
<1> HIDE DEF s, tr
<1>3. \A j \in 1..4 : (j = 1 /\ j - 1 = 0) \/ (j = 2 /\ j - 1 = 1) \/ (j = 3 /\ j - 1 = 2) \/ (j = 4 /\ j - 1 = 3)
  OBVIOUS
<1>4. \A j \in 1..Len(s) : Typed(o, n, s[j], tr[j - 1], tr[j])
  BY <1>1, <1>2, <1>3
<1>5. Legal(o, n, s, c, g)
  BY <1>1, <1>2, <1>4 DEF Legal
<1>6. QED BY <1>5 DEF s

---------------------------------------------------------------------------
(* What the calls of a script need.                                        *)

\* A visit's calls, where no block's statements are concerned.
Plain(n) == n.kind # "Block"

\* Calls that need nothing and change no context.
FreeCalls == {"literal", "readVar", "assign", "declare", "rt", "call", "push_env", "pop_env", "keep",
              "seal_current", "br"}

LEMMA FreeCall ==
  ASSUME NEW n, Plain(n), NEW call, call[1] \in FreeCalls, NEW c
  PROVE  Typed("script", n, call, c, c)
  BY DEF Typed, NodeCall, BlockCall, Plain, FreeCalls

\* Calls about a block the visit has made.
SlotCalls == {"seal", "jp", "jp_value", "setNext", "setElse", "entry_block"}

LEMMA SlotCall ==
  ASSUME NEW n, Plain(n), NEW call, call[1] \in SlotCalls, NEW c, call[2] \in c.slots
  PROVE  Typed("script", n, call, c, c)
  BY DEF Typed, NodeCall, BlockCall, Plain, SlotCalls

LEMMA VisitCall ==
  ASSUME NEW n, Plain(n), NEW i, i \in DOMAIN n.kids, NEW c, n.kind = "While" /\ i = 2 => c.loop
  PROVE  Typed("script", n, <<"visit", i>>, c, c)
  BY DEF Typed, NodeCall, BlockCall, Plain

LEMMA NewBlockCall ==
  ASSUME NEW n, Plain(n), NEW x, NEW S, x \notin S, NEW A, NEW o, NEW l
  PROVE  Typed("script", n, <<"newBasicBlock", x>>, Ctx(S, A, o, l), Ctx(S \cup {x}, A, o, l))
  BY DEF Typed, NodeCall, BlockCall, Plain, Ctx

LEMMA SaveCall ==
  ASSUME NEW n, Plain(n), NEW x, NEW S, x \in S, NEW A, NEW l
  PROVE  Typed("script", n, <<"save_and_entry", x>>, Ctx(S, A, FALSE, l), Ctx(S, A, TRUE, l))
  BY DEF Typed, NodeCall, BlockCall, Plain, Ctx

LEMMA PopCall ==
  ASSUME NEW n, Plain(n), NEW S, NEW A, NEW l
  PROVE  Typed("script", n, <<"pop_block">>, Ctx(S, A, TRUE, l), Ctx(S, A, FALSE, l))
  BY DEF Typed, NodeCall, BlockCall, Plain, Ctx

LEMMA LoopCall ==
  ASSUME NEW n, Plain(n), NEW S, "cond" \in S, "cont" \in S, NEW A, NEW o
  PROVE  /\ Typed("script", n, <<"push_cfd">>, Ctx(S, A, o, FALSE), Ctx(S, A, o, TRUE))
         /\ Typed("script", n, <<"pop_cfd">>, Ctx(S, A, o, TRUE), Ctx(S, A, o, FALSE))
  BY DEF Typed, NodeCall, BlockCall, Plain, Ctx

LEMMA ArgCall ==
  ASSUME NEW n, Plain(n), NEW x, NEW S, x \in S, NEW A, NEW o, NEW l
  PROVE  /\ Typed("script", n, <<"add_arg", x>>, Ctx(S, A, o, l), Ctx(S, A \cup {x}, o, l))
         /\ Typed("script", n, <<"answer_arg", x>>, Ctx(S, A \cup {x}, o, l), Ctx(S, A \cup {x}, o, l))
  BY DEF Typed, NodeCall, BlockCall, Plain, Ctx

---------------------------------------------------------------------------
(* What the parts of scripts need, as in EmitterScripts.                   *)

\* A block emitted for calls that need no more than it offers.
LEMMA EmitBlockLegal ==
  ASSUME NEW n, Plain(n), NEW x, NEW S, x \in S, NEW A, NEW l, NEW body,
         Legal("script", n, body, Ctx(S, A, TRUE, l), Ctx(S, A, TRUE, l))
  PROVE  /\ Legal("script", n, EmitBlock(x, body), Ctx(S, A, FALSE, l), Ctx(S, A, FALSE, l))
         /\ Legal("script", n, EmitBlockOpen(x, body), Ctx(S, A, FALSE, l), Ctx(S, A, FALSE, l))
<1> DEFINE C == Ctx(S, A, FALSE, l)
           D == Ctx(S, A, TRUE, l)
<1>1. Typed("script", n, <<"save_and_entry", x>>, C, D) /\ Typed("script", n, <<"pop_block">>, D, C)
  BY SaveCall, PopCall
<1>2. Typed("script", n, <<"seal", x>>, C, C)
  BY SlotCall DEF SlotCalls, Ctx
<1>3. Legal("script", n, body, D, D)
  OBVIOUS
<1> HIDE DEF C, D
<1>4. Legal("script", n, <<<<"save_and_entry", x>>>>, C, D)
  BY <1>1, LegalOne
<1>5. Legal("script", n, <<<<"save_and_entry", x>>>> \o body, C, D)
  BY <1>3, <1>4, LegalConcat
<1>6. /\ Legal("script", n, <<<<"pop_block">>, <<"seal", x>>>>, D, C)
      /\ Legal("script", n, <<<<"pop_block">>>>, D, C)
  BY <1>1, <1>2, LegalOne, LegalTwo
<1>7. /\ Legal("script", n, EmitBlock(x, body), C, C)
      /\ Legal("script", n, EmitBlockOpen(x, body), C, C)
  BY <1>5, <1>6, LegalConcat DEF EmitBlock, EmitBlockOpen
<1>8. QED BY <1>7 DEF C

\* A visit of a part and a jump.
LEMMA VisitJump ==
  ASSUME NEW n, Plain(n), NEW i, i \in DOMAIN n.kids, NEW c, n.kind = "While" /\ i = 2 => c.loop,
         NEW jump, jump \in SlotCalls, NEW x, x \in c.slots
  PROVE  Legal("script", n, <<<<"visit", i>>, <<jump, x>>>>, c, c)
<1>1. Typed("script", n, <<"visit", i>>, c, c)
  BY VisitCall
<1>2. Typed("script", n, <<jump, x>>, c, c)
  BY SlotCall
<1>3. QED BY <1>1, <1>2, LegalTwo

LEMMA BranchLegal ==
  ASSUME NEW n, Plain(n), NEW t, NEW f, NEW ta, NEW fa, NEW c, t \in c.slots, f \in c.slots
  PROVE  Legal("script", n, Branch(t, ta, f, fa), c, c)
<1>1. Typed("script", n, <<"setNext", t>>, c, c) /\ Typed("script", n, <<"setElse", f>>, c, c)
  BY SlotCall DEF SlotCalls
<1>2. Typed("script", n, <<"br", ta, fa>>, c, c)
  BY FreeCall DEF FreeCalls
<1>3. QED BY <1>1, <1>2, LegalThree DEF Branch

LEMMA GoOnLegal ==
  ASSUME NEW n, Plain(n), NEW c, "cont" \in c.slots
  PROVE  Legal("script", n, GoOn, c, c)
<1>1. Typed("script", n, <<"seal_current">>, c, c) /\ Typed("script", n, <<"entry_block", "cont">>, c, c)
  BY FreeCall, SlotCall DEF FreeCalls, SlotCalls
<1>2. QED BY <1>1, LegalTwo DEF GoOn

\* And and Or: the right side in a block x of its own.
ShortCircuit(x, t, ta, f, fa) ==
  <<<<"newBasicBlock", "cont">>, <<"newBasicBlock", x>>>>
  \o EmitBlock(x, <<<<"visit", 2>>, <<"jp_value", "cont">>>>)
  \o Branch(t, ta, f, fa)
  \o <<<<"add_arg", "cont">>>> \o GoOn \o <<<<"answer_arg", "cont">>>>

LEMMA ShortCircuitLegal ==
  ASSUME NEW n, Plain(n), n.kind # "While", 2 \in DOMAIN n.kids, NEW x, x # "cont",
         NEW t, NEW f, NEW ta, NEW fa, t \in {"cont", x}, f \in {"cont", x}
  PROVE  \E e : ~e.open /\ ~e.loop /\ Legal("script", n, ShortCircuit(x, t, ta, f, fa), Blank, e)
<1> DEFINE S == ({} \cup {"cont"}) \cup {x}
           C == Ctx(S, {}, FALSE, FALSE)
           D == Ctx(S, {} \cup {"cont"}, FALSE, FALSE)
           Make == <<<<"newBasicBlock", "cont">>, <<"newBasicBlock", x>>>>
           Right == EmitBlock(x, <<<<"visit", 2>>, <<"jp_value", "cont">>>>)
           Fork == Branch(t, ta, f, fa)
           Add1 == <<<<"add_arg", "cont">>>>
           Answer == <<<<"answer_arg", "cont">>>>
<1>1. Legal("script", n, Make, Blank, C)
  <2>1. /\ Typed("script", n, <<"newBasicBlock", "cont">>, Blank, Ctx({} \cup {"cont"}, {}, FALSE, FALSE))
        /\ Typed("script", n, <<"newBasicBlock", x>>, Ctx({} \cup {"cont"}, {}, FALSE, FALSE), C)
    BY NewBlockCall DEF Blank
  <2>2. QED BY <2>1, LegalTwo
<1>2. Legal("script", n, Right, C, C)
  <2> DEFINE E == Ctx(S, {}, TRUE, FALSE)
  <2>1. "cont" \in E.slots
    BY DEF Ctx
  <2> HIDE DEF E
  <2>2. Legal("script", n, <<<<"visit", 2>>, <<"jp_value", "cont">>>>, E, E)
    BY <2>1, VisitJump DEF SlotCalls
  <2> USE DEF E
  <2>3. QED BY <2>2, EmitBlockLegal
<1>3. Legal("script", n, Fork, C, C)
  <2>1. t \in C.slots /\ f \in C.slots
    BY DEF Ctx
  <2>2. QED BY <2>1, BranchLegal
<1>4. Legal("script", n, Add1, C, D) /\ Legal("script", n, Answer, D, D)
  <2>1. /\ Typed("script", n, <<"add_arg", "cont">>, C, D)
        /\ Typed("script", n, <<"answer_arg", "cont">>, D, D)
    BY ArgCall
  <2>2. QED BY <2>1, LegalOne
<1>5. Legal("script", n, GoOn, D, D)
  <2>1. "cont" \in D.slots
    BY DEF Ctx
  <2>2. QED BY <2>1, GoOnLegal
<1>6. ~D.open /\ ~D.loop
  BY DEF Ctx
<1> HIDE DEF C, D, Make, Right, Fork, Add1, Answer
<1>7. Legal("script", n, Make \o Right, Blank, C)
  BY <1>1, <1>2, LegalConcat
<1>8. Legal("script", n, (Make \o Right) \o Fork, Blank, C)
  BY <1>3, <1>7, LegalConcat
<1>9. Legal("script", n, ((Make \o Right) \o Fork) \o Add1, Blank, D)
  BY <1>4, <1>8, LegalConcat
<1>10. Legal("script", n, (((Make \o Right) \o Fork) \o Add1) \o GoOn, Blank, D)
  BY <1>5, <1>9, LegalConcat
<1>11. Legal("script", n, ((((Make \o Right) \o Fork) \o Add1) \o GoOn) \o Answer, Blank, D)
  BY <1>4, <1>10, LegalConcat
<1>12. ShortCircuit(x, t, ta, f, fa) = ((((Make \o Right) \o Fork) \o Add1) \o GoOn) \o Answer
  BY Zenon DEF ShortCircuit, Make, Right, Fork, Add1, Answer
<1>13. QED BY <1>6, <1>11, <1>12, Zenon
\* An arm of an if.
LEMMA ArmLegal ==
  ASSUME NEW n, Plain(n), n.kind # "While", NEW i, i \in DOMAIN n.kids,
         NEW x, NEW S, x \notin S, "cont" \in S
  PROVE  Legal("script", n, Arm(x, i), Ctx(S, {}, FALSE, FALSE), Ctx(S \cup {x}, {}, FALSE, FALSE))
<1> DEFINE C == Ctx(S, {}, FALSE, FALSE)
           D == Ctx(S \cup {x}, {}, FALSE, FALSE)
           E == Ctx(S \cup {x}, {}, TRUE, FALSE)
<1>1. Legal("script", n, <<<<"newBasicBlock", x>>>>, C, D)
  <2>1. Typed("script", n, <<"newBasicBlock", x>>, C, D)
    BY NewBlockCall
  <2>2. QED BY <2>1, LegalOne
<1>2. "cont" \in E.slots
  BY DEF Ctx
<1>3. Legal("script", n, <<<<"visit", i>>, <<"jp", "cont">>>>, E, E)
  <2> HIDE DEF E
  <2>1. QED BY <1>2, VisitJump DEF SlotCalls
<1>4. Legal("script", n, EmitBlock(x, <<<<"visit", i>>, <<"jp", "cont">>>>), D, D)
  BY <1>3, EmitBlockLegal
<1>5. QED BY <1>1, <1>4, LegalConcat DEF Arm

\* If: the arms in blocks of their own, and a branch between them.
LEMMA IfLegal ==
  ASSUME NEW n, n.kind = "If", DOMAIN n.kids = 1..Len(n.kids), Len(n.kids) \in {2, 3}
  PROVE  \E e : ~e.open /\ ~e.loop /\ Legal("script", n, IfScript(n), Blank, e)
<1> DEFINE S1 == {} \cup {"cont"}
           S2 == S1 \cup {"then"}
           S3 == S2 \cup {"else"}
           C(S) == Ctx(S, {}, FALSE, FALSE)
           Make == <<<<"newBasicBlock", "cont">>>>
           Then == Arm("then", 2)
           Else == Arm("else", 3)
           Fork3 == Branch("then", <<>>, "else", <<>>)
           Fork2 == Branch("then", <<>>, "cont", <<>>)
<1>1. Plain(n) /\ n.kind # "While" /\ 2 \in DOMAIN n.kids
  <2>1. \A m \in {2, 3} : 2 \in 1..m
    OBVIOUS
  <2>2. QED BY <2>1 DEF Plain
<1>2. Legal("script", n, Make, Blank, C(S1))
  <2>1. Typed("script", n, <<"newBasicBlock", "cont">>, Blank, C(S1))
    BY <1>1, NewBlockCall DEF Blank
  <2>2. QED BY <2>1, LegalOne
<1>3. Legal("script", n, Then, C(S1), C(S2))
  BY <1>1, ArmLegal
<1>4. Legal("script", n, Make \o Then, Blank, C(S2))
  <2> HIDE DEF C, Make, Then
  <2>1. QED BY <1>2, <1>3, LegalConcat
<1>5. CASE Len(n.kids) = 3
  <2>1. 3 \in DOMAIN n.kids
    BY <1>5
  <2>2. Legal("script", n, Else, C(S2), C(S3))
    BY <1>1, <2>1, ArmLegal
  <2>3. {"then", "else", "cont"} \subseteq C(S3).slots /\ ~C(S3).open /\ ~C(S3).loop
    BY DEF Ctx
  <2> HIDE DEF C
  <2>4. Legal("script", n, Fork3, C(S3), C(S3)) /\ Legal("script", n, GoOn, C(S3), C(S3))
    BY <1>1, <2>3, BranchLegal, GoOnLegal
  <2> HIDE DEF Make, Then, Else, Fork3
  <2>5. Legal("script", n, Else \o Fork3, C(S2), C(S3))
    BY <2>2, <2>4, LegalConcat
  <2>6. Legal("script", n, (Make \o Then) \o (Else \o Fork3), Blank, C(S3))
    BY <1>4, <2>5, LegalConcat
  <2>7. Legal("script", n, ((Make \o Then) \o (Else \o Fork3)) \o GoOn, Blank, C(S3))
    BY <2>4, <2>6, LegalConcat
  <2>8. IfScript(n) = ((Make \o Then) \o (Else \o Fork3)) \o GoOn
    BY <1>5, Zenon DEF IfScript, Make, Then, Else, Fork3
  <2>9. QED BY <2>3, <2>7, <2>8, Zenon
<1>6. CASE Len(n.kids) # 3
  <2>1. {"then", "cont"} \subseteq C(S2).slots /\ ~C(S2).open /\ ~C(S2).loop
    BY DEF Ctx
  <2> HIDE DEF C
  <2>2. Legal("script", n, Fork2, C(S2), C(S2)) /\ Legal("script", n, GoOn, C(S2), C(S2))
    BY <1>1, <2>1, BranchLegal, GoOnLegal
  <2> HIDE DEF Make, Then, Fork2
  <2>3. Legal("script", n, (Make \o Then) \o Fork2, Blank, C(S2))
    BY <1>4, <2>2, LegalConcat
  <2>4. Legal("script", n, ((Make \o Then) \o Fork2) \o GoOn, Blank, C(S2))
    BY <2>2, <2>3, LegalConcat
  <2>5. IfScript(n) = ((Make \o Then) \o Fork2) \o GoOn
    BY <1>6, Zenon DEF IfScript, Make, Then, Fork2
  <2>6. QED BY <2>1, <2>4, <2>5, Zenon
<1>7. QED BY <1>5, <1>6

\* While: the condition is left open by the branch into the body.
LEMMA WhileLegal ==
  ASSUME NEW n, n.kind = "While", DOMAIN n.kids = {1, 2}
  PROVE  \E e : ~e.open /\ ~e.loop /\ Legal("script", n, WhileScript, Blank, e)
<1> DEFINE S1 == {} \cup {"cond"}
           S2 == S1 \cup {"body"}
           S3 == S2 \cup {"cont"}
           B == Ctx(S3, {}, FALSE, FALSE)
           C == Ctx(S3, {}, FALSE, TRUE)
           D == Ctx(S3, {}, TRUE, TRUE)
           Fork == Branch("body", <<>>, "cont", <<>>)
           Cond == EmitBlockOpen("cond", <<<<"visit", 1>>, <<"keep">>>> \o Fork)
           Enter == <<<<"jp", "cond">>>>
           SealCond == <<<<"seal", "cond">>>>
           Leave == <<<<"pop_cfd">>>>
<1>1. Plain(n) /\ 1 \in DOMAIN n.kids /\ 2 \in DOMAIN n.kids
  BY DEF Plain
<1>2. /\ {"cond", "body", "cont"} \subseteq C.slots /\ {"cond", "body", "cont"} \subseteq D.slots
      /\ D.loop /\ ~B.open /\ ~B.loop
  BY DEF Ctx
<1>3. Legal("script", n, WhileBlocks, Blank, C)
  <2> DEFINE X1 == Ctx(S1, {}, FALSE, FALSE)
             X2 == Ctx(S2, {}, FALSE, FALSE)
  <2>1. /\ Typed("script", n, <<"newBasicBlock", "cond">>, Blank, X1)
        /\ Typed("script", n, <<"newBasicBlock", "body">>, X1, X2)
        /\ Typed("script", n, <<"newBasicBlock", "cont">>, X2, B)
    BY <1>1, NewBlockCall DEF Blank
  <2>2. Typed("script", n, <<"push_cfd">>, B, C)
    BY <1>1, LoopCall
  <2> HIDE DEF X1, X2, B, C
  <2>3. QED BY <2>1, <2>2, LegalFour DEF WhileBlocks
<1>4. Typed("script", n, <<"pop_cfd">>, C, B)
  BY <1>1, LoopCall
<1>5. Legal("script", n, <<<<"visit", 1>>, <<"keep">>>> \o Fork, D, D)
  <2> HIDE DEF D
  <2>1. Typed("script", n, <<"visit", 1>>, D, D) /\ Typed("script", n, <<"keep">>, D, D)
    BY <1>1, VisitCall, FreeCall DEF FreeCalls
  <2>2. Legal("script", n, <<<<"visit", 1>>, <<"keep">>>>, D, D)
    BY <2>1, LegalTwo
  <2>3. Legal("script", n, Fork, D, D)
    BY <1>1, <1>2, BranchLegal
  <2> HIDE DEF Fork
  <2>4. QED BY <2>2, <2>3, LegalConcat
<1>6. Legal("script", n, Cond, C, C)
  BY <1>1, <1>5, EmitBlockLegal
<1>7. Legal("script", n, WhileBody, C, C)
  <2>1. Legal("script", n, <<<<"visit", 2>>, <<"jp", "cont">>>>, D, D)
    <3> HIDE DEF D
    <3>1. QED BY <1>1, <1>2, VisitJump DEF SlotCalls
  <2>2. QED BY <1>1, <2>1, EmitBlockLegal DEF WhileBody
<1> HIDE DEF B, C, D, Cond
<1>8. Legal("script", n, Enter, C, C) /\ Legal("script", n, SealCond, C, C)
  <2>1. Typed("script", n, <<"jp", "cond">>, C, C) /\ Typed("script", n, <<"seal", "cond">>, C, C)
    BY <1>1, <1>2, SlotCall DEF SlotCalls
  <2>2. QED BY <2>1, LegalOne
<1>9. Legal("script", n, GoOn, C, C) /\ Legal("script", n, Leave, C, B)
  BY <1>1, <1>2, <1>4, GoOnLegal, LegalOne
<1> HIDE DEF Enter, SealCond, Leave
<1>10. Legal("script", n, (SealCond \o GoOn) \o Leave, C, B)
  <2>1. Legal("script", n, SealCond \o GoOn, C, C)
    BY <1>8, <1>9, LegalConcat
  <2>2. QED BY <1>9, <2>1, LegalConcat
<1>11. Legal("script", n, ((WhileBlocks \o Cond) \o WhileBody) \o Enter, Blank, C)
  <2>1. Legal("script", n, WhileBlocks \o Cond, Blank, C)
    BY <1>3, <1>6, LegalConcat
  <2>2. Legal("script", n, (WhileBlocks \o Cond) \o WhileBody, Blank, C)
    BY <1>7, <2>1, LegalConcat
  <2>3. QED BY <1>8, <2>2, LegalConcat
<1>12. Legal("script", n, (((WhileBlocks \o Cond) \o WhileBody) \o Enter) \o ((SealCond \o GoOn) \o Leave), Blank, B)
  BY <1>10, <1>11, LegalConcat
<1>13. WhileScript = (((WhileBlocks \o Cond) \o WhileBody) \o Enter) \o ((SealCond \o GoOn) \o Leave)
  BY Zenon DEF WhileScript, WhileEnd, Enter, SealCond, Leave, Cond
<1>14. QED BY <1>2, <1>12, <1>13, Zenon
---------------------------------------------------------------------------
(* Visits and the unit as a whole are legal.                               *)

\* A visited node has the parts its kind calls for.
LEMMA NodeFacts ==
  ASSUME NEW n, IsNode(n)
  PROVE  /\ n.kind \in Kinds /\ IsSeq(n.kids)
         /\ Len(n.kids) \in Arities(n.kind) /\ DOMAIN n.kids = 1..Len(n.kids)
<1>1. PICK loop : <<n, loop>> \in Nodes
  BY DEF IsNode
<1>2. n.kind \in Kinds /\ n.kids \in Seq({n.kids[i] : i \in DOMAIN n.kids}) /\ Len(n.kids) \in Arities(n.kind)
  BY <1>1, ProgramsAssumption DEF WellFormed
<1>3. IsSeq(n.kids)
  BY <1>2 DEF IsSeq
<1>4. QED BY <1>2, <1>3, SeqFacts

\* The script of a block's visit.
LEMMA BlockLegal ==
  ASSUME NEW n, n.kind = "Block", IsSeq(n.kids), DOMAIN n.kids = 1..Len(n.kids)
  PROVE  Legal("script", n, BlockScript(n), Blank, Blank)
<1> DEFINE m == Len(n.kids)
           mid == [j \in 1..(2 * m) |-> IF j % 2 = 1 THEN <<"visit", (j + 1) \div 2>> ELSE <<"stop_if_term">>]
           Open == <<<<"push_env">>>>
           Close == <<<<"pop_env">>>>
<1>1. m \in Nat /\ 2 * m \in Nat
  BY SeqFacts
<1>2. /\ Typed("script", n, <<"push_env">>, Blank, Blank)
      /\ Typed("script", n, <<"pop_env">>, Blank, Blank)
      /\ Typed("script", n, <<"stop_if_term">>, Blank, Blank)
  BY DEF Typed, NodeCall, BlockCall
<1>3. ASSUME NEW i \in 1..m PROVE Typed("script", n, <<"visit", i>>, Blank, Blank)
  BY <1>3 DEF Typed, NodeCall, BlockCall
<1>4. ASSUME NEW j \in 1..(2 * m) PROVE Typed("script", n, mid[j], Blank, Blank)
  <2>1. CASE j % 2 = 1
    <3>1. (j + 1) \div 2 \in 1..m
      BY <1>1, <2>1
    <3>2. mid[j] = <<"visit", (j + 1) \div 2>>
      BY <2>1
    <3> HIDE DEF mid
    <3>3. QED BY <1>3, <3>1, <3>2
  <2>2. CASE j % 2 # 1
    <3>1. mid[j] = <<"stop_if_term">>
      BY <2>2
    <3>2. QED BY <1>2, <3>1
  <2>3. QED BY <2>1, <2>2
<1>5. Legal("script", n, mid, Blank, Blank)
  <2>1. mid = [j \in 1..(2 * m) |-> mid[j]]
    OBVIOUS
  <2> HIDE DEF mid, m
  <2>2. IsSeq(mid) /\ Len(mid) = 2 * m
    BY <1>1, <2>1, FunctionIsSeq
  <2>3. QED BY <1>4, <2>2, LegalSame
<1>6. Legal("script", n, Open, Blank, Blank) /\ Legal("script", n, Close, Blank, Blank)
  BY <1>2, LegalOne
<1>7. BlockScript(n) = (Open \o mid) \o Close
  BY Zenon DEF BlockScript
<1> HIDE DEF mid, Open, Close
<1>8. Legal("script", n, Open \o mid, Blank, Blank)
  BY <1>5, <1>6, LegalConcat
<1>9. QED BY <1>6, <1>7, <1>8, LegalConcat

\* Visits that begin with a part, if there is one, and go on with free calls.
LEMMA FirstLegal ==
  ASSUME NEW n, Plain(n), n.kind # "While", IsSeq(n.kids), DOMAIN n.kids = 1..Len(n.kids),
         NEW s, Legal("script", n, s, Blank, Blank)
  PROVE  Legal("script", n, VisitFirst(n) \o s, Blank, Blank)
<1>1. CASE n.kids = <<>>
  <2>1. Legal("script", n, <<>>, Blank, Blank)
    BY LegalEmpty
  <2>2. Legal("script", n, <<>> \o s, Blank, Blank)
    BY <2>1, LegalConcat
  <2>3. QED BY <1>1, <2>2 DEF VisitFirst
<1>2. CASE n.kids # <<>>
  <2>1. Len(n.kids) \in Nat /\ Len(n.kids) # 0
    BY <1>2, SeqFacts, EmptyFacts
  <2>2. 1 \in DOMAIN n.kids
    BY <2>1
  <2>3. Typed("script", n, <<"visit", 1>>, Blank, Blank)
    BY <2>2, VisitCall
  <2>4. Legal("script", n, <<<<"visit", 1>>>>, Blank, Blank)
    BY <2>3, LegalOne
  <2>5. Legal("script", n, <<<<"visit", 1>>>> \o s, Blank, Blank)
    BY <2>4, LegalConcat
  <2>6. QED BY <1>2, <2>5 DEF VisitFirst
<1>3. QED BY <1>1, <1>2

\* Every visit begins with a legal script.
LEMMA ScriptLegal ==
  ASSUME NEW n, IsNode(n)
  PROVE  \E e : ~e.open /\ ~e.loop /\ Legal("script", n, Script(n), Blank, e)
<1>1. /\ n.kind \in Kinds /\ IsSeq(n.kids)
      /\ Len(n.kids) \in Arities(n.kind) /\ DOMAIN n.kids = 1..Len(n.kids)
  BY NodeFacts
<1>2. ~Blank.open /\ ~Blank.loop
  BY DEF Blank, Ctx
<1>3. CASE n.kind = "While"
  <2>1. DOMAIN n.kids = {1, 2}
    <3>1. Len(n.kids) = 2
      BY <1>1, <1>3 DEF Arities
    <3>2. 1..2 = {1, 2}
      OBVIOUS
    <3>3. QED BY <1>1, <3>1, <3>2
  <2>2. Script(n) = WhileScript
    BY <1>3 DEF Script
  <2>3. QED BY <1>3, <2>1, <2>2, WhileLegal
<1>4. CASE n.kind = "Block"
  <2>1. Script(n) = BlockScript(n)
    BY <1>4 DEF Script
  <2>2. QED BY <1>1, <1>2, <1>4, <2>1, BlockLegal
<1>5. CASE n.kind \in {"IntLiteral", "DeclRef"}
  <2>1. Script(n) = <<<<"literal">>>> \/ Script(n) = <<<<"readVar">>>>
    BY <1>5 DEF Script
  <2>2. Typed("script", n, <<"literal">>, Blank, Blank) /\ Typed("script", n, <<"readVar">>, Blank, Blank)
    BY <1>5, FreeCall DEF FreeCalls, Plain
  <2>3. Legal("script", n, Script(n), Blank, Blank)
    BY <2>1, <2>2, LegalOne
  <2>4. QED BY <1>2, <2>3
<1>6. CASE n.kind \in {"getint", "Call", "VarDecl"}
  <2>1. /\ Plain(n) /\ n.kind # "While"
        /\ \/ Script(n) = VisitFirst(n) \o <<<<"call">>>>
           \/ Script(n) = VisitFirst(n) \o <<<<"declare">>>>
    BY <1>6 DEF Script, Plain
  <2>2. Typed("script", n, <<"call">>, Blank, Blank) /\ Typed("script", n, <<"declare">>, Blank, Blank)
    BY <2>1, FreeCall DEF FreeCalls
  <2>3. Legal("script", n, <<<<"call">>>>, Blank, Blank) /\ Legal("script", n, <<<<"declare">>>>, Blank, Blank)
    BY <2>2, LegalOne
  <2>4. Legal("script", n, Script(n), Blank, Blank)
    BY <1>1, <2>1, <2>3, FirstLegal
  <2>5. QED BY <1>2, <2>4
<1>7. CASE n.kind = "Return"
  <2>1. Plain(n) /\ n.kind # "While" /\ Script(n) = VisitFirst(n) \o <<<<"keep">>, <<"rt">>>>
    BY <1>7 DEF Script, Plain
  <2>2. Typed("script", n, <<"keep">>, Blank, Blank) /\ Typed("script", n, <<"rt">>, Blank, Blank)
    BY <2>1, FreeCall DEF FreeCalls
  <2>3. Legal("script", n, <<<<"keep">>, <<"rt">>>>, Blank, Blank)
    BY <2>2, LegalTwo
  <2>4. Legal("script", n, Script(n), Blank, Blank)
    BY <1>1, <2>1, <2>3, FirstLegal
  <2>5. QED BY <1>2, <2>4
<1>8. CASE n.kind = "Assign"
  <2>1. Plain(n) /\ n.kind # "While" /\ Script(n) = <<<<"visit", 1>>, <<"assign">>>> /\ 1 \in DOMAIN n.kids
    <3>1. Len(n.kids) = 1 /\ 1 \in 1..1
      BY <1>1, <1>8 DEF Arities
    <3>2. QED BY <1>1, <1>8, <3>1 DEF Script, Plain
  <2>2. Typed("script", n, <<"visit", 1>>, Blank, Blank) /\ Typed("script", n, <<"assign">>, Blank, Blank)
    BY <2>1, FreeCall, VisitCall DEF FreeCalls
  <2>3. Legal("script", n, Script(n), Blank, Blank)
    BY <2>1, <2>2, LegalTwo
  <2>4. QED BY <1>2, <2>3
<1>9. CASE n.kind \in {"And", "Or", "If"}
  <2>1. Plain(n) /\ n.kind # "While" /\ Script(n) = <<<<"visit", 1>>, <<"decide">>>>
    BY <1>9 DEF Script, Plain
  <2>2. 1 \in DOMAIN n.kids
    <3>1. Len(n.kids) \in {2, 3}
      BY <1>1, <1>9 DEF Arities
    <3>2. \A m \in {2, 3} : 1 \in 1..m
      OBVIOUS
    <3>3. QED BY <1>1, <3>1, <3>2
  <2>3. Typed("script", n, <<"visit", 1>>, Blank, Blank) /\ Typed("script", n, <<"decide">>, Blank, Blank)
    <3>1. Typed("script", n, <<"decide">>, Blank, Blank)
      BY <1>9 DEF Typed, NodeCall, BlockCall
    <3>2. QED BY <2>1, <2>2, <3>1, VisitCall
  <2>4. Legal("script", n, Script(n), Blank, Blank)
    BY <2>1, <2>3, LegalTwo
  <2>5. QED BY <1>2, <2>4
<1>10. CASE n.kind \in {"Break", "Continue"}
  <2>1. \E x \in {"cond", "cont"} : Script(n) = <<<<"jp_loop", x>>, <<"seal_current">>>>
    BY <1>10 DEF Script
  <2>2. ASSUME NEW x \in {"cond", "cont"}
        PROVE  Typed("script", n, <<"jp_loop", x>>, Blank, Blank) /\ Typed("script", n, <<"seal_current">>, Blank, Blank)
    BY <1>10 DEF Typed, NodeCall, BlockCall
  <2>3. Legal("script", n, Script(n), Blank, Blank)
    BY <2>1, <2>2, LegalTwo
  <2>4. QED BY <1>2, <2>3
<1>11. QED
  BY <1>1, <1>3, <1>4, <1>5, <1>6, <1>7, <1>8, <1>9, <1>10 DEF Kinds

\* And so does what follows a decision.
LEMMA DecisionLegal ==
  ASSUME NEW n, IsNode(n), n.kind \in {"And", "Or", "If"}, NEW v
  PROVE  /\ \E e : ~e.open /\ ~e.loop /\ Legal("script", n, Folded(n, v), Blank, e)
         /\ \E e : ~e.open /\ ~e.loop /\ Legal("script", n, Lowered(n), Blank, e)
<1>1. /\ DOMAIN n.kids = 1..Len(n.kids) /\ n.kind # "While" /\ Plain(n)
      /\ n.kind \in {"And", "Or"} => Len(n.kids) = 2
      /\ n.kind = "If" => Len(n.kids) \in {2, 3}
  BY NodeFacts DEF Arities, Plain
<1>2. 2 \in DOMAIN n.kids /\ (Len(n.kids) = 3 => 3 \in DOMAIN n.kids)
  <2>1. Len(n.kids) \in {2, 3}
    BY <1>1
  <2>2. \A m \in {2, 3} : 2 \in 1..m /\ (m = 3 => 3 \in 1..m)
    OBVIOUS
  <2>3. QED BY <1>1, <2>1, <2>2
<1>3. ~Blank.open /\ ~Blank.loop
  BY DEF Blank, Ctx
<1>4. Legal("script", n, Folded(n, v), Blank, Blank)
  <2>1. \/ Folded(n, v) = <<>>
        \/ Folded(n, v) = <<<<"visit", 2>>>>
        \/ Len(n.kids) = 3 /\ Folded(n, v) = <<<<"visit", 3>>>>
    BY DEF Folded
  <2>2. /\ Typed("script", n, <<"visit", 2>>, Blank, Blank)
        /\ Len(n.kids) = 3 => Typed("script", n, <<"visit", 3>>, Blank, Blank)
    BY <1>1, <1>2, VisitCall
  <2>3. QED BY <2>1, <2>2, LegalEmpty, LegalOne
<1>5. CASE n.kind = "And"
  <2>1. \E e : ~e.open /\ ~e.loop /\ Legal("script", n, ShortCircuit("true", "true", <<>>, "cont", <<Im(FALSE)>>), Blank, e)
    BY <1>1, <1>2, ShortCircuitLegal
  <2>2. AndScript = ShortCircuit("true", "true", <<>>, "cont", <<Im(FALSE)>>)
    BY Zenon DEF AndScript, ShortCircuit
  <2>3. Lowered(n) = AndScript
    BY <1>5 DEF Lowered
  <2>4. QED BY <1>3, <1>4, <2>1, <2>2, <2>3, Zenon
<1>6. CASE n.kind = "Or"
  <2>1. \E e : ~e.open /\ ~e.loop /\ Legal("script", n, ShortCircuit("false", "cont", <<Im(TRUE)>>, "false", <<>>), Blank, e)
    BY <1>1, <1>2, ShortCircuitLegal
  <2>2. OrScript = ShortCircuit("false", "cont", <<Im(TRUE)>>, "false", <<>>)
    BY Zenon DEF OrScript, ShortCircuit
  <2>3. Lowered(n) = OrScript
    BY <1>6 DEF Lowered
  <2>4. QED BY <1>3, <1>4, <2>1, <2>2, <2>3, Zenon
<1>7. CASE n.kind = "If"
  <2>1. \E e : ~e.open /\ ~e.loop /\ Legal("script", n, IfScript(n), Blank, e)
    BY <1>1, <1>7, IfLegal
  <2>2. QED BY <1>3, <1>4, <1>7, <2>1 DEF Lowered
<1>8. QED BY <1>5, <1>6, <1>7
\* The calls of enter are legal: each function opens before it gets a block.
LEMMA UnitLegal ==
  ASSUME NEW p, p.order \in Seq(Proc)
  PROVE  Legal("unit", p, Unit(p.order), "no code", "body")
<1> DEFINE order == p.order
           all == Append(order, "main")
           m == Len(all)
           rest == [j \in 1..(6 * m) |-> EmitFunction(all[(j + 5) \div 6])[((j + 5) % 6) + 1]]
           tr == [j \in 0..(6 * m) |-> IF j <= 1 THEN "outside" ELSE IF j % 6 = 2 THEN "entered" ELSE "body"]
           Setup == <<<<"setup_code">>>>
<1>1. /\ m \in Nat /\ m >= 1 /\ 6 * m \in Nat
      /\ \A i \in 1..m : IsFunction(p, all[i])
  <2>1. all \in Seq(Proc) /\ m = Len(order) + 1 /\ Len(order) \in Nat /\ all[m] = "main"
    BY AppendProperties, ProgramsAssumption
  <2>2. \A i \in 1..Len(order) : all[i] = order[i] /\ i \in DOMAIN order
    BY AppendProperties, ProgramsAssumption
  <2> HIDE DEF all, order
  <2>3. \A i \in 1..m : i = m \/ i \in 1..Len(order)
    BY <2>1
  <2>4. QED BY <2>1, <2>2, <2>3 DEF IsFunction, order
<1> HIDE DEF all, order, m
<1>2. rest = [j \in 1..(6 * m) |-> rest[j]]
  OBVIOUS
<1>3. ASSUME NEW j \in 1..(6 * m) PROVE Typed("unit", p, rest[j], tr[j - 1], tr[j])
  <2> DEFINE q == (j - 1) \div 6
             k == ((j + 5) % 6) + 1
             f == all[(j + 5) \div 6]
  <2>1. /\ q \in Nat /\ k \in 1..6 /\ j = 6 * q + k /\ (j + 5) \div 6 = q + 1 /\ q + 1 \in 1..m
        /\ j - 1 \in 0..(6 * m) /\ j \in 0..(6 * m)
    BY <1>1
  <2>2. IsFunction(p, f)
    BY <1>1, <2>1
  <2>3. rest[j] = EmitFunction(f)[k]
    BY <2>1
  <2>4. /\ tr[j - 1] = IF j - 1 <= 1 THEN "outside" ELSE IF (j - 1) % 6 = 2 THEN "entered" ELSE "body"
        /\ tr[j] = IF j <= 1 THEN "outside" ELSE IF j % 6 = 2 THEN "entered" ELSE "body"
    BY <2>1
  <2>5. k = 1 \/ k = 2 \/ k = 3 \/ k = 4 \/ k = 5 \/ k = 6
    BY <2>1
  <2>6. /\ k = 1 => tr[j - 1] \in {"outside", "body"} /\ tr[j] = tr[j - 1]
        /\ k = 2 => tr[j - 1] \in {"outside", "body"} /\ tr[j] = "entered"
        /\ k = 3 => tr[j - 1] = "entered" /\ tr[j] = "body"
        /\ k \in {4, 5, 6} => tr[j - 1] = "body" /\ tr[j] = "body"
    <3> HIDE DEF k, q, tr
    <3>1. j % 6 = k % 6 /\ (j - 1) % 6 = k - 1
      BY <2>1
    <3>2. /\ k = 1 => j - 1 = 0 \/ j - 1 >= 6
          /\ j = k \/ j >= 6 + k
      BY <2>1
    <3>3. QED BY <2>1, <2>4, <2>5, <3>1, <3>2
  <2> HIDE DEF k, f, rest, tr
  <2>7. /\ EmitFunction(f)[1] = <<"push_env">> /\ EmitFunction(f)[2] = <<"entry_function", f>>
        /\ EmitFunction(f)[3] = <<"first_block">> /\ EmitFunction(f)[4] = <<"param", f>>
        /\ EmitFunction(f)[5] = <<"body", f>> /\ EmitFunction(f)[6] = <<"pop_env">>
    BY DEF EmitFunction
  <2>8. UnitCall(p, EmitFunction(f)[k], tr[j - 1], tr[j])
    <3> DEFINE c == tr[j - 1]
               d == tr[j]
    <3> HIDE DEF c, d
    <3>1. ASSUME c \in {"outside", "body"} PROVE UnitCall(p, <<"push_env">>, c, c)
      BY <3>1 DEF UnitCall
    <3>2. ASSUME c \in {"outside", "body"} PROVE UnitCall(p, <<"entry_function", f>>, c, "entered")
      BY <2>2, <3>2 DEF UnitCall
    <3>3. UnitCall(p, <<"first_block">>, "entered", "body")
      BY DEF UnitCall
    <3>4. UnitCall(p, <<"param", f>>, "body", "body") /\ UnitCall(p, <<"body", f>>, "body", "body")
      BY <2>2 DEF UnitCall
    <3>5. UnitCall(p, <<"pop_env">>, "body", "body")
      BY DEF UnitCall
    <3>6. /\ k = 1 => c \in {"outside", "body"} /\ d = c
          /\ k = 2 => c \in {"outside", "body"} /\ d = "entered"
          /\ k = 3 => c = "entered" /\ d = "body"
          /\ k = 4 => c = "body" /\ d = "body"
          /\ k = 5 => c = "body" /\ d = "body"
          /\ k = 6 => c = "body" /\ d = "body"
      BY <2>6 DEF c, d
    <3>7. UnitCall(p, EmitFunction(f)[k], c, d)
      BY <2>5, <2>7, <3>1, <3>2, <3>3, <3>4, <3>5, <3>6
    <3>8. QED BY <3>7 DEF c, d
  <2>9. QED BY <2>3, <2>8 DEF Typed
<1>4. tr[0] = "outside" /\ tr[6 * m] = "body"
  <2>1. 0 \in 0..(6 * m) /\ 6 * m \in 0..(6 * m) /\ ~(6 * m <= 1) /\ (6 * m) % 6 # 2 /\ 0 <= 1
    BY <1>1
  <2>2. QED BY <2>1
<1> HIDE DEF rest, tr
<1>5. IsSeq(rest) /\ Len(rest) = 6 * m
  BY <1>1, <1>2, FunctionIsSeq
<1>6. Legal("unit", p, rest, "outside", "body")
  BY <1>3, <1>4, <1>5 DEF Legal
<1>7. Legal("unit", p, Setup, "no code", "outside")
  <2>1. Typed("unit", p, <<"setup_code">>, "no code", "outside")
    BY DEF Typed, UnitCall
  <2>2. QED BY <2>1, LegalOne
<1>8. Unit(p.order) = Setup \o rest
  BY Zenon DEF Unit, all, m, order, rest
<1> HIDE DEF Setup
<1>9. QED BY <1>6, <1>7, <1>8, LegalConcat
---------------------------------------------------------------------------
(* Calls that look for operands come before the rest.                      *)

NoReads(s) == \A j \in 1..Len(s) : s[j][1] \notin ReadCalls
ReadsFirst(s) == \A j, k \in 1..Len(s) : s[k][1] \in ReadCalls /\ j <= k => s[j][1] \in ReadCalls
AllReads(s) == IsSeq(s) /\ \A j \in 1..Len(s) : s[j][1] \in ReadCalls

\* A script and the calls of enter have none.
LEMMA ScriptHasNoReads ==
  ASSUME NEW n, NEW s, NEW c, NEW e
  PROVE  /\ Legal("script", n, s, c, e) => NoReads(s) /\ Legal("visit", n, s, c, e)
         /\ Legal("unit", n, s, c, e) => NoReads(s)
<1>1. ASSUME NEW call, NEW x, NEW y, Typed("script", n, call, x, y)
      PROVE  call[1] \notin ReadCalls /\ Typed("visit", n, call, x, y)
  BY <1>1 DEF Typed, NodeCall, ReadCalls
<1>2. ASSUME NEW call, NEW x, NEW y, Typed("unit", n, call, x, y)
      PROVE  call[1] \notin ReadCalls
  BY <1>2 DEF Typed, UnitCall, ReadCalls
<1>3. QED BY <1>1, <1>2 DEF Legal, NoReads

LEMMA ReadsTail ==
  ASSUME NEW s, IsSeq(s), Len(s) # 0, ReadsFirst(s)
  PROVE  /\ ReadsFirst(Tail(s))
         /\ s[1][1] \notin ReadCalls => NoReads(s) /\ NoReads(Tail(s))
<1>1. /\ Len(s) \in Nat /\ Len(Tail(s)) = Len(s) - 1
      /\ \A i \in 1..(Len(s) - 1) : Tail(s)[i] = s[i + 1] /\ i + 1 \in 1..Len(s)
  BY SeqFacts, TailFacts
<1>2. 1 \in 1..Len(s) /\ \A k \in 1..Len(s) : 1 <= k
  BY <1>1
<1>3. s[1][1] \notin ReadCalls => NoReads(s)
  BY <1>2 DEF ReadsFirst, NoReads
<1>4. ReadsFirst(Tail(s))
  <2> SUFFICES ASSUME NEW j \in 1..(Len(s) - 1), NEW k \in 1..(Len(s) - 1), s[k + 1][1] \in ReadCalls, j <= k
               PROVE  s[j + 1][1] \in ReadCalls
    BY <1>1 DEF ReadsFirst
  <2>1. j + 1 \in 1..Len(s) /\ k + 1 \in 1..Len(s) /\ j + 1 <= k + 1
    BY <1>1
  <2>2. QED BY <2>1 DEF ReadsFirst
<1>5. QED BY <1>1, <1>3, <1>4 DEF NoReads

LEMMA ReadsConcat ==
  ASSUME NEW r, AllReads(r), NEW s, IsSeq(s), ReadsFirst(s)
  PROVE  ReadsFirst(r \o s)
<1> DEFINE a == Len(r)
           b == Len(s)
           t == r \o s
<1>1. /\ a \in Nat /\ b \in Nat /\ Len(t) = a + b
      /\ \A i \in 1..a : t[i] = r[i]
      /\ \A i \in 1..b : t[a + i] = s[i]
  <2>1. IsSeq(r)
    BY DEF AllReads
  <2>2. QED BY <2>1, SeqFacts, ConcatFacts
<1>2. \A i \in 1..a : t[i][1] \in ReadCalls
  BY <1>1 DEF AllReads
<1> HIDE DEF a, b, t
<1>3. ASSUME NEW j \in 1..(a + b), NEW k \in 1..(a + b), t[k][1] \in ReadCalls, j <= k
      PROVE  t[j][1] \in ReadCalls
  <2>1. CASE j <= a
    BY <1>1, <1>2, <2>1
  <2>2. CASE ~(j <= a)
    <3>1. /\ j - a \in 1..b /\ k - a \in 1..b /\ j - a <= k - a
          /\ a + (j - a) = j /\ a + (k - a) = k
      BY <1>1, <1>3, <2>2
    <3>2. t[j] = s[j - a] /\ t[k] = s[k - a]
      BY <1>1, <3>1
    <3>3. QED BY <1>3, <3>1, <3>2 DEF ReadsFirst, b
  <2>3. QED BY <2>1, <2>2
<1>4. ReadsFirst(t)
  BY <1>1, <1>3 DEF ReadsFirst
<1>5. QED BY <1>4 DEF t

\* More calls that look for operands, in front of the rest.
LEMMA LegalReads ==
  ASSUME NEW n, NEW r, AllReads(r), NEW s, NEW c, NEW e, Legal("visit", n, s, c, e)
  PROVE  Legal("visit", n, r \o s, c, e)
<1>1. \A j \in 1..Len(r) : Typed("visit", n, r[j], c, c)
  BY DEF AllReads, Typed
<1>2. Legal("visit", n, r, c, c)
  BY <1>1, LegalSame DEF AllReads
<1>3. QED BY <1>2, LegalConcat

---------------------------------------------------------------------------
(* The frames.  sv and lp count the blocks saved and the loops noted by    *)
(* the frames below, G are the blocks of the current graph, and A those    *)
(* blocks that have parameters.                                            *)

IsFrame(f) == f = [node |-> f.node, todo |-> f.todo, slots |-> f.slots, kept |-> f.kept]

Opened(c) == IF c.open THEN 1 ELSE 0
Looped(c) == IF c.loop THEN 1 ELSE 0

SlotsOK(slots, c, G, A) ==
  /\ DOMAIN slots = c.slots
  /\ \A x \in c.slots : slots[x] \in G
  /\ \A x \in c.args : x \in c.slots /\ slots[x] \in A

\* A visit that has l loops around it.
FrameOK(f, c, l, G, A) ==
  /\ IsFrame(f)
  /\ \E loop : <<f.node, loop>> \in Nodes /\ (loop => l > 0)
  /\ \E e : ~e.open /\ ~e.loop /\ Legal("visit", f.node, f.todo, c, e)
  /\ SlotsOK(f.slots, c, G, A)

\* The frame of enter.
UnitOK(p, f, ph) ==
  /\ IsFrame(f)
  /\ f.node = p
  /\ Legal("unit", p, f.todo, ph, "body")

StackOK(p, fr, ph, ns, nl, G, A, ctx, sv, lp) ==
  /\ IsSeq(fr) /\ Len(fr) # 0
  /\ UnitOK(p, fr[1], ph)
  /\ ctx[1] = Blank /\ sv[1] = 0 /\ lp[1] = 0
  /\ Len(fr) > 1 => ph = "body"
  /\ \A i \in 2..Len(fr) : FrameOK(fr[i], ctx[i], lp[i], G, A)
  /\ \A i \in 1..Len(fr) : sv[i] \in Nat /\ lp[i] \in Nat
  /\ \A i \in 1..(Len(fr) - 1) : /\ sv[i + 1] = sv[i] + Opened(ctx[i])
                                 /\ lp[i + 1] = lp[i] + Looped(ctx[i])
                                 /\ NoReads(fr[i].todo)
  /\ ReadsFirst(fr[Len(fr)].todo)
  /\ ns = sv[Len(fr)] + Opened(ctx[Len(fr)])
  /\ nl = lp[Len(fr)] + Looped(ctx[Len(fr)])

LEMMA FrameGrows ==
  ASSUME NEW f, NEW c, NEW l, NEW G, NEW A, NEW H, NEW B, FrameOK(f, c, l, G, A), G \subseteq H, A \subseteq B
  PROVE  FrameOK(f, c, l, H, B)
  BY DEF FrameOK, SlotsOK

\* The innermost visit goes on.
LEMMA ReplaceTop ==
  ASSUME NEW p, NEW fr, NEW ph, NEW ns, NEW nl, NEW G, NEW A, NEW ctx, NEW sv, NEW lp,
         StackOK(p, fr, ph, ns, nl, G, A, ctx, sv, lp), Len(fr) > 1,
         NEW f, NEW d, NEW H, NEW B, NEW ms, NEW ml, G \subseteq H, A \subseteq B,
         FrameOK(f, d, lp[Len(fr)], H, B), ReadsFirst(f.todo),
         ms = sv[Len(fr)] + Opened(d), ml = lp[Len(fr)] + Looped(d)
  PROVE  \E dtx : StackOK(p, Append(SubSeq(fr, 1, Len(fr) - 1), f), ph, ms, ml, H, B, dtx, sv, lp)
<1> DEFINE n == Len(fr)
           front == SubSeq(fr, 1, n - 1)
           gr == Append(front, f)
           dtx == [i \in 1..n |-> IF i = n THEN d ELSE ctx[i]]
<1>1. IsSeq(fr) /\ n \in Nat /\ n > 1
  BY SeqFacts DEF StackOK
<1>2. /\ IsSeq(front) /\ Len(front) = n - 1
      /\ \A i \in 1..(n - 1) : front[i] = fr[i]
  BY <1>1, FrontFacts
<1>3. /\ IsSeq(gr) /\ Len(gr) = n /\ gr[n] = f
      /\ \A i \in 1..(n - 1) : gr[i] = fr[i]
  <2> HIDE DEF front, n
  <2>1. QED BY <1>1, <1>2, AppendFacts
<1>4. UnitOK(p, fr[1], ph) /\ ph = "body" /\ ctx[1] = Blank /\ sv[1] = 0 /\ lp[1] = 0
  BY DEF StackOK
<1>5. \A i \in 2..n : FrameOK(fr[i], ctx[i], lp[i], G, A)
  BY DEF StackOK
<1>6. \A i \in 1..n : sv[i] \in Nat /\ lp[i] \in Nat
  BY DEF StackOK
<1>7. \A i \in 1..(n - 1) : /\ sv[i + 1] = sv[i] + Opened(ctx[i])
                            /\ lp[i + 1] = lp[i] + Looped(ctx[i])
                            /\ NoReads(fr[i].todo)
  BY DEF StackOK
<1>8. FrameOK(f, d, lp[n], H, B) /\ ms = sv[n] + Opened(d) /\ ml = lp[n] + Looped(d)
  OBVIOUS
<1> HIDE DEF n, front, gr
<1>9. dtx[n] = d /\ \A i \in 1..(n - 1) : dtx[i] = ctx[i]
  BY <1>1
<1> HIDE DEF dtx
<1>10. 1 \in 1..(n - 1) /\ n # 0 /\ \A i \in 2..n : i = n \/ (i \in 1..(n - 1) /\ i \in 2..n)
  BY <1>1
<1>11. \A i \in 2..n : FrameOK(gr[i], dtx[i], lp[i], H, B)
  <2> SUFFICES ASSUME NEW i \in 2..n PROVE FrameOK(gr[i], dtx[i], lp[i], H, B)
    OBVIOUS
  <2>1. CASE i = n
    BY <1>3, <1>8, <1>9, <2>1
  <2>2. CASE i \in 1..(n - 1)
    <3>1. FrameOK(fr[i], ctx[i], lp[i], H, B)
      BY <1>5, FrameGrows
    <3>2. QED BY <1>3, <1>9, <2>2, <3>1
  <2>3. QED BY <1>10, <2>1, <2>2
<1>12. StackOK(p, gr, ph, ms, ml, H, B, dtx, sv, lp)
  BY <1>3, <1>4, <1>6, <1>7, <1>8, <1>9, <1>10, <1>11 DEF StackOK
<1>13. QED BY <1>12 DEF gr, front, n

\* Enter goes on.
LEMMA ReplaceUnit ==
  ASSUME NEW p, NEW fr, NEW ph, NEW ns, NEW nl, NEW G, NEW A, NEW ctx, NEW sv, NEW lp,
         StackOK(p, fr, ph, ns, nl, G, A, ctx, sv, lp), Len(fr) = 1,
         NEW f, NEW H, NEW B, NEW qh, UnitOK(p, f, qh)
  PROVE  /\ ns = 0 /\ nl = 0
         /\ StackOK(p, Append(SubSeq(fr, 1, Len(fr) - 1), f), qh, ns, nl, H, B, ctx, sv, lp)
<1> DEFINE front == SubSeq(fr, 1, Len(fr) - 1)
           gr == Append(front, f)
<1>1. IsSeq(fr) /\ Len(fr) = 1
  BY DEF StackOK
<1>2. IsSeq(front) /\ Len(front) = 0
  <2>1. Len(fr) # 0 /\ Len(fr) - 1 = 0
    BY <1>1
  <2>2. QED BY <1>1, <2>1, FrontFacts
<1>3. IsSeq(gr) /\ Len(gr) = 1 /\ gr[1] = f
  <2> HIDE DEF front
  <2>1. IsSeq(gr) /\ Len(gr) = Len(front) + 1 /\ gr[Len(front) + 1] = f
    BY <1>2, AppendFacts
  <2>2. Len(front) + 1 = 1
    BY <1>2
  <2> HIDE DEF gr
  <2>3. QED BY <2>1, <2>2
<1>4. ns = 0 /\ nl = 0
  BY <1>1 DEF StackOK, Opened, Looped, Blank, Ctx
<1>5. ReadsFirst(f.todo)
  BY ScriptHasNoReads DEF UnitOK, ReadsFirst, NoReads
<1> HIDE DEF gr
<1>6. StackOK(p, gr, qh, ns, nl, H, B, ctx, sv, lp)
  BY <1>1, <1>3, <1>5 DEF StackOK
<1>7. QED BY <1>4, <1>6 DEF gr

\* A visit begins.
LEMMA PushFrame ==
  ASSUME NEW p, NEW fr, NEW ph, NEW ns, NEW nl, NEW G, NEW A, NEW ctx, NEW sv, NEW lp,
         StackOK(p, fr, ph, ns, nl, G, A, ctx, sv, lp), ph = "body",
         NoReads(fr[Len(fr)].todo),
         NEW g, FrameOK(g, Blank, nl, G, A), ReadsFirst(g.todo)
  PROVE  \E dtx, tv, mp : StackOK(p, Append(fr, g), ph, ns, nl, G, A, dtx, tv, mp)
<1> DEFINE n == Len(fr)
           gr == Append(fr, g)
           dtx == [i \in 1..(n + 1) |-> IF i = n + 1 THEN Blank ELSE ctx[i]]
           tv == [i \in 1..(n + 1) |-> IF i = n + 1 THEN ns ELSE sv[i]]
           mp == [i \in 1..(n + 1) |-> IF i = n + 1 THEN nl ELSE lp[i]]
<1>1. IsSeq(fr) /\ n \in Nat /\ n # 0
  BY SeqFacts DEF StackOK
<1>2. /\ IsSeq(gr) /\ Len(gr) = n + 1 /\ gr[n + 1] = g
      /\ \A i \in 1..n : gr[i] = fr[i]
  BY <1>1, AppendFacts
<1>3. UnitOK(p, fr[1], ph) /\ ctx[1] = Blank /\ sv[1] = 0 /\ lp[1] = 0
  BY DEF StackOK
<1>4. \A i \in 2..n : FrameOK(fr[i], ctx[i], lp[i], G, A)
  BY DEF StackOK
<1>5. \A i \in 1..n : sv[i] \in Nat /\ lp[i] \in Nat
  BY DEF StackOK
<1>6. \A i \in 1..(n - 1) : /\ sv[i + 1] = sv[i] + Opened(ctx[i])
                            /\ lp[i + 1] = lp[i] + Looped(ctx[i])
                            /\ NoReads(fr[i].todo)
  BY DEF StackOK
<1>7. ns = sv[n] + Opened(ctx[n]) /\ nl = lp[n] + Looped(ctx[n]) /\ NoReads(fr[n].todo)
  BY DEF StackOK
<1>8. ns \in Nat /\ nl \in Nat
  BY <1>1, <1>5, <1>7 DEF Opened, Looped
<1>9. ns = ns + Opened(Blank) /\ nl = nl + Looped(Blank)
  BY <1>8 DEF Opened, Looped, Blank, Ctx
<1> HIDE DEF n, gr
<1>10. /\ dtx[n + 1] = Blank /\ tv[n + 1] = ns /\ mp[n + 1] = nl
       /\ \A i \in 1..n : dtx[i] = ctx[i] /\ tv[i] = sv[i] /\ mp[i] = lp[i]
  BY <1>1
<1> HIDE DEF dtx, tv, mp
<1>11. /\ 1 \in 1..n /\ n + 1 # 0 /\ n + 1 - 1 = n
       /\ \A i \in 1..n : i = n \/ (i \in 1..(n - 1) /\ i + 1 \in 1..n)
       /\ \A i \in 2..(n + 1) : i = n + 1 \/ (i \in 1..n /\ i \in 2..n)
       /\ \A i \in 1..(n + 1) : i = n + 1 \/ i \in 1..n
  BY <1>1
<1>12. \A i \in 2..(n + 1) : FrameOK(gr[i], dtx[i], mp[i], G, A)
  BY <1>2, <1>4, <1>10, <1>11
<1>13. \A i \in 1..n : /\ tv[i + 1] = tv[i] + Opened(dtx[i])
                       /\ mp[i + 1] = mp[i] + Looped(dtx[i])
                       /\ NoReads(gr[i].todo)
  <2> SUFFICES ASSUME NEW i \in 1..n
               PROVE  /\ tv[i + 1] = tv[i] + Opened(dtx[i])
                      /\ mp[i + 1] = mp[i] + Looped(dtx[i])
                      /\ NoReads(gr[i].todo)
    OBVIOUS
  <2>1. CASE i = n
    BY <1>2, <1>7, <1>10, <2>1
  <2>2. CASE i \in 1..(n - 1) /\ i + 1 \in 1..n
    BY <1>2, <1>6, <1>10, <2>2
  <2>3. QED BY <1>11, <2>1, <2>2
<1>14. \A i \in 1..(n + 1) : tv[i] \in Nat /\ mp[i] \in Nat
  BY <1>5, <1>8, <1>10, <1>11
<1>15. StackOK(p, gr, ph, ns, nl, G, A, dtx, tv, mp)
  BY <1>2, <1>3, <1>9, <1>10, <1>11, <1>12, <1>13, <1>14 DEF StackOK
<1>16. QED BY <1>15 DEF gr

\* A visit that has nothing left to do returns.
LEMMA PopFrame ==
  ASSUME NEW p, NEW fr, NEW ph, NEW ns, NEW nl, NEW G, NEW A, NEW ctx, NEW sv, NEW lp,
         StackOK(p, fr, ph, ns, nl, G, A, ctx, sv, lp), Len(fr) > 1, fr[Len(fr)].todo = <<>>
  PROVE  StackOK(p, SubSeq(fr, 1, Len(fr) - 1), ph, ns, nl, G, A, ctx, sv, lp)
<1> DEFINE n == Len(fr)
           gr == SubSeq(fr, 1, n - 1)
<1>1. IsSeq(fr) /\ n \in Nat /\ n > 1
  BY SeqFacts DEF StackOK
<1>2. /\ IsSeq(gr) /\ Len(gr) = n - 1
      /\ \A i \in 1..(n - 1) : gr[i] = fr[i]
  BY <1>1, FrontFacts
<1>3. UnitOK(p, fr[1], ph) /\ ph = "body" /\ ctx[1] = Blank /\ sv[1] = 0 /\ lp[1] = 0
  BY DEF StackOK
<1>4. \A i \in 2..n : FrameOK(fr[i], ctx[i], lp[i], G, A)
  BY DEF StackOK
<1>5. \A i \in 1..n : sv[i] \in Nat /\ lp[i] \in Nat
  BY DEF StackOK
<1>6. \A i \in 1..(n - 1) : /\ sv[i + 1] = sv[i] + Opened(ctx[i])
                            /\ lp[i + 1] = lp[i] + Looped(ctx[i])
                            /\ NoReads(fr[i].todo)
  BY DEF StackOK
<1>7. ns = sv[n] + Opened(ctx[n]) /\ nl = lp[n] + Looped(ctx[n]) /\ fr[n].todo = <<>>
  BY DEF StackOK
<1> HIDE DEF n, gr
<1>8. /\ n - 1 \in 1..(n - 1) /\ n - 1 + 1 = n /\ n \in 2..n /\ n \in 1..n /\ n - 1 # 0
      /\ \A i \in 2..(n - 1) : i \in 2..n /\ i \in 1..(n - 1)
      /\ \A i \in 1..(n - 1 - 1) : i \in 1..(n - 1)
      /\ \A i \in 1..(n - 1) : i \in 1..n
      /\ 1 \in 1..(n - 1)
  BY <1>1
<1>9. ~ctx[n].open /\ ~ctx[n].loop
  <2>1. PICK e : ~e.open /\ ~e.loop /\ Legal("visit", fr[n].node, fr[n].todo, ctx[n], e)
    BY <1>4, <1>8 DEF FrameOK
  <2>2. Len(<<>>) = 0
    BY EmptyFacts
  <2>3. e = ctx[n]
    BY <1>7, <2>1, <2>2 DEF Legal
  <2>4. QED BY <2>1, <2>3
<1>10. ns = sv[n] /\ nl = lp[n]
  BY <1>5, <1>7, <1>8, <1>9 DEF Opened, Looped
<1>11. ns = sv[n - 1] + Opened(ctx[n - 1]) /\ nl = lp[n - 1] + Looped(ctx[n - 1]) /\ NoReads(fr[n - 1].todo)
  BY <1>6, <1>8, <1>10
<1>12. ReadsFirst(gr[n - 1].todo)
  BY <1>2, <1>8, <1>11 DEF ReadsFirst, NoReads
<1>13. StackOK(p, gr, ph, ns, nl, G, A, ctx, sv, lp)
  BY <1>2, <1>3, <1>4, <1>5, <1>6, <1>8, <1>11, <1>12 DEF StackOK
<1>14. QED BY <1>13 DEF gr, n
---------------------------------------------------------------------------
(* Visits and enter, checked for their edges.                              *)

\* What a visit of node n may leave.
Ends(n, cur) ==
  IF n.kind \in Expressions THEN cur = "clean"
  ELSE IF n.kind = "Block" THEN cur = "done" ELSE cur \in {"clean", "left"}

Fresh == Edge({}, "clean")

LEMMA EdgeFields == \A F, cur : Edge(F, cur).fresh = F /\ Edge(F, cur).cur = cur
  BY DEF Edge

\* An operand is visited, and its value is used; or another part is visited.
LEMMA OperandKept ==
  ASSUME NEW n, IsNode(n), NEW i, i \in DOMAIN n.kids, NEW F
  PROVE  /\ Typed("edges", n, <<"visit", i>>, Edge(F, "clean"), Edge(F, AfterVisit(n.kids[i])))
         /\ AfterVisit(n.kids[i]) \in {"clean", "left"}
         /\ IsOperand(n.kind, i) => AfterVisit(n.kids[i]) = "clean"
<1>1. IsOperand(n.kind, i) => n.kids[i].kind \in Expressions
  BY ProgramsAssumption DEF IsNode, WellFormed
<1>2. Typed("edges", n, <<"visit", i>>, Edge(F, "clean"), Edge(F, AfterVisit(n.kids[i])))
  <2>1. EdgeCall(n, <<"visit", i>>, Edge(F, "clean"), Edge(F, AfterVisit(n.kids[i])))
    BY EdgeFields DEF EdgeCall
  <2>2. QED BY <2>1 DEF Typed
<1>3. QED BY <1>1, <1>2 DEF AfterVisit

\* Calls that leave the edges alone, and a jump.
LEMMA EdgeFreeCall ==
  ASSUME NEW n, NEW call, call[1] \in EdgeFree, NEW F, NEW cur, cur # "done"
  PROVE  Typed("edges", n, call, Edge(F, cur), Edge(F, cur))
  BY EdgeFields DEF Typed, EdgeCall

LEMMA EdgeJump ==
  ASSUME NEW n, NEW call, call[1] \in {"jp", "jp_value", "jp_loop"}, NEW F, NEW cur \in {"clean", "left"}
  PROVE  Typed("edges", n, call, Edge(F, cur), Edge(F, "left"))
  BY EdgeFields DEF Typed, EdgeCall

LEMMA EdgeNew ==
  ASSUME NEW n, NEW x, NEW F
  PROVE  Typed("edges", n, <<"newBasicBlock", x>>, Edge(F, "clean"), Edge(F \cup {x}, "clean"))
  BY EdgeFields DEF Typed, EdgeCall

LEMMA EdgeEnter ==
  ASSUME NEW n, NEW x, NEW F, x \in F
  PROVE  /\ Typed("edges", n, <<"save_and_entry", x>>, Edge(F, "clean"), Edge(F \ {x}, "clean"))
         /\ \A cur \in {"left", "branched"} :
              Typed("edges", n, <<"entry_block", x>>, Edge(F, cur), Edge(F \ {x}, "clean"))
  BY EdgeFields DEF Typed, EdgeCall

LEMMA EdgePop ==
  ASSUME NEW n, NEW F, NEW cur \in {"left", "branched"}
  PROVE  Typed("edges", n, <<"pop_block">>, Edge(F, cur), Edge(F, "clean"))
  BY EdgeFields DEF Typed, EdgeCall

\* Both targets are drawn before the branch.
LEMMA BranchEdges ==
  ASSUME NEW n, NEW t, NEW ta, NEW f, NEW fa, NEW F
  PROVE  Legal("edges", n, Branch(t, ta, f, fa), Edge(F, "clean"), Edge(F, "branched"))
<1>1. /\ Typed("edges", n, <<"setNext", t>>, Edge(F, "clean"), Edge(F, "next"))
      /\ Typed("edges", n, <<"setElse", f>>, Edge(F, "next"), Edge(F, "both"))
      /\ Typed("edges", n, <<"br", ta, fa>>, Edge(F, "both"), Edge(F, "branched"))
  BY EdgeFields DEF Typed, EdgeCall
<1>2. QED BY <1>1, LegalThree DEF Branch

LEMMA GoOnEdges ==
  ASSUME NEW n, NEW F, "cont" \in F, NEW cur \in {"left", "branched"}
  PROVE  Legal("edges", n, GoOn, Edge(F, cur), Edge(F \ {"cont"}, "clean"))
<1>1. Typed("edges", n, <<"seal_current">>, Edge(F, cur), Edge(F, cur))
  BY EdgeFreeCall DEF EdgeFree
<1>2. Typed("edges", n, <<"entry_block", "cont">>, Edge(F, cur), Edge(F \ {"cont"}, "clean"))
  BY EdgeEnter
<1>3. QED BY <1>1, <1>2, LegalTwo DEF GoOn

\* A block that is entered, ended and sealed.
LEMMA EmitBlockEdges ==
  ASSUME NEW n, NEW x, NEW F, x \in F, NEW body, NEW cur \in {"left", "branched"},
         Legal("edges", n, body, Edge(F \ {x}, "clean"), Edge(F \ {x}, cur))
  PROVE  /\ Legal("edges", n, EmitBlock(x, body), Edge(F, "clean"), Edge(F \ {x}, "clean"))
         /\ Legal("edges", n, EmitBlockOpen(x, body), Edge(F, "clean"), Edge(F \ {x}, "clean"))
<1> DEFINE C == Edge(F, "clean")
           D == Edge(F \ {x}, "clean")
           E == Edge(F \ {x}, cur)
<1>1. Typed("edges", n, <<"save_and_entry", x>>, C, D) /\ Typed("edges", n, <<"pop_block">>, E, D)
  BY EdgeEnter, EdgePop
<1>2. Typed("edges", n, <<"seal", x>>, D, D)
  BY EdgeFreeCall DEF EdgeFree
<1>3. Legal("edges", n, body, D, E)
  OBVIOUS
<1> HIDE DEF C, D, E
<1>4. Legal("edges", n, <<<<"save_and_entry", x>>>>, C, D)
  BY <1>1, LegalOne
<1>5. Legal("edges", n, <<<<"save_and_entry", x>>>> \o body, C, E)
  BY <1>3, <1>4, LegalConcat
<1>6. /\ Legal("edges", n, <<<<"pop_block">>, <<"seal", x>>>>, E, D)
      /\ Legal("edges", n, <<<<"pop_block">>>>, E, D)
  BY <1>1, <1>2, LegalOne, LegalTwo
<1>7. /\ Legal("edges", n, EmitBlock(x, body), C, D)
      /\ Legal("edges", n, EmitBlockOpen(x, body), C, D)
  BY <1>5, <1>6, LegalConcat DEF EmitBlock, EmitBlockOpen
<1>8. QED BY <1>7 DEF C, D

\* A part that is visited in a block of its own, which then jumps.
LEMMA PartEdges ==
  ASSUME NEW n, IsNode(n), NEW i, i \in DOMAIN n.kids, NEW x, NEW F, x \in F,
         NEW jump \in {"jp", "jp_value"}, NEW t
  PROVE  Legal("edges", n, EmitBlock(x, <<<<"visit", i>>, <<jump, t>>>>), Edge(F, "clean"), Edge(F \ {x}, "clean"))
<1> DEFINE cur == AfterVisit(n.kids[i])
<1>1. /\ Typed("edges", n, <<"visit", i>>, Edge(F \ {x}, "clean"), Edge(F \ {x}, cur))
      /\ cur \in {"clean", "left"}
  BY OperandKept
<1> HIDE DEF cur
<1>2. Typed("edges", n, <<jump, t>>, Edge(F \ {x}, cur), Edge(F \ {x}, "left"))
  BY <1>1, EdgeJump
<1>3. Legal("edges", n, <<<<"visit", i>>, <<jump, t>>>>, Edge(F \ {x}, "clean"), Edge(F \ {x}, "left"))
  BY <1>1, <1>2, LegalTwo
<1>4. QED BY <1>3, EmitBlockEdges

LEMMA ShortCircuitEdges ==
  ASSUME NEW n, IsNode(n), 2 \in DOMAIN n.kids, NEW x, x # "cont",
         NEW t, NEW ta, NEW f, NEW fa
  PROVE  \E F : Legal("edges", n, ShortCircuit(x, t, ta, f, fa), Fresh, Edge(F, "clean"))
<1> DEFINE F1 == {} \cup {"cont"}
           F2 == F1 \cup {x}
           F3 == F2 \ {x}
           F4 == F3 \ {"cont"}
           Make == <<<<"newBasicBlock", "cont">>, <<"newBasicBlock", x>>>>
           Right == EmitBlock(x, <<<<"visit", 2>>, <<"jp_value", "cont">>>>)
           Fork == Branch(t, ta, f, fa)
           Add1 == <<<<"add_arg", "cont">>>>
           Answer == <<<<"answer_arg", "cont">>>>
<1>1. Legal("edges", n, Make, Fresh, Edge(F2, "clean"))
  <2>1. /\ Typed("edges", n, <<"newBasicBlock", "cont">>, Fresh, Edge(F1, "clean"))
        /\ Typed("edges", n, <<"newBasicBlock", x>>, Edge(F1, "clean"), Edge(F2, "clean"))
    BY EdgeNew DEF Fresh
  <2>2. QED BY <2>1, LegalTwo
<1>2. x \in F2 /\ "cont" \in F3
  OBVIOUS
<1> HIDE DEF F1, F2
<1>3. Legal("edges", n, Right, Edge(F2, "clean"), Edge(F3, "clean"))
  BY <1>2, PartEdges
<1> HIDE DEF F3
<1>4. Legal("edges", n, Fork, Edge(F3, "clean"), Edge(F3, "branched"))
  BY BranchEdges
<1>5. Legal("edges", n, Add1, Edge(F3, "branched"), Edge(F3, "branched"))
  <2>1. Typed("edges", n, <<"add_arg", "cont">>, Edge(F3, "branched"), Edge(F3, "branched"))
    BY EdgeFreeCall DEF EdgeFree
  <2>2. QED BY <2>1, LegalOne
<1>6. Legal("edges", n, GoOn, Edge(F3, "branched"), Edge(F4, "clean"))
  BY <1>2, GoOnEdges
<1> HIDE DEF F4
<1>7. Legal("edges", n, Answer, Edge(F4, "clean"), Edge(F4, "clean"))
  <2>1. Typed("edges", n, <<"answer_arg", "cont">>, Edge(F4, "clean"), Edge(F4, "clean"))
    BY EdgeFreeCall DEF EdgeFree
  <2>2. QED BY <2>1, LegalOne
<1> HIDE DEF Make, Right, Fork, Add1, Answer
<1>8. Legal("edges", n, Make \o Right, Fresh, Edge(F3, "clean"))
  BY <1>1, <1>3, LegalConcat
<1>9. Legal("edges", n, (Make \o Right) \o Fork, Fresh, Edge(F3, "branched"))
  BY <1>4, <1>8, LegalConcat
<1>10. Legal("edges", n, ((Make \o Right) \o Fork) \o Add1, Fresh, Edge(F3, "branched"))
  BY <1>5, <1>9, LegalConcat
<1>11. Legal("edges", n, (((Make \o Right) \o Fork) \o Add1) \o GoOn, Fresh, Edge(F4, "clean"))
  BY <1>6, <1>10, LegalConcat
<1>12. Legal("edges", n, ((((Make \o Right) \o Fork) \o Add1) \o GoOn) \o Answer, Fresh, Edge(F4, "clean"))
  BY <1>7, <1>11, LegalConcat
<1>13. ShortCircuit(x, t, ta, f, fa) = ((((Make \o Right) \o Fork) \o Add1) \o GoOn) \o Answer
  BY Zenon DEF ShortCircuit, Make, Right, Fork, Add1, Answer
<1>14. QED BY <1>12, <1>13, Zenon

LEMMA ArmEdges ==
  ASSUME NEW n, IsNode(n), NEW i, i \in DOMAIN n.kids, NEW x, NEW F
  PROVE  Legal("edges", n, Arm(x, i), Edge(F, "clean"), Edge((F \cup {x}) \ {x}, "clean"))
<1> DEFINE G == F \cup {x}
<1>1. Legal("edges", n, <<<<"newBasicBlock", x>>>>, Edge(F, "clean"), Edge(G, "clean"))
  <2>1. Typed("edges", n, <<"newBasicBlock", x>>, Edge(F, "clean"), Edge(G, "clean"))
    BY EdgeNew
  <2>2. QED BY <2>1, LegalOne
<1>2. x \in G
  OBVIOUS
<1> HIDE DEF G
<1>3. Legal("edges", n, EmitBlock(x, <<<<"visit", i>>, <<"jp", "cont">>>>), Edge(G, "clean"), Edge(G \ {x}, "clean"))
  BY <1>2, PartEdges
<1>4. Legal("edges", n, Arm(x, i), Edge(F, "clean"), Edge(G \ {x}, "clean"))
  BY <1>1, <1>3, LegalConcat DEF Arm
<1>5. QED BY <1>4 DEF G

LEMMA IfEdges ==
  ASSUME NEW n, IsNode(n), n.kind = "If", 2 \in DOMAIN n.kids, Len(n.kids) = 3 => 3 \in DOMAIN n.kids
  PROVE  \E F : Legal("edges", n, IfScript(n), Fresh, Edge(F, "clean"))
<1> DEFINE F1 == {} \cup {"cont"}
           F2 == (F1 \cup {"then"}) \ {"then"}
           F3 == (F2 \cup {"else"}) \ {"else"}
           Make == <<<<"newBasicBlock", "cont">>>>
           Then == Arm("then", 2)
           Else == Arm("else", 3)
           Fork3 == Branch("then", <<>>, "else", <<>>)
           Fork2 == Branch("then", <<>>, "cont", <<>>)
<1>1. "cont" \in F2 /\ "cont" \in F3
  OBVIOUS
<1>2. Legal("edges", n, Make, Fresh, Edge(F1, "clean"))
  <2>1. Typed("edges", n, <<"newBasicBlock", "cont">>, Fresh, Edge(F1, "clean"))
    BY EdgeNew DEF Fresh
  <2>2. QED BY <2>1, LegalOne
<1>3. Legal("edges", n, Then, Edge(F1, "clean"), Edge(F2, "clean"))
  BY ArmEdges
<1> HIDE DEF F1, F2
<1>4. Len(n.kids) = 3 => Legal("edges", n, Else, Edge(F2, "clean"), Edge(F3, "clean"))
  BY ArmEdges
<1> HIDE DEF F3
<1>5. /\ Legal("edges", n, Fork3, Edge(F3, "clean"), Edge(F3, "branched"))
      /\ Legal("edges", n, GoOn, Edge(F3, "branched"), Edge(F3 \ {"cont"}, "clean"))
      /\ Legal("edges", n, Fork2, Edge(F2, "clean"), Edge(F2, "branched"))
      /\ Legal("edges", n, GoOn, Edge(F2, "branched"), Edge(F2 \ {"cont"}, "clean"))
  BY <1>1, BranchEdges, GoOnEdges
<1> HIDE DEF Make, Then, Else, Fork3, Fork2
<1>6. Legal("edges", n, Make \o Then, Fresh, Edge(F2, "clean"))
  BY <1>2, <1>3, LegalConcat
<1>7. CASE Len(n.kids) = 3
  <2>1. Legal("edges", n, Else \o Fork3, Edge(F2, "clean"), Edge(F3, "branched"))
    BY <1>4, <1>5, <1>7, LegalConcat
  <2>2. Legal("edges", n, (Make \o Then) \o (Else \o Fork3), Fresh, Edge(F3, "branched"))
    BY <1>6, <2>1, LegalConcat
  <2>3. Legal("edges", n, ((Make \o Then) \o (Else \o Fork3)) \o GoOn, Fresh, Edge(F3 \ {"cont"}, "clean"))
    BY <1>5, <2>2, LegalConcat
  <2>4. IfScript(n) = ((Make \o Then) \o (Else \o Fork3)) \o GoOn
    BY <1>7, Zenon DEF IfScript, Make, Then, Else, Fork3
  <2>5. QED BY <2>3, <2>4, Zenon
<1>8. CASE Len(n.kids) # 3
  <2>1. Legal("edges", n, (Make \o Then) \o Fork2, Fresh, Edge(F2, "branched"))
    BY <1>5, <1>6, LegalConcat
  <2>2. Legal("edges", n, ((Make \o Then) \o Fork2) \o GoOn, Fresh, Edge(F2 \ {"cont"}, "clean"))
    BY <1>5, <2>1, LegalConcat
  <2>3. IfScript(n) = ((Make \o Then) \o Fork2) \o GoOn
    BY <1>8, Zenon DEF IfScript, Make, Then, Fork2
  <2>4. QED BY <2>2, <2>3, Zenon
<1>9. QED BY <1>7, <1>8

LEMMA WhileEdges ==
  ASSUME NEW n, IsNode(n), n.kind = "While", 1 \in DOMAIN n.kids, 2 \in DOMAIN n.kids
  PROVE  \E F : Legal("edges", n, WhileScript, Fresh, Edge(F, "clean"))
<1> DEFINE F1 == {} \cup {"cond"}
           F2 == F1 \cup {"body"}
           F3 == F2 \cup {"cont"}
           F4 == F3 \ {"cond"}
           F5 == F4 \ {"body"}
           F6 == F5 \ {"cont"}
           C(F) == Edge(F, "clean")
           Fork == Branch("body", <<>>, "cont", <<>>)
           Cond == EmitBlockOpen("cond", <<<<"visit", 1>>, <<"keep">>>> \o Fork)
           Enter == <<<<"jp", "cond">>>>
           SealCond == <<<<"seal", "cond">>>>
           Leave == <<<<"pop_cfd">>>>
<1>1. "cond" \in F3 /\ "body" \in F4 /\ "cont" \in F5
  OBVIOUS
<1>2. Legal("edges", n, WhileBlocks, Fresh, C(F3))
  <2>1. /\ Typed("edges", n, <<"newBasicBlock", "cond">>, Fresh, C(F1))
        /\ Typed("edges", n, <<"newBasicBlock", "body">>, C(F1), C(F2))
        /\ Typed("edges", n, <<"newBasicBlock", "cont">>, C(F2), C(F3))
    BY EdgeNew DEF Fresh
  <2>2. Typed("edges", n, <<"push_cfd">>, C(F3), C(F3))
    BY EdgeFreeCall DEF EdgeFree
  <2> HIDE DEF C
  <2>3. QED BY <2>1, <2>2, LegalFour DEF WhileBlocks
<1> HIDE DEF F1, F2, F3
<1>3. Legal("edges", n, <<<<"visit", 1>>, <<"keep">>>> \o Fork, C(F4), Edge(F4, "branched"))
  <2>1. IsOperand(n.kind, 1)
    BY DEF IsOperand
  <2>2. AfterVisit(n.kids[1]) = "clean" /\ Typed("edges", n, <<"visit", 1>>, C(F4), Edge(F4, AfterVisit(n.kids[1])))
    BY <2>1, OperandKept
  <2>3. Typed("edges", n, <<"visit", 1>>, C(F4), C(F4)) /\ Typed("edges", n, <<"keep">>, C(F4), C(F4))
    BY <2>2, EdgeFreeCall DEF EdgeFree
  <2>4. Legal("edges", n, <<<<"visit", 1>>, <<"keep">>>>, C(F4), C(F4))
    BY <2>3, LegalTwo
  <2>5. Legal("edges", n, Fork, C(F4), Edge(F4, "branched"))
    BY BranchEdges
  <2> HIDE DEF C, Fork
  <2>6. QED BY <2>4, <2>5, LegalConcat
<1>4. Legal("edges", n, Cond, C(F3), C(F4))
  BY <1>1, <1>3, EmitBlockEdges
<1> HIDE DEF F4
<1>5. Legal("edges", n, WhileBody, C(F4), C(F5))
  BY <1>1, PartEdges DEF WhileBody
<1> HIDE DEF F5
<1>6. Legal("edges", n, Enter, C(F5), Edge(F5, "left"))
  <2>1. Typed("edges", n, <<"jp", "cond">>, C(F5), Edge(F5, "left"))
    BY EdgeJump
  <2>2. QED BY <2>1, LegalOne
<1>7. Legal("edges", n, SealCond, Edge(F5, "left"), Edge(F5, "left"))
  <2>1. Typed("edges", n, <<"seal", "cond">>, Edge(F5, "left"), Edge(F5, "left"))
    BY EdgeFreeCall DEF EdgeFree
  <2>2. QED BY <2>1, LegalOne
<1>8. Legal("edges", n, GoOn, Edge(F5, "left"), C(F6))
  BY <1>1, GoOnEdges
<1> HIDE DEF F6
<1>9. Legal("edges", n, Leave, C(F6), C(F6))
  <2>1. Typed("edges", n, <<"pop_cfd">>, C(F6), C(F6))
    BY EdgeFreeCall DEF EdgeFree
  <2>2. QED BY <2>1, LegalOne
<1> HIDE DEF C, Cond, Enter, SealCond, Leave
<1>10. Legal("edges", n, (SealCond \o GoOn) \o Leave, Edge(F5, "left"), C(F6))
  <2>1. Legal("edges", n, SealCond \o GoOn, Edge(F5, "left"), C(F6))
    BY <1>7, <1>8, LegalConcat
  <2>2. QED BY <1>9, <2>1, LegalConcat
<1>11. Legal("edges", n, ((WhileBlocks \o Cond) \o WhileBody) \o Enter, Fresh, Edge(F5, "left"))
  <2>1. Legal("edges", n, WhileBlocks \o Cond, Fresh, C(F4))
    BY <1>2, <1>4, LegalConcat
  <2>2. Legal("edges", n, (WhileBlocks \o Cond) \o WhileBody, Fresh, C(F5))
    BY <1>5, <2>1, LegalConcat
  <2>3. QED BY <1>6, <2>2, LegalConcat
<1>12. Legal("edges", n, (((WhileBlocks \o Cond) \o WhileBody) \o Enter) \o ((SealCond \o GoOn) \o Leave), Fresh, C(F6))
  BY <1>10, <1>11, LegalConcat
<1>13. WhileScript = (((WhileBlocks \o Cond) \o WhileBody) \o Enter) \o ((SealCond \o GoOn) \o Leave)
  BY Zenon DEF WhileScript, WhileEnd, Enter, SealCond, Leave, Cond
<1>14. QED BY <1>12, <1>13, Zenon DEF C

\* A block: a visit leaves what the check for a gateway makes clean again.
LEMMA BlockEdges ==
  ASSUME NEW n, IsNode(n), n.kind = "Block"
  PROVE  Legal("edges", n, BlockScript(n), Fresh, Edge({}, "done"))
<1> DEFINE m == Len(n.kids)
           mid == [j \in 1..(2 * m) |-> IF j % 2 = 1 THEN <<"visit", (j + 1) \div 2>> ELSE <<"stop_if_term">>]
           tr == [j \in 0..(2 * m) |-> IF j % 2 = 1 THEN Edge({}, AfterVisit(n.kids[(j + 1) \div 2])) ELSE Fresh]
           Open == <<<<"push_env">>>>
           Close == <<<<"pop_env">>>>
<1>1. m \in Nat /\ 2 * m \in Nat /\ DOMAIN n.kids = 1..m
  BY NodeFacts, SeqFacts
<1>2. ASSUME NEW i \in 1..m
      PROVE  /\ Typed("edges", n, <<"visit", i>>, Fresh, Edge({}, AfterVisit(n.kids[i])))
             /\ Typed("edges", n, <<"stop_if_term">>, Edge({}, AfterVisit(n.kids[i])), Fresh)
  <2>1. i \in DOMAIN n.kids
    BY <1>1
  <2>2. /\ Typed("edges", n, <<"visit", i>>, Edge({}, "clean"), Edge({}, AfterVisit(n.kids[i])))
        /\ AfterVisit(n.kids[i]) \in {"clean", "left"}
    BY <2>1, OperandKept
  <2> DEFINE cur == AfterVisit(n.kids[i])
  <2> HIDE DEF cur
  <2>3. ASSUME cur \in {"clean", "left"}
        PROVE  Typed("edges", n, <<"stop_if_term">>, Edge({}, cur), Edge({}, "clean"))
    BY <2>3, EdgeFields DEF Typed, EdgeCall
  <2>4. QED BY <2>2, <2>3 DEF cur, Fresh
<1>3. ASSUME NEW j \in 1..(2 * m) PROVE Typed("edges", n, mid[j], tr[j - 1], tr[j])
  <2>1. j - 1 \in 0..(2 * m) /\ j \in 0..(2 * m)
    BY <1>1
  <2>2. CASE j % 2 = 1
    <3>1. (j + 1) \div 2 \in 1..m /\ (j - 1) % 2 # 1
      <4>1. (j + 1) \div 2 \in 1..m
        BY <1>1, <2>2
      <4>2. (j - 1) % 2 = 0
        BY <1>1, <2>2
      <4>3. QED BY <4>1, <4>2
    <3>2. mid[j] = <<"visit", (j + 1) \div 2>> /\ tr[j - 1] = Fresh /\ tr[j] = Edge({}, AfterVisit(n.kids[(j + 1) \div 2]))
      BY <2>1, <2>2, <3>1
    <3> HIDE DEF mid, tr
    <3>3. QED BY <1>2, <3>1, <3>2
  <2>3. CASE j % 2 # 1
    <3> DEFINE i == (j - 1 + 1) \div 2
    <3>1. i \in 1..m /\ (j - 1) % 2 = 1
      BY <1>1, <2>3
    <3>2. mid[j] = <<"stop_if_term">> /\ tr[j] = Fresh /\ tr[j - 1] = Edge({}, AfterVisit(n.kids[i]))
      BY <2>1, <2>3, <3>1
    <3> HIDE DEF mid, tr, i
    <3>3. QED BY <1>2, <3>1, <3>2
  <2>4. QED BY <2>2, <2>3
<1>4. tr[0] = Fresh /\ tr[2 * m] = Fresh
  <2>1. 0 \in 0..(2 * m) /\ 2 * m \in 0..(2 * m)
    BY <1>1
  <2>2. \A k \in Nat : (2 * k) % 2 # 1
    OBVIOUS
  <2> HIDE DEF m, tr
  <2>3. (2 * m) % 2 # 1
    BY <1>1, <2>2
  <2>4. 0 % 2 # 1
    OBVIOUS
  <2>5. QED BY <2>1, <2>3, <2>4 DEF tr
<1>5. Legal("edges", n, mid, Fresh, Fresh)
  <2>1. mid = [j \in 1..(2 * m) |-> mid[j]]
    OBVIOUS
  <2> HIDE DEF mid, tr, m
  <2>2. IsSeq(mid) /\ Len(mid) = 2 * m
    BY <1>1, <2>1, FunctionIsSeq
  <2>3. QED BY <1>3, <1>4, <2>2 DEF Legal
<1>6. Legal("edges", n, Open, Fresh, Fresh) /\ Legal("edges", n, Close, Fresh, Edge({}, "done"))
  <2>1. Typed("edges", n, <<"push_env">>, Fresh, Fresh)
    BY EdgeFreeCall DEF EdgeFree, Fresh
  <2>2. Typed("edges", n, <<"pop_env">>, Fresh, Edge({}, "done"))
    BY EdgeFields DEF Typed, EdgeCall, Fresh
  <2>3. QED BY <2>1, <2>2, LegalOne
<1>7. BlockScript(n) = (Open \o mid) \o Close
  BY Zenon DEF BlockScript
<1> HIDE DEF mid, Open, Close
<1>8. Legal("edges", n, Open \o mid, Fresh, Fresh)
  BY <1>5, <1>6, LegalConcat
<1>9. QED BY <1>6, <1>7, <1>8, LegalConcat

\* Visits that begin with an operand, if there is one.
LEMMA FirstEdges ==
  ASSUME NEW n, IsNode(n), IsOperand(n.kind, 1), NEW s, NEW e, Legal("edges", n, s, Fresh, e)
  PROVE  Legal("edges", n, VisitFirst(n) \o s, Fresh, e)
<1>1. CASE n.kids = <<>>
  <2>1. Legal("edges", n, <<>>, Fresh, Fresh)
    BY LegalEmpty
  <2>2. Legal("edges", n, <<>> \o s, Fresh, e)
    BY <2>1, LegalConcat
  <2>3. QED BY <1>1, <2>2 DEF VisitFirst
<1>2. CASE n.kids # <<>>
  <2>1. IsSeq(n.kids) /\ Len(n.kids) \in Nat /\ Len(n.kids) # 0 /\ DOMAIN n.kids = 1..Len(n.kids)
    BY <1>2, NodeFacts, SeqFacts, EmptyFacts
  <2>2. 1 \in DOMAIN n.kids
    BY <2>1
  <2>3. Typed("edges", n, <<"visit", 1>>, Fresh, Fresh)
    BY <2>2, OperandKept DEF Fresh
  <2>4. Legal("edges", n, <<<<"visit", 1>>>>, Fresh, Fresh)
    BY <2>3, LegalOne
  <2>5. Legal("edges", n, <<<<"visit", 1>>>> \o s, Fresh, e)
    BY <2>4, LegalConcat
  <2>6. QED BY <1>2, <2>5 DEF VisitFirst
<1>3. QED BY <1>1, <1>2

\* A visit begins with a script that is legal for a clean block.
LEMMA ScriptEdges ==
  ASSUME NEW n, IsNode(n)
  PROVE  \E e : Ends(n, e.cur) /\ Legal("edges", n, Script(n), Fresh, e)
<1>1. /\ n.kind \in Kinds /\ IsSeq(n.kids)
      /\ Len(n.kids) \in Arities(n.kind) /\ DOMAIN n.kids = 1..Len(n.kids)
  BY NodeFacts
<1>2. CASE n.kind = "While"
  <2>1. 1 \in DOMAIN n.kids /\ 2 \in DOMAIN n.kids
    <3>1. Len(n.kids) = 2 /\ 1 \in 1..2 /\ 2 \in 1..2
      BY <1>1, <1>2 DEF Arities
    <3>2. QED BY <1>1, <3>1
  <2>2. Script(n) = WhileScript
    BY <1>2 DEF Script
  <2>3. \A F : Ends(n, Edge(F, "clean").cur)
    BY <1>2, EdgeFields DEF Ends, Expressions
  <2>4. QED BY <1>2, <2>1, <2>2, <2>3, WhileEdges
<1>3. CASE n.kind = "Block"
  <2>1. Script(n) = BlockScript(n)
    BY <1>3 DEF Script
  <2>2. Ends(n, Edge({}, "done").cur)
    BY <1>3, EdgeFields DEF Ends, Expressions
  <2>3. QED BY <1>3, <2>1, <2>2, BlockEdges
<1>4. CASE n.kind \in {"IntLiteral", "DeclRef"}
  <2>1. Script(n) = <<<<"literal">>>> \/ Script(n) = <<<<"readVar">>>>
    BY <1>4 DEF Script
  <2>2. Typed("edges", n, <<"literal">>, Fresh, Fresh) /\ Typed("edges", n, <<"readVar">>, Fresh, Fresh)
    BY EdgeFields DEF Typed, EdgeCall, Fresh, EdgeFree
  <2>3. Legal("edges", n, Script(n), Fresh, Fresh)
    BY <2>1, <2>2, LegalOne
  <2>4. Ends(n, Fresh.cur)
    BY <1>4, EdgeFields DEF Ends, Expressions, Fresh
  <2>5. QED BY <2>3, <2>4
<1>5. CASE n.kind \in {"getint", "Call", "VarDecl"}
  <2>1. /\ IsOperand(n.kind, 1)
        /\ \/ Script(n) = VisitFirst(n) \o <<<<"call">>>>
           \/ Script(n) = VisitFirst(n) \o <<<<"declare">>>>
    BY <1>5 DEF Script, IsOperand
  <2>2. Typed("edges", n, <<"call">>, Fresh, Fresh) /\ Typed("edges", n, <<"declare">>, Fresh, Fresh)
    BY EdgeFields DEF Typed, EdgeCall, Fresh, EdgeFree
  <2>3. Legal("edges", n, <<<<"call">>>>, Fresh, Fresh) /\ Legal("edges", n, <<<<"declare">>>>, Fresh, Fresh)
    BY <2>2, LegalOne
  <2>4. Legal("edges", n, Script(n), Fresh, Fresh)
    BY <2>1, <2>3, FirstEdges
  <2>5. Ends(n, Fresh.cur)
    BY <1>5, EdgeFields DEF Ends, Expressions, Fresh
  <2>6. QED BY <2>4, <2>5
<1>6. CASE n.kind = "Return"
  <2>1. IsOperand(n.kind, 1) /\ Script(n) = VisitFirst(n) \o <<<<"keep">>, <<"rt">>>>
    BY <1>6 DEF Script, IsOperand
  <2>2. Typed("edges", n, <<"keep">>, Fresh, Fresh) /\ Typed("edges", n, <<"rt">>, Fresh, Edge({}, "left"))
    BY EdgeFields DEF Typed, EdgeCall, Fresh, EdgeFree
  <2>3. Legal("edges", n, <<<<"keep">>, <<"rt">>>>, Fresh, Edge({}, "left"))
    BY <2>2, LegalTwo
  <2>4. Legal("edges", n, Script(n), Fresh, Edge({}, "left"))
    BY <2>1, <2>3, FirstEdges
  <2>5. Ends(n, Edge({}, "left").cur)
    BY <1>6, EdgeFields DEF Ends, Expressions
  <2>6. QED BY <2>4, <2>5
<1>7. CASE n.kind \in {"Assign", "And", "Or", "If"}
  <2>1. /\ IsOperand(n.kind, 1)
        /\ Script(n) = IF n.kind = "Assign" THEN <<<<"visit", 1>>, <<"assign">>>> ELSE <<<<"visit", 1>>, <<"decide">>>>
    BY <1>7 DEF Script, IsOperand
  <2>2. 1 \in DOMAIN n.kids
    <3>1. Len(n.kids) \in {1, 2, 3}
      BY <1>1, <1>7 DEF Arities
    <3>2. \A m \in {1, 2, 3} : 1 \in 1..m
      OBVIOUS
    <3>3. QED BY <1>1, <3>1, <3>2
  <2>3. Typed("edges", n, <<"visit", 1>>, Fresh, Fresh)
    BY <2>1, <2>2, OperandKept DEF Fresh
  <2>4. /\ Typed("edges", n, <<"assign">>, Fresh, Fresh)
        /\ n.kind # "Assign" => Typed("edges", n, <<"decide">>, Fresh, Fresh)
    BY <1>7, EdgeFields DEF Typed, EdgeCall, Fresh
  <2>5. Legal("edges", n, Script(n), Fresh, Fresh)
    BY <2>1, <2>3, <2>4, LegalTwo
  <2>6. Ends(n, Fresh.cur)
    BY <1>7, EdgeFields DEF Ends, Expressions, Fresh
  <2>7. QED BY <2>5, <2>6
<1>8. CASE n.kind \in {"Break", "Continue"}
  <2>1. \E x \in {"cond", "cont"} : Script(n) = <<<<"jp_loop", x>>, <<"seal_current">>>>
    BY <1>8 DEF Script
  <2>2. ASSUME NEW x \in {"cond", "cont"}
        PROVE  /\ Typed("edges", n, <<"jp_loop", x>>, Fresh, Edge({}, "left"))
               /\ Typed("edges", n, <<"seal_current">>, Edge({}, "left"), Edge({}, "left"))
    BY EdgeFields DEF Typed, EdgeCall, Fresh, EdgeFree
  <2>3. Legal("edges", n, Script(n), Fresh, Edge({}, "left"))
    BY <2>1, <2>2, LegalTwo
  <2>4. Ends(n, Edge({}, "left").cur)
    BY <1>8, EdgeFields DEF Ends, Expressions
  <2>5. QED BY <2>3, <2>4
<1>9. QED
  BY <1>1, <1>2, <1>3, <1>4, <1>5, <1>6, <1>7, <1>8 DEF Kinds

\* What follows a decision is, too.
LEMMA DecisionEdges ==
  ASSUME NEW n, IsNode(n), n.kind \in {"And", "Or", "If"}, NEW v
  PROVE  /\ \E e : Ends(n, e.cur) /\ Legal("edges", n, Folded(n, v), Fresh, e)
         /\ \E e : Ends(n, e.cur) /\ Legal("edges", n, Lowered(n), Fresh, e)
<1>1. 2 \in DOMAIN n.kids /\ (Len(n.kids) = 3 => 3 \in DOMAIN n.kids)
  <2>1. Len(n.kids) \in {2, 3} /\ DOMAIN n.kids = 1..Len(n.kids)
    BY NodeFacts DEF Arities
  <2>2. \A m \in {2, 3} : 2 \in 1..m /\ (m = 3 => 3 \in 1..m)
    OBVIOUS
  <2>3. QED BY <2>1, <2>2
<1>2. /\ n.kind \in {"And", "Or"} => IsOperand(n.kind, 2) /\ n.kind \in Expressions
      /\ n.kind = "If" => n.kind \notin Expressions /\ n.kind # "Block"
  BY DEF IsOperand, Expressions
<1>3. \A F : Ends(n, Edge(F, "clean").cur)
  BY <1>2, EdgeFields DEF Ends
<1>4. ASSUME NEW i, i \in DOMAIN n.kids, n.kind \in {"And", "Or"} => i = 2
      PROVE  \E e : Ends(n, e.cur) /\ Legal("edges", n, <<<<"visit", i>>>>, Fresh, e)
  <2> DEFINE cur == AfterVisit(n.kids[i])
  <2>1. /\ Typed("edges", n, <<"visit", i>>, Fresh, Edge({}, cur))
        /\ cur \in {"clean", "left"} /\ (IsOperand(n.kind, i) => cur = "clean")
    BY <1>4, OperandKept DEF Fresh
  <2>2. Ends(n, cur)
    BY <1>2, <1>4, <2>1 DEF Ends
  <2> HIDE DEF cur
  <2>3. QED BY <2>1, <2>2, EdgeFields, LegalOne
<1>5. \E e : Ends(n, e.cur) /\ Legal("edges", n, Folded(n, v), Fresh, e)
  <2>1. \/ Folded(n, v) = <<>>
        \/ Folded(n, v) = <<<<"visit", 2>>>>
        \/ n.kind = "If" /\ Len(n.kids) = 3 /\ Folded(n, v) = <<<<"visit", 3>>>>
    BY DEF Folded
  <2>2. Legal("edges", n, <<>>, Fresh, Edge({}, "clean"))
    BY LegalEmpty DEF Fresh
  <2>3. QED BY <1>1, <1>3, <1>4, <2>1, <2>2
<1>6. CASE n.kind = "And"
  <2>1. \E F : Legal("edges", n, ShortCircuit("true", "true", <<>>, "cont", <<Im(FALSE)>>), Fresh, Edge(F, "clean"))
    BY <1>1, ShortCircuitEdges
  <2>2. AndScript = ShortCircuit("true", "true", <<>>, "cont", <<Im(FALSE)>>)
    BY Zenon DEF AndScript, ShortCircuit
  <2>3. Lowered(n) = AndScript
    BY <1>6 DEF Lowered
  <2>4. QED BY <1>3, <1>5, <2>1, <2>2, <2>3, Zenon
<1>7. CASE n.kind = "Or"
  <2>1. \E F : Legal("edges", n, ShortCircuit("false", "cont", <<Im(TRUE)>>, "false", <<>>), Fresh, Edge(F, "clean"))
    BY <1>1, ShortCircuitEdges
  <2>2. OrScript = ShortCircuit("false", "cont", <<Im(TRUE)>>, "false", <<>>)
    BY Zenon DEF OrScript, ShortCircuit
  <2>3. Lowered(n) = OrScript
    BY <1>7 DEF Lowered
  <2>4. QED BY <1>3, <1>5, <2>1, <2>2, <2>3, Zenon
<1>8. CASE n.kind = "If"
  <2>1. Lowered(n) = IfScript(n)
    BY <1>8 DEF Lowered
  <2>2. QED BY <1>1, <1>3, <1>5, <1>8, <2>1, IfEdges
<1>9. QED BY <1>6, <1>7, <1>8

\* The last of a block's calls closes its names, and so it may be the next.
LEMMA LastEdges ==
  ASSUME NEW n, n.kind = "Block", NEW s, NEW c, NEW e, Legal("edges", n, s, c, e), e.cur = "done", Len(s) # 0
  PROVE  \A F : \A cur \in {"clean", "left"} : Legal("edges", n, <<s[Len(s)]>>, Edge(F, cur), Edge(F, "done"))
<1>1. PICK tr : /\ tr[0] = c /\ tr[Len(s)] = e
                /\ \A j \in 1..Len(s) : Typed("edges", n, s[j], tr[j - 1], tr[j])
  BY DEF Legal
<1>2. Len(s) \in 1..Len(s)
  <2>1. Len(s) \in Nat
    BY SeqFacts DEF Legal
  <2>2. QED BY <2>1
<1> DEFINE x == s[Len(s)]
<1>3. PICK d : EdgeCall(n, x, d, e)
  BY <1>1, <1>2 DEF Typed
<1> HIDE DEF x
<1>4. x[1] = "pop_env"
  BY <1>3, EdgeFields DEF EdgeCall, AfterVisit
<1>5. \A F : \A cur \in {"clean", "left"} : Typed("edges", n, x, Edge(F, cur), Edge(F, "done"))
  BY <1>4, EdgeFields DEF Typed, EdgeCall
<1>6. QED BY <1>5, LegalOne DEF x


\* The calls of enter: every function begins with a clean block.
LEMMA UnitEdges ==
  ASSUME NEW p, p.order \in Seq(Proc)
  PROVE  \E e : Legal("unit edges", p, Unit(p.order), Edge({}, "left"), e)
<1> DEFINE order == p.order
           all == Append(order, "main")
           m == Len(all)
           rest == [j \in 1..(6 * m) |-> EmitFunction(all[(j + 5) \div 6])[((j + 5) % 6) + 1]]
           Left == Edge({}, "left")
           tr == [j \in 0..(6 * m) |-> IF j % 6 \in {3, 4} THEN Fresh ELSE Left]
           Setup == <<<<"setup_code">>>>
<1>1. m \in Nat /\ 6 * m \in Nat
  <2>1. all \in Seq(Proc)
    BY AppendProperties, ProgramsAssumption
  <2> HIDE DEF all, order
  <2>2. QED BY <2>1, LenProperties
<1> HIDE DEF all, order, m, Left
<1>2. rest = [j \in 1..(6 * m) |-> rest[j]]
  OBVIOUS
<1>3. ASSUME NEW j \in 1..(6 * m) PROVE Typed("unit edges", p, rest[j], tr[j - 1], tr[j])
  <2> DEFINE k == ((j + 5) % 6) + 1
             f == all[(j + 5) \div 6]
  <2>1. k \in 1..6 /\ j - 1 \in 0..(6 * m) /\ j \in 0..(6 * m) /\ j % 6 = k % 6 /\ (j - 1) % 6 = k - 1
    BY <1>1
  <2>2. rest[j] = EmitFunction(f)[k]
    OBVIOUS
  <2>3. /\ tr[j - 1] = IF (j - 1) % 6 \in {3, 4} THEN Fresh ELSE Left
        /\ tr[j] = IF j % 6 \in {3, 4} THEN Fresh ELSE Left
    BY <2>1
  <2>4. k = 1 \/ k = 2 \/ k = 3 \/ k = 4 \/ k = 5 \/ k = 6
    BY <2>1
  <2>5. /\ k \in {1, 2, 6} => tr[j - 1] = Left /\ tr[j] = Left
        /\ k = 3 => tr[j - 1] = Left /\ tr[j] = Fresh
        /\ k = 4 => tr[j - 1] = Fresh /\ tr[j] = Fresh
        /\ k = 5 => tr[j - 1] = Fresh /\ tr[j] = Left
    <3> HIDE DEF k, tr
    <3>1. QED BY <2>1, <2>3, <2>4
  <2> HIDE DEF k, f, rest, tr
  <2>6. /\ EmitFunction(f)[1] = <<"push_env">> /\ EmitFunction(f)[2] = <<"entry_function", f>>
        /\ EmitFunction(f)[3] = <<"first_block">> /\ EmitFunction(f)[4] = <<"param", f>>
        /\ EmitFunction(f)[5] = <<"body", f>> /\ EmitFunction(f)[6] = <<"pop_env">>
    BY DEF EmitFunction
  <2>7. /\ \A call \in {<<"push_env">>, <<"entry_function", f>>, <<"pop_env">>} : EdgeUnitCall(call, Left, Left)
        /\ EdgeUnitCall(<<"first_block">>, Left, Fresh)
        /\ EdgeUnitCall(<<"param", f>>, Fresh, Fresh)
        /\ EdgeUnitCall(<<"body", f>>, Fresh, Left)
    BY EdgeFields DEF EdgeUnitCall, Fresh, Left
  <2>8. EdgeUnitCall(EmitFunction(f)[k], tr[j - 1], tr[j])
    BY <2>4, <2>5, <2>6, <2>7
  <2>9. QED BY <2>2, <2>8 DEF Typed
<1>4. tr[0] = Left
  <2>1. 0 \in 0..(6 * m) /\ 0 % 6 = 0
    BY <1>1
  <2>2. QED BY <2>1
<1> HIDE DEF rest, tr
<1>5. IsSeq(rest) /\ Len(rest) = 6 * m
  BY <1>1, <1>2, FunctionIsSeq
<1>6. Legal("unit edges", p, rest, Left, tr[6 * m])
  BY <1>3, <1>4, <1>5 DEF Legal
<1>7. Legal("unit edges", p, Setup, Left, Left)
  <2>1. Typed("unit edges", p, <<"setup_code">>, Left, Left)
    BY DEF Typed, EdgeUnitCall
  <2>2. QED BY <2>1, LegalOne
<1>8. Unit(p.order) = Setup \o rest
  BY Zenon DEF Unit, all, m, order, rest
<1> HIDE DEF Setup
<1>9. QED BY <1>6, <1>7, <1>8, LegalConcat DEF Left

\* Calls that look for operands, in front of the rest.
LEMMA EdgeReads ==
  ASSUME NEW n, NEW r, AllReads(r), NEW s, NEW c, NEW e, c.cur # "done", Legal("edges", n, s, c, e)
  PROVE  Legal("edges", n, r \o s, c, e)
<1>1. \A j \in 1..Len(r) : Typed("edges", n, r[j], c, c)
  BY DEF AllReads, Typed, EdgeCall, EdgeFree
<1>2. Legal("edges", n, r, c, c)
  BY <1>1, LegalSame DEF AllReads
<1>3. QED BY <1>2, LegalConcat

---------------------------------------------------------------------------
(* Visits, checked for how blocks are reached.                             *)

\* What a path says.
LEMMA PathFields ==
  \A F, D, M, N, E, o :
    /\ Path(F, D, M, N, E, o).fresh = F /\ Path(F, D, M, N, E, o).due = D
    /\ Path(F, D, M, N, E, o).met = M /\ Path(F, D, M, N, E, o).next = N
    /\ Path(F, D, M, N, E, o).else = E /\ Path(F, D, M, N, E, o).open = o
  BY DEF Path

\* A call of a visit that is no Block's.
LEMMA PathTyped ==
  ASSUME NEW n, Plain(n), NEW call, NEW c, NEW d, PathStep(call, c, d)
  PROVE  Typed("paths", n, call, c, d)
  BY DEF Typed, PathCall, Plain

\* A call that makes no block, goes to none and draws no edge.
LEMMA PathFreeCall ==
  ASSUME NEW n, Plain(n), NEW call, call[1] \in PathFree, NEW c
  PROVE  Typed("paths", n, call, c, c)
  BY PathTyped DEF PathStep

\* A visit of a part, while the current block leads nowhere yet.
LEMMA PathVisit ==
  ASSUME NEW n, Plain(n), NEW i, NEW c, LedBy(c) = {}, c.open \/ c.due = {}
  PROVE  Typed("paths", n, <<"visit", i>>, c, c)
  BY PathTyped DEF PathStep

\* Making a block, before the visit links the current one.
LEMMA PathNew ==
  ASSUME NEW n, Plain(n), NEW x, NEW F, NEW D, NEW M, NEW o, x \notin F \cup D, M \subseteq F
  PROVE  Typed("paths", n, <<"newBasicBlock", x>>, Path(F, D, M, {}, {}, o), Path(F \cup {x}, D, M, {}, {}, o))
<1> DEFINE c == Path(F, D, M, {}, {}, o)
<1>1. c.fresh = F /\ c.due = D /\ c.met = M /\ c.next = {} /\ c.else = {} /\ c.open = o /\ LedBy(c) = {}
  BY DEF Path, LedBy
<1> HIDE DEF c
<1>2. PathStep(<<"newBasicBlock", x>>, c, Path(F \cup {x}, D, M, {}, {}, o))
  BY <1>1 DEF PathStep
<1>3. QED BY <1>2, PathTyped DEF c

\* Saving the current block and going on in x, which nothing may lead to yet.
LEMMA PathSave ==
  ASSUME NEW n, Plain(n), NEW x, NEW F, NEW D, NEW M, x \in F
  PROVE  Typed("paths", n, <<"save_and_entry", x>>, Path(F, D, M, {}, {}, FALSE),
               Path(F \ {x}, D \cup ({x} \ M), M \ {x}, {}, {}, TRUE))
<1> DEFINE c == Path(F, D, M, {}, {}, FALSE)
<1>1. c.fresh = F /\ c.due = D /\ c.met = M /\ c.open = FALSE /\ LedBy(c) = {}
  BY DEF Path, LedBy
<1> HIDE DEF c
<1>2. PathStep(<<"save_and_entry", x>>, c, Path(F \ {x}, D \cup ({x} \ M), M \ {x}, {}, {}, TRUE))
  BY <1>1 DEF PathStep
<1>3. QED BY <1>2, PathTyped DEF c

\* Going back to the block saved: what the one left leads to is led to from now on.
LEMMA PathPop ==
  ASSUME NEW n, Plain(n), NEW F, NEW D, NEW M, NEW N, NEW E
  PROVE  Typed("paths", n, <<"pop_block">>, Path(F, D, M, N, E, TRUE),
               Path(F, D, M \cup ((N \cup E) \cap F), {}, {}, FALSE))
<1> DEFINE c == Path(F, D, M, N, E, TRUE)
           d == Path(F, D, M \cup ((N \cup E) \cap F), {}, {}, FALSE)
<1>1. c.fresh = F /\ c.due = D /\ c.met = M /\ c.open /\ LedBy(c) = N \cup E
  BY DEF Path, LedBy
<1> HIDE DEF c
<1>2. d = Path(c.fresh, c.due, c.met \cup (LedBy(c) \cap c.fresh), {}, {}, FALSE)
  BY <1>1, Zenon
<1> HIDE DEF d
<1>3. PathStep(<<"pop_block">>, c, d)
  BY <1>1, <1>2 DEF PathStep
<1>4. QED BY <1>3, PathTyped DEF c, d

\* The current block is drawn to another one.
LEMMA PathLink ==
  ASSUME NEW n, Plain(n), NEW t, NEW F, NEW D, NEW M, NEW o
  PROVE  /\ \A call \in {"jp", "jp_value", "setNext"} : \A E :
              Typed("paths", n, <<call, t>>, Path(F, D, M, {}, E, o), Path(F, D, M, {t}, E, o))
         /\ \A N : Typed("paths", n, <<"setElse", t>>, Path(F, D, M, N, {}, o), Path(F, D, M, N, {t}, o))
<1>1. ASSUME NEW call \in {"jp", "jp_value", "setNext"}, NEW E
      PROVE  Typed("paths", n, <<call, t>>, Path(F, D, M, {}, E, o), Path(F, D, M, {t}, E, o))
  <2> DEFINE c == Path(F, D, M, {}, E, o)
  <2>1. c.fresh = F /\ c.due = D /\ c.met = M /\ c.open = o /\ c.next = {} /\ c.else = E
    BY DEF Path
  <2> HIDE DEF c
  <2>2. PathStep(<<call, t>>, c, Path(F, D, M, {t}, E, o))
    BY <2>1 DEF PathStep
  <2>3. QED BY <2>2, PathTyped DEF c
<1>2. ASSUME NEW N
      PROVE  Typed("paths", n, <<"setElse", t>>, Path(F, D, M, N, {}, o), Path(F, D, M, N, {t}, o))
  <2> DEFINE c == Path(F, D, M, N, {}, o)
  <2>1. c.fresh = F /\ c.due = D /\ c.met = M /\ c.open = o /\ c.next = N /\ c.else = {}
    BY DEF Path
  <2> HIDE DEF c
  <2>2. PathStep(<<"setElse", t>>, c, Path(F, D, M, N, {t}, o))
    BY <2>1 DEF PathStep
  <2>3. QED BY <2>2, PathTyped DEF c
<1>3. QED BY <1>1, <1>2

\* A part is visited in a block of its own, which then jumps.
LEMMA PartPaths ==
  ASSUME NEW n, Plain(n), NEW i, NEW x, NEW F, NEW D, NEW M, x \in F,
         NEW jump \in {"jp", "jp_value"}, NEW t
  PROVE  Legal("paths", n, EmitBlock(x, <<<<"visit", i>>, <<jump, t>>>>), Path(F, D, M, {}, {}, FALSE),
               Path(F \ {x}, D \cup ({x} \ M), (M \ {x}) \cup ({t} \cap (F \ {x})), {}, {}, FALSE))
<1> DEFINE G == F \ {x}
           E == D \cup ({x} \ M)
           N == M \ {x}
           A == Path(F, D, M, {}, {}, FALSE)
           B == Path(G, E, N, {}, {}, TRUE)
           C == Path(G, E, N, {t}, {}, TRUE)
           Z == Path(G, E, N \cup ({t} \cap G), {}, {}, FALSE)
           body == <<<<"visit", i>>, <<jump, t>>>>
<1>1. Typed("paths", n, <<"save_and_entry", x>>, A, B)
  BY PathSave
<1> HIDE DEF G, E, N
<1>2. Typed("paths", n, <<"visit", i>>, B, B)
  <2>1. LedBy(B) = {} /\ B.open
    BY DEF Path, LedBy
  <2>2. QED BY <2>1, PathVisit
<1>3. Typed("paths", n, <<jump, t>>, B, C)
  BY PathLink
<1>4. Typed("paths", n, <<"pop_block">>, C, Z)
  <2>1. Typed("paths", n, <<"pop_block">>, C, Path(G, E, N \cup (({t} \cup {}) \cap G), {}, {}, FALSE))
    BY PathPop
  <2>2. {t} \cup {} = {t}
    OBVIOUS
  <2>3. QED BY <2>1, <2>2
<1>5. Typed("paths", n, <<"seal", x>>, Z, Z)
  <2>1. <<"seal", x>>[1] \in PathFree
    BY DEF PathFree
  <2>2. QED BY <2>1, PathFreeCall
<1> HIDE DEF A, B, C, Z
<1>6. Legal("paths", n, body, B, C)
  BY <1>2, <1>3, LegalTwo
<1> HIDE DEF body
<1>7. Legal("paths", n, <<<<"save_and_entry", x>>>>, A, B)
  BY <1>1, LegalOne
<1>8. Legal("paths", n, <<<<"save_and_entry", x>>>> \o body, A, C)
  BY <1>6, <1>7, LegalConcat
<1>9. Legal("paths", n, <<<<"pop_block">>, <<"seal", x>>>>, C, Z)
  BY <1>4, <1>5, LegalTwo
<1>10. Legal("paths", n, EmitBlock(x, body), A, Z)
  <2>1. Legal("paths", n, (<<<<"save_and_entry", x>>>> \o body) \o <<<<"pop_block">>, <<"seal", x>>>>, A, Z)
    BY <1>8, <1>9, LegalConcat
  <2>2. QED BY <2>1, Zenon DEF EmitBlock
<1>11. QED BY <1>10 DEF A, Z, G, E, N, body

\* A branch to two blocks.
LEMMA BranchPaths ==
  ASSUME NEW n, Plain(n), NEW t, NEW ta, NEW f, NEW fa, NEW F, NEW D, NEW M, NEW o
  PROVE  Legal("paths", n, Branch(t, ta, f, fa), Path(F, D, M, {}, {}, o), Path(F, D, M, {t}, {f}, o))
<1>1. /\ Typed("paths", n, <<"setNext", t>>, Path(F, D, M, {}, {}, o), Path(F, D, M, {t}, {}, o))
      /\ Typed("paths", n, <<"setElse", f>>, Path(F, D, M, {t}, {}, o), Path(F, D, M, {t}, {f}, o))
  BY PathLink
<1>2. Typed("paths", n, <<"br", ta, fa>>, Path(F, D, M, {t}, {f}, o), Path(F, D, M, {t}, {f}, o))
  <2>1. <<"br", ta, fa>>[1] \in PathFree
    BY DEF PathFree
  <2>2. QED BY <2>1, PathFreeCall
<1>3. QED BY <1>1, <1>2, LegalThree DEF Branch

\* The visit goes on in cont, which was led to, and so was all that was due.
LEMMA GoOnPaths ==
  ASSUME NEW n, Plain(n), NEW D, NEW M, NEW N, NEW E, D \subseteq N \cup E, "cont" \in M \cup N \cup E,
         M \subseteq {"cont"}
  PROVE  Legal("paths", n, GoOn, Path({"cont"}, D, M, N, E, FALSE), Nil)
<1> DEFINE A == Path({"cont"}, D, M, N, E, FALSE)
<1>1. Typed("paths", n, <<"seal_current">>, A, A)
  <2>1. <<"seal_current">>[1] \in PathFree
    BY DEF PathFree
  <2>2. QED BY <2>1, PathFreeCall
<1>2. Typed("paths", n, <<"entry_block", "cont">>, A, Nil)
  <2>1. LedBy(A) = N \cup E /\ A.fresh = {"cont"} /\ A.due = D /\ A.met = M /\ A.open = FALSE
    BY DEF Path, LedBy
  <2>2. A.fresh \ {"cont"} = {} /\ (A.met \cup (LedBy(A) \cap A.fresh)) \ {"cont"} = {}
    BY <2>1
  <2> HIDE DEF A
  <2>3. Nil = Path(A.fresh \ {"cont"}, {}, (A.met \cup (LedBy(A) \cap A.fresh)) \ {"cont"}, {}, {}, FALSE)
    BY <2>2 DEF Nil
  <2>4. "cont" \in A.fresh /\ "cont" \in A.met \cup LedBy(A) /\ A.due \subseteq LedBy(A) /\ ~A.open
    BY <2>1
  <2>5. PathStep(<<"entry_block", "cont">>, A, Nil)
    BY <2>3, <2>4 DEF PathStep
  <2>6. QED BY <2>5, PathTyped
<1> HIDE DEF A
<1>3. QED BY <1>1, <1>2, LegalTwo DEF GoOn, A

\* Calls that leave paths alone, one at a time.
LEMMA FreePaths ==
  ASSUME NEW n, Plain(n), NEW c
  PROVE  \A name \in PathFree : /\ Typed("paths", n, <<name>>, c, c)
                                /\ \A x : Legal("paths", n, <<<<name, x>>>>, c, c)
                                /\ Legal("paths", n, <<<<name>>>>, c, c)
<1> SUFFICES ASSUME NEW name \in PathFree, NEW x
             PROVE  Typed("paths", n, <<name>>, c, c) /\ Typed("paths", n, <<name, x>>, c, c)
  BY LegalOne
<1>1. <<name>>[1] = name /\ <<name, x>>[1] = name
  OBVIOUS
<1>2. QED BY <1>1, PathFreeCall

\* And and Or: the block of the right side is branched to at last.
LEMMA ShortCircuitPaths ==
  ASSUME NEW n, Plain(n), NEW x, x # "cont", NEW t, NEW ta, NEW f, NEW fa, x \in {t, f}
  PROVE  Legal("paths", n, ShortCircuit(x, t, ta, f, fa), Nil, Nil)
<1> DEFINE A == Path({} \cup {"cont"}, {}, {}, {}, {}, FALSE)
           B == Path({"cont", x}, {}, {}, {}, {}, FALSE)
           C == Path({"cont"}, {x}, {"cont"}, {}, {}, FALSE)
           D == Path({"cont"}, {x}, {"cont"}, {t}, {f}, FALSE)
           Make == <<<<"newBasicBlock", "cont">>, <<"newBasicBlock", x>>>>
           Part == EmitBlock(x, <<<<"visit", 2>>, <<"jp_value", "cont">>>>)
           Fork == Branch(t, ta, f, fa)
           Pass == <<<<"add_arg", "cont">>>>
           Answer == <<<<"answer_arg", "cont">>>>
<1>1. Legal("paths", n, Make, Nil, B)
  <2>1. Typed("paths", n, <<"newBasicBlock", "cont">>, Nil, A)
    BY PathNew DEF Nil
  <2>2. Typed("paths", n, <<"newBasicBlock", x>>, A, B)
    <3>1. ({} \cup {"cont"}) \cup {x} = {"cont", x} /\ x \notin ({} \cup {"cont"}) \cup {} \cup {}
      OBVIOUS
    <3>2. Typed("paths", n, <<"newBasicBlock", x>>, A, Path(({} \cup {"cont"}) \cup {x}, {}, {}, {}, {}, FALSE))
      BY <3>1, PathNew
    <3>3. QED BY <3>1, <3>2
  <2> HIDE DEF A, B
  <2>3. QED BY <2>1, <2>2, LegalTwo
<1>2. Legal("paths", n, Part, B, C)
  <2> DEFINE F == {"cont", x}
  <2>1. /\ F \ {x} = {"cont"} /\ {} \cup ({x} \ {}) = {x}
        /\ ({} \ {x}) \cup ({"cont"} \cap (F \ {x})) = {"cont"} /\ x \in F
    OBVIOUS
  <2> HIDE DEF F
  <2>2. Legal("paths", n, Part, Path(F, {}, {}, {}, {}, FALSE),
              Path(F \ {x}, {} \cup ({x} \ {}), ({} \ {x}) \cup ({"cont"} \cap (F \ {x})), {}, {}, FALSE))
    BY <2>1, PartPaths
  <2>3. QED BY <2>1, <2>2 DEF F
<1>3. Legal("paths", n, Fork, C, D)
  BY BranchPaths
<1>4. Legal("paths", n, GoOn, D, Nil)
  <2>1. {x} \subseteq {t} \cup {f} /\ "cont" \in {"cont"} \cup {t} \cup {f} /\ {"cont"} \subseteq {"cont"}
    OBVIOUS
  <2>2. QED BY <2>1, GoOnPaths
<1>5. Legal("paths", n, Pass, D, D) /\ Legal("paths", n, Answer, Nil, Nil)
  BY FreePaths DEF PathFree
<1> HIDE DEF A, B, C, D, Make, Part, Fork, Pass, Answer
<1>6. Legal("paths", n, (Make \o Part) \o Fork, Nil, D)
  <2>1. Legal("paths", n, Make \o Part, Nil, C)
    BY <1>1, <1>2, LegalConcat
  <2>2. QED BY <1>3, <2>1, LegalConcat
<1>7. Legal("paths", n, ((Make \o Part) \o Fork) \o Pass, Nil, D)
  BY <1>5, <1>6, LegalConcat
<1>8. Legal("paths", n, ((((Make \o Part) \o Fork) \o Pass) \o GoOn) \o Answer, Nil, Nil)
  <2>1. Legal("paths", n, (((Make \o Part) \o Fork) \o Pass) \o GoOn, Nil, Nil)
    BY <1>4, <1>7, LegalConcat
  <2>2. QED BY <1>5, <2>1, LegalConcat
<1>9. ShortCircuit(x, t, ta, f, fa) = ((((Make \o Part) \o Fork) \o Pass) \o GoOn) \o Answer
  BY Zenon DEF ShortCircuit, Make, Part, Fork, Pass, Answer
<1>10. QED BY <1>8, <1>9, Zenon

\* An arm of an if waits to be branched to, and leads to cont.
LEMMA ArmPaths ==
  ASSUME NEW n, Plain(n), NEW i, NEW x, x # "cont", NEW D, x \notin D, NEW M, M \subseteq {"cont"}
  PROVE  Legal("paths", n, Arm(x, i), Path({"cont"}, D, M, {}, {}, FALSE),
               Path({"cont"}, D \cup {x}, {"cont"}, {}, {}, FALSE))
<1> DEFINE F == {"cont"} \cup {x}
           A == Path({"cont"}, D, M, {}, {}, FALSE)
           B == Path(F, D, M, {}, {}, FALSE)
           C == Path({"cont"}, D \cup {x}, {"cont"}, {}, {}, FALSE)
           Make == <<<<"newBasicBlock", x>>>>
           Part == EmitBlock(x, <<<<"visit", i>>, <<"jp", "cont">>>>)
<1>1. Legal("paths", n, Make, A, B)
  <2>1. x \notin {"cont"} \cup D \cup M
    OBVIOUS
  <2>2. Typed("paths", n, <<"newBasicBlock", x>>, A, B)
    BY <2>1, PathNew
  <2>3. QED BY <2>2, LegalOne
<1>2. Legal("paths", n, Part, B, C)
  <2>0. x \notin M /\ x \in F
    OBVIOUS
  <2>1. F \ {x} = {"cont"} /\ {x} \ M = {x} /\ x \in F
    <3>1. F \ {x} = {"cont"}
      OBVIOUS
    <3>2. {x} \ M = {x}
      BY <2>0
    <3>3. QED BY <2>0, <3>1, <3>2
  <2>2. (M \ {x}) \cup {"cont"} = {"cont"} /\ {"cont"} \cap {"cont"} = {"cont"}
    OBVIOUS
  <2> HIDE DEF F
  <2>3. Legal("paths", n, Part, B,
              Path(F \ {x}, D \cup ({x} \ M), (M \ {x}) \cup ({"cont"} \cap (F \ {x})), {}, {}, FALSE))
    BY <2>1, PartPaths
  <2>4. QED BY <2>1, <2>2, <2>3
<1> HIDE DEF A, B, C, Make, Part
<1>3. Legal("paths", n, Make \o Part, A, C)
  BY <1>1, <1>2, LegalConcat
<1>4. Arm(x, i) = Make \o Part
  BY Zenon DEF Arm, Make, Part
<1>5. QED BY <1>3, <1>4, Zenon DEF A, C

\* An if: both arms end in jumps to the block that goes on.
LEMMA IfPaths ==
  ASSUME NEW n, n.kind = "If"
  PROVE  Legal("paths", n, IfScript(n), Nil, Nil)
<1> DEFINE A == Path({} \cup {"cont"}, {}, {}, {}, {}, FALSE)
           B == Path({"cont"}, {} \cup {"then"}, {"cont"}, {}, {}, FALSE)
           C == Path({"cont"}, ({} \cup {"then"}) \cup {"else"}, {"cont"}, {}, {}, FALSE)
           D == Path({"cont"}, {} \cup {"then"}, {"cont"}, {"then"}, {"cont"}, FALSE)
           E == Path({"cont"}, ({} \cup {"then"}) \cup {"else"}, {"cont"}, {"then"}, {"else"}, FALSE)
           Make == <<<<"newBasicBlock", "cont">>>>
           Then == Arm("then", 2)
           Else == Arm("else", 3)
           Fork3 == Branch("then", <<>>, "else", <<>>)
           Fork2 == Branch("then", <<>>, "cont", <<>>)
<1>0. Plain(n)
  BY DEF Plain
<1>1. Legal("paths", n, Make, Nil, A)
  <2>1. Typed("paths", n, <<"newBasicBlock", "cont">>, Nil, A)
    BY <1>0, PathNew DEF Nil
  <2>2. QED BY <2>1, LegalOne
<1>2. Legal("paths", n, Then, A, B)
  <2>1. {} \cup {"cont"} = {"cont"} /\ "then" # "cont" /\ "then" \notin {} /\ {} \subseteq {"cont"}
    OBVIOUS
  <2>2. Legal("paths", n, Then, Path({"cont"}, {}, {}, {}, {}, FALSE), B)
    BY <1>0, <2>1, ArmPaths
  <2>3. QED BY <2>1, <2>2
<1>3. Legal("paths", n, Else, B, C)
  <2>1. "else" # "cont" /\ "else" \notin {} \cup {"then"} /\ {"cont"} \subseteq {"cont"}
    OBVIOUS
  <2>2. QED BY <1>0, <2>1, ArmPaths
<1>4. /\ Legal("paths", n, Fork2, B, D) /\ Legal("paths", n, Fork3, C, E)
  BY <1>0, BranchPaths
<1>5. Legal("paths", n, GoOn, D, Nil)
  <2>1. {} \cup {"then"} \subseteq {"then"} \cup {"cont"} /\ "cont" \in {"cont"} \cup {"then"} \cup {"cont"}
        /\ {"cont"} \subseteq {"cont"}
    OBVIOUS
  <2>2. QED BY <1>0, <2>1, GoOnPaths
<1>6. Legal("paths", n, GoOn, E, Nil)
  <2>1. ({} \cup {"then"}) \cup {"else"} \subseteq {"then"} \cup {"else"}
        /\ "cont" \in {"cont"} \cup {"then"} \cup {"else"} /\ {"cont"} \subseteq {"cont"}
    OBVIOUS
  <2>2. QED BY <1>0, <2>1, GoOnPaths
<1> HIDE DEF A, B, C, D, E, Make, Then, Else, Fork3, Fork2
<1>7. Legal("paths", n, Make \o Then, Nil, B)
  BY <1>1, <1>2, LegalConcat
<1>8. CASE Len(n.kids) = 3
  <2>1. Legal("paths", n, Else \o Fork3, B, E)
    BY <1>3, <1>4, LegalConcat
  <2>2. Legal("paths", n, (Make \o Then) \o (Else \o Fork3), Nil, E)
    BY <1>7, <2>1, LegalConcat
  <2>3. Legal("paths", n, ((Make \o Then) \o (Else \o Fork3)) \o GoOn, Nil, Nil)
    BY <1>6, <2>2, LegalConcat
  <2>4. IfScript(n) = ((Make \o Then) \o (Else \o Fork3)) \o GoOn
    BY <1>8, Zenon DEF IfScript, Make, Then, Else, Fork3
  <2>5. QED BY <2>3, <2>4, Zenon
<1>9. CASE Len(n.kids) # 3
  <2>1. Legal("paths", n, (Make \o Then) \o Fork2, Nil, D)
    BY <1>4, <1>7, LegalConcat
  <2>2. Legal("paths", n, ((Make \o Then) \o Fork2) \o GoOn, Nil, Nil)
    BY <1>5, <2>1, LegalConcat
  <2>3. IfScript(n) = ((Make \o Then) \o Fork2) \o GoOn
    BY <1>9, Zenon DEF IfScript, Make, Then, Fork2
  <2>4. QED BY <2>2, <2>3, Zenon
<1>10. QED BY <1>8, <1>9

\* While: the condition is entered first and jumped to last; its branch leads
\* to the body and to cont.
LEMMA WhilePaths ==
  ASSUME NEW n, n.kind = "While"
  PROVE  Legal("paths", n, WhileScript, Nil, Nil)
<1> DEFINE All == (({} \cup {"cond"}) \cup {"body"}) \cup {"cont"}
           P(F, D, M, o) == Path(F, D, M, {}, {}, o)
           A1 == P({} \cup {"cond"}, {}, {}, FALSE)
           A2 == P(({} \cup {"cond"}) \cup {"body"}, {}, {}, FALSE)
           A3 == P(All, {}, {}, FALSE)
           B1 == P({"body", "cont"}, {"cond"}, {}, TRUE)
           B2 == Path({"body", "cont"}, {"cond"}, {}, {"body"}, {"cont"}, TRUE)
           B3 == P({"body", "cont"}, {"cond"}, {"body", "cont"}, FALSE)
           C1 == P({"cont"}, {"cond"}, {"cont"}, FALSE)
           C2 == Path({"cont"}, {"cond"}, {"cont"}, {"cond"}, {}, FALSE)
           Fork == Branch("body", <<>>, "cont", <<>>)
           Test == <<<<"visit", 1>>, <<"keep">>>>
           Cond == EmitBlockOpen("cond", Test \o Fork)
           Enter == <<<<"jp", "cond">>>>
           SealCond == <<<<"seal", "cond">>>>
           Leave == <<<<"pop_cfd">>>>
<1>0. Plain(n)
  BY DEF Plain
<1>1. Legal("paths", n, WhileBlocks, Nil, A3)
  <2>1. Typed("paths", n, <<"newBasicBlock", "cond">>, Nil, A1)
    BY <1>0, PathNew DEF Nil
  <2>2. Typed("paths", n, <<"newBasicBlock", "body">>, A1, A2)
    <3>1. "body" \notin ({} \cup {"cond"}) \cup {} \cup {}
      OBVIOUS
    <3>2. QED BY <1>0, <3>1, PathNew
  <2>3. Typed("paths", n, <<"newBasicBlock", "cont">>, A2, A3)
    <3>1. "cont" \notin (({} \cup {"cond"}) \cup {"body"}) \cup {} \cup {}
      OBVIOUS
    <3>2. QED BY <1>0, <3>1, PathNew
  <2>4. Typed("paths", n, <<"push_cfd">>, A3, A3)
    BY <1>0, FreePaths DEF PathFree
  <2> HIDE DEF A1, A2, A3
  <2>5. QED BY <2>1, <2>2, <2>3, <2>4, LegalFour DEF WhileBlocks
<1>2. Legal("paths", n, <<<<"save_and_entry", "cond">>>>, A3, B1)
  <2>1. All \ {"cond"} = {"body", "cont"} /\ {} \cup ({"cond"} \ {}) = {"cond"} /\ {} \ {"cond"} = {} /\ "cond" \in All
    OBVIOUS
  <2> HIDE DEF All
  <2>2. Typed("paths", n, <<"save_and_entry", "cond">>, A3,
              Path(All \ {"cond"}, {} \cup ({"cond"} \ {}), {} \ {"cond"}, {}, {}, TRUE))
    BY <1>0, <2>1, PathSave
  <2>3. QED BY <2>1, <2>2, LegalOne
<1> HIDE DEF All
<1>3. Legal("paths", n, Test, B1, B1)
  <2>1. LedBy(B1) = {} /\ B1.open
    BY DEF Path, LedBy
  <2>2. Typed("paths", n, <<"visit", 1>>, B1, B1)
    BY <1>0, <2>1, PathVisit
  <2>3. Typed("paths", n, <<"keep">>, B1, B1)
    BY <1>0, FreePaths DEF PathFree
  <2> HIDE DEF B1
  <2>4. QED BY <2>2, <2>3, LegalTwo
<1>4. Legal("paths", n, Fork, B1, B2)
  BY <1>0, BranchPaths
<1>5. Legal("paths", n, <<<<"pop_block">>>>, B2, B3)
  <2>1. {} \cup (({"body"} \cup {"cont"}) \cap {"body", "cont"}) = {"body", "cont"}
    OBVIOUS
  <2>2. Typed("paths", n, <<"pop_block">>, B2,
              Path({"body", "cont"}, {"cond"}, {} \cup (({"body"} \cup {"cont"}) \cap {"body", "cont"}), {}, {}, FALSE))
    BY <1>0, PathPop
  <2>3. QED BY <2>1, <2>2, LegalOne
<1>6. Legal("paths", n, WhileBody, B3, C1)
  <2> DEFINE F == {"body", "cont"}
  <2>1. /\ F \ {"body"} = {"cont"} /\ {"cond"} \cup ({"body"} \ F) = {"cond"}
        /\ (F \ {"body"}) \cup ({"cont"} \cap (F \ {"body"})) = {"cont"} /\ "body" \in F
    OBVIOUS
  <2>2. "jp" \in {"jp", "jp_value"}
    OBVIOUS
  <2> HIDE DEF F
  <2>3. Legal("paths", n, WhileBody, Path(F, {"cond"}, F, {}, {}, FALSE),
              Path(F \ {"body"}, {"cond"} \cup ({"body"} \ F),
                   (F \ {"body"}) \cup ({"cont"} \cap (F \ {"body"})), {}, {}, FALSE))
    BY <1>0, <2>1, <2>2, PartPaths DEF WhileBody
  <2>4. QED BY <2>1, <2>3 DEF F
<1>7. Legal("paths", n, Enter, C1, C2)
  <2>1. Typed("paths", n, <<"jp", "cond">>, C1, C2)
    BY <1>0, PathLink
  <2>2. QED BY <2>1, LegalOne
<1>8. Legal("paths", n, SealCond, C2, C2) /\ Legal("paths", n, Leave, Nil, Nil)
  BY <1>0, FreePaths DEF PathFree
<1>9. Legal("paths", n, GoOn, C2, Nil)
  <2>1. {"cond"} \subseteq {"cond"} \cup {} /\ "cont" \in {"cont"} \cup {"cond"} \cup {} /\ {"cont"} \subseteq {"cont"}
    OBVIOUS
  <2>2. QED BY <1>0, <2>1, GoOnPaths
<1> HIDE DEF A3, B1, B2, B3, C1, C2, Fork, Test, Enter, SealCond, Leave
<1>10. Legal("paths", n, Cond, A3, B3)
  <2>1. Legal("paths", n, Test \o Fork, B1, B2)
    BY <1>3, <1>4, LegalConcat
  <2>2. Legal("paths", n, <<<<"save_and_entry", "cond">>>> \o (Test \o Fork), A3, B2)
    BY <1>2, <2>1, LegalConcat
  <2>3. Legal("paths", n, (<<<<"save_and_entry", "cond">>>> \o (Test \o Fork)) \o <<<<"pop_block">>>>, A3, B3)
    BY <1>5, <2>2, LegalConcat
  <2>4. Cond = (<<<<"save_and_entry", "cond">>>> \o (Test \o Fork)) \o <<<<"pop_block">>>>
    BY Zenon DEF EmitBlockOpen
  <2>5. QED BY <2>3, <2>4, Zenon
<1> HIDE DEF Cond
<1>11. Legal("paths", n, ((WhileBlocks \o Cond) \o WhileBody) \o Enter, Nil, C2)
  <2>1. Legal("paths", n, WhileBlocks \o Cond, Nil, B3)
    BY <1>1, <1>10, LegalConcat
  <2>2. Legal("paths", n, (WhileBlocks \o Cond) \o WhileBody, Nil, C1)
    BY <1>6, <2>1, LegalConcat
  <2>3. QED BY <1>7, <2>2, LegalConcat
<1>12. Legal("paths", n, (SealCond \o GoOn) \o Leave, C2, Nil)
  <2>1. Legal("paths", n, SealCond \o GoOn, C2, Nil)
    BY <1>8, <1>9, LegalConcat
  <2>2. QED BY <1>8, <2>1, LegalConcat
<1>13. Legal("paths", n, (((WhileBlocks \o Cond) \o WhileBody) \o Enter) \o ((SealCond \o GoOn) \o Leave), Nil, Nil)
  BY <1>11, <1>12, LegalConcat
<1>14. WhileScript = (((WhileBlocks \o Cond) \o WhileBody) \o Enter) \o ((SealCond \o GoOn) \o Leave)
  BY Zenon DEF WhileScript, WhileEnd, Enter, SealCond, Leave, Cond, Test, Fork
<1>15. QED BY <1>13, <1>14, Zenon

\* A block: nothing but visits and checks, none of which is about blocks.
LEMMA BlockPaths ==
  ASSUME NEW n, IsNode(n), n.kind = "Block"
  PROVE  Legal("paths", n, BlockScript(n), Nil, Nil)
<1> DEFINE m == Len(n.kids)
           mid == [j \in 1..(2 * m) |-> IF j % 2 = 1 THEN <<"visit", (j + 1) \div 2>> ELSE <<"stop_if_term">>]
           Open == <<<<"push_env">>>>
           Close == <<<<"pop_env">>>>
<1>1. m \in Nat /\ 2 * m \in Nat
  BY NodeFacts, SeqFacts
<1>2. LedBy(Nil) = {} /\ Nil.due = {}
  BY DEF Nil, Path, LedBy
<1>3. /\ \A i : Typed("paths", n, <<"visit", i>>, Nil, Nil)
      /\ Typed("paths", n, <<"stop_if_term">>, Nil, Nil)
      /\ Typed("paths", n, <<"push_env">>, Nil, Nil)
      /\ Typed("paths", n, <<"pop_env">>, Nil, Nil)
  BY <1>2 DEF Typed, PathCall, PathStep, PathFree
<1>4. Legal("paths", n, mid, Nil, Nil)
  <2>1. mid = [j \in 1..(2 * m) |-> mid[j]]
    OBVIOUS
  <2>2. \A j \in 1..(2 * m) : (\E i : mid[j] = <<"visit", i>>) \/ mid[j] = <<"stop_if_term">>
    OBVIOUS
  <2> HIDE DEF mid, m
  <2>3. IsSeq(mid) /\ Len(mid) = 2 * m
    BY <1>1, <2>1, FunctionIsSeq
  <2>4. \A j \in 1..(2 * m) : Typed("paths", n, mid[j], Nil, Nil)
    BY <1>3, <2>2
  <2>5. QED BY <2>3, <2>4, LegalSame
<1>5. Legal("paths", n, Open, Nil, Nil) /\ Legal("paths", n, Close, Nil, Nil)
  BY <1>3, LegalOne
<1>6. BlockScript(n) = (Open \o mid) \o Close
  BY Zenon DEF BlockScript
<1> HIDE DEF mid, Open, Close
<1>7. Legal("paths", n, Open \o mid, Nil, Nil)
  BY <1>4, <1>5, LegalConcat
<1>8. QED BY <1>5, <1>6, <1>7, LegalConcat

\* A part is visited while no block is made.
LEMMA VisitPaths ==
  ASSUME NEW n, Plain(n), NEW i
  PROVE  Typed("paths", n, <<"visit", i>>, Nil, Nil) /\ Legal("paths", n, <<<<"visit", i>>>>, Nil, Nil)
<1>1. LedBy(Nil) = {} /\ Nil.due = {}
  BY DEF Nil, Path, LedBy
<1>2. QED BY <1>1, PathVisit, LegalOne

\* What is legal with nothing open is so after a visit of the first part.
LEMMA FirstPaths ==
  ASSUME NEW n, Plain(n), NEW s, Legal("paths", n, s, Nil, Nil)
  PROVE  Legal("paths", n, VisitFirst(n) \o s, Nil, Nil)
<1>1. Legal("paths", n, <<>>, Nil, Nil) /\ Legal("paths", n, <<<<"visit", 1>>>>, Nil, Nil)
  BY LegalEmpty, VisitPaths
<1>2. VisitFirst(n) \in {<<>>, <<<<"visit", 1>>>>}
  BY DEF VisitFirst
<1>3. QED BY <1>1, <1>2, LegalConcat

\* Every visit begins and ends with no block of its own left open.
LEMMA ScriptPaths ==
  ASSUME NEW n, IsNode(n)
  PROVE  Legal("paths", n, Script(n), Nil, Nil)
<1>1. n.kind \in Kinds
  BY NodeFacts
<1>2. CASE n.kind = "While"
  BY <1>2, WhilePaths DEF Script
<1>3. CASE n.kind = "Block"
  BY <1>3, BlockPaths DEF Script
<1>4. CASE n.kind \notin {"While", "Block"}
  <2>1. Plain(n)
    BY <1>4 DEF Plain
  <2>2. \A name \in PathFree : Typed("paths", n, <<name>>, Nil, Nil) /\ Legal("paths", n, <<<<name>>>>, Nil, Nil)
    BY <2>1, FreePaths
  <2>3. {"literal", "readVar", "call", "declare", "keep", "rt", "assign", "seal_current"} \subseteq PathFree
    BY DEF PathFree
  <2>4. Legal("paths", n, <<<<"keep">>, <<"rt">>>>, Nil, Nil)
    BY <2>2, <2>3, LegalTwo
  <2>5. CASE n.kind \in {"IntLiteral", "DeclRef", "getint", "Call", "VarDecl", "Return"}
    <3>1. \/ Script(n) \in {<<<<"literal">>>>, <<<<"readVar">>>>}
          \/ Script(n) \in {VisitFirst(n) \o <<<<"call">>>>, VisitFirst(n) \o <<<<"declare">>>>,
                            VisitFirst(n) \o <<<<"keep">>, <<"rt">>>>}
      BY <2>5 DEF Script
    <3>2. QED BY <2>1, <2>2, <2>3, <2>4, <3>1, FirstPaths
  <2>6. CASE n.kind \in {"Assign", "And", "Or", "If"}
    <3>1. Script(n) \in {<<<<"visit", 1>>, <<"assign">>>>, <<<<"visit", 1>>, <<"decide">>>>}
      BY <2>6 DEF Script
    <3>2. Typed("paths", n, <<"decide">>, Nil, Nil)
      BY <2>1, PathTyped DEF PathStep
    <3>3. Typed("paths", n, <<"visit", 1>>, Nil, Nil) /\ Typed("paths", n, <<"assign">>, Nil, Nil)
      BY <2>1, <2>2, <2>3, VisitPaths
    <3>4. QED BY <3>1, <3>2, <3>3, LegalTwo
  <2>7. CASE n.kind \in {"Break", "Continue"}
    <3>1. \E x : Script(n) = <<<<"jp_loop", x>>, <<"seal_current">>>>
      BY <2>7 DEF Script
    <3>2. \A x : Typed("paths", n, <<"jp_loop", x>>, Nil, Nil)
      <4>1. Nil.next = {}
        BY DEF Nil, Path
      <4>2. QED BY <2>1, <4>1, PathTyped DEF PathStep
    <3>3. QED BY <2>2, <2>3, <3>1, <3>2, LegalTwo
  <2>8. QED BY <1>1, <1>4, <2>5, <2>6, <2>7 DEF Kinds
<1>5. QED BY <1>2, <1>3, <1>4

\* And so does what follows a decision.
LEMMA DecisionPaths ==
  ASSUME NEW n, n.kind \in {"And", "Or", "If"}, NEW v
  PROVE  Legal("paths", n, Folded(n, v), Nil, Nil) /\ Legal("paths", n, Lowered(n), Nil, Nil)
<1>1. Plain(n)
  BY DEF Plain
<1>2. Legal("paths", n, Folded(n, v), Nil, Nil)
  <2>1. Folded(n, v) \in {<<>>, <<<<"visit", 2>>>>, <<<<"visit", 3>>>>}
    BY DEF Folded
  <2>2. Legal("paths", n, <<>>, Nil, Nil)
    BY LegalEmpty
  <2>3. QED BY <1>1, <2>1, <2>2, VisitPaths
<1>3. CASE n.kind = "And"
  <2>1. Legal("paths", n, ShortCircuit("true", "true", <<>>, "cont", <<Im(FALSE)>>), Nil, Nil)
    BY <1>1, ShortCircuitPaths
  <2>2. AndScript = ShortCircuit("true", "true", <<>>, "cont", <<Im(FALSE)>>)
    BY Zenon DEF AndScript, ShortCircuit
  <2>3. Lowered(n) = AndScript
    BY <1>3 DEF Lowered
  <2>4. QED BY <1>2, <2>1, <2>2, <2>3, Zenon
<1>4. CASE n.kind = "Or"
  <2>1. Legal("paths", n, ShortCircuit("false", "cont", <<Im(TRUE)>>, "false", <<>>), Nil, Nil)
    BY <1>1, ShortCircuitPaths
  <2>2. OrScript = ShortCircuit("false", "cont", <<Im(TRUE)>>, "false", <<>>)
    BY Zenon DEF OrScript, ShortCircuit
  <2>3. Lowered(n) = OrScript
    BY <1>4 DEF Lowered
  <2>4. QED BY <1>2, <2>1, <2>2, <2>3, Zenon
<1>5. CASE n.kind = "If"
  <2>1. Lowered(n) = IfScript(n)
    BY <1>5 DEF Lowered
  <2>2. QED BY <1>2, <1>5, <2>1, IfPaths
<1>6. QED BY <1>3, <1>4, <1>5

\* The last of a block's calls may be its next.
LEMMA LastPaths ==
  ASSUME NEW n, n.kind = "Block", NEW s, NEW c, Legal("paths", n, s, c, Nil), Len(s) # 0
  PROVE  Legal("paths", n, <<s[Len(s)]>>, Nil, Nil)
<1>1. PICK tr : /\ tr[Len(s)] = Nil
                /\ \A j \in 1..Len(s) : Typed("paths", n, s[j], tr[j - 1], tr[j])
  BY DEF Legal
<1>2. Len(s) \in 1..Len(s)
  <2>1. Len(s) \in Nat
    BY SeqFacts DEF Legal
  <2>2. QED BY <2>1
<1>3. PICK x, d : x = s[Len(s)] /\ PathCall(n, x, d, Nil)
  BY <1>1, <1>2 DEF Typed
<1>4. Typed("paths", n, x, Nil, Nil)
  BY <1>3 DEF PathCall, Typed
<1>5. QED BY <1>3, <1>4, LegalOne

\* Calls that look for operands, in front of the rest.
LEMMA PathReads ==
  ASSUME NEW n, NEW r, AllReads(r), NEW s, NEW c, NEW e, Legal("paths", n, s, c, e)
  PROVE  Legal("paths", n, r \o s, c, e)
<1>1. \A j \in 1..Len(r) : Typed("paths", n, r[j], c, c)
  BY DEF AllReads, Typed, PathCall
<1>2. Legal("paths", n, r, c, c)
  BY <1>1, LegalSame DEF AllReads
<1>3. QED BY <1>2, LegalConcat

---------------------------------------------------------------------------
(* The state of the emitter.                                               *)

\* The blocks that have parameters.
WithParams == {b \in Block : params[b] # <<>>}

FramesInv ==
  \E ctx, sv, lp :
    StackOK(program, frames, phase, Len(saves), Len(cfds), graph[proc], WithParams, ctx, sv, lp)

\* The loops noted have their blocks in the current graph.
LoopsInv ==
  /\ IsSeq(cfds)
  /\ \A i \in 1..Len(cfds) : \A x \in {"cond", "cont"} : cfds[i][x] \in graph[proc]

\* Every block has a list of parameters and one of incomplete ones.
ListsInv ==
  /\ DOMAIN params = Block /\ DOMAIN incomplete = Block
  /\ \A b \in Block : IsSeq(params[b]) /\ IsSeq(incomplete[b])

EmitterInv ==
  /\ ProtocolInv
  /\ FramesInv
  /\ LoopsInv
  /\ ListsInv
  /\ program \in Programs

\* The innermost visit is in context c, above s saved blocks and l loops.
TopState(c, s, l) ==
  /\ FrameOK(Frame, c, l, graph[proc], WithParams)
  /\ s \in Nat /\ l \in Nat
  /\ Len(saves) = s + Opened(c)
  /\ Len(cfds) = l + Looped(c)
  /\ ReadsFirst(Frame.todo)

---------------------------------------------------------------------------
(* The frames after a step.                                                *)

\* What is due is due in the unit or in a visit.
LEMMA FrameFacts ==
  ASSUME FramesInv
  PROVE  /\ IsSeq(frames) /\ Len(frames) \in Nat /\ Len(frames) # 0
         /\ Len(frames) = 1 \/ Len(frames) > 1
         /\ Len(frames) > 1 => phase = "body" /\ \E c, s, l : TopState(c, s, l)
         /\ Len(frames) = 1 => UnitOK(program, Frame, phase)
<1>1. PICK ctx, sv, lp :
        StackOK(program, frames, phase, Len(saves), Len(cfds), graph[proc], WithParams, ctx, sv, lp)
  BY DEF FramesInv
<1> DEFINE n == Len(frames)
<1>2. IsSeq(frames) /\ n \in Nat /\ n # 0
  BY <1>1, SeqFacts DEF StackOK
<1>3. n = 1 => UnitOK(program, Frame, phase)
  BY <1>1 DEF StackOK, Frame
<1>4. ASSUME n > 1 PROVE phase = "body" /\ TopState(ctx[n], sv[n], lp[n])
  <2>1. n \in 2..n /\ n \in 1..n
    BY <1>2, <1>4
  <2>2. /\ FrameOK(frames[n], ctx[n], lp[n], graph[proc], WithParams)
        /\ sv[n] \in Nat /\ lp[n] \in Nat
        /\ Len(saves) = sv[n] + Opened(ctx[n]) /\ Len(cfds) = lp[n] + Looped(ctx[n])
        /\ ReadsFirst(frames[n].todo) /\ phase = "body"
    BY <1>1, <1>4, <2>1 DEF StackOK
  <2>3. QED BY <2>2 DEF TopState, Frame
<1>5. n = 1 \/ n > 1
  <2> HIDE DEF n
  <2>1. QED BY <1>2
<1>6. QED BY <1>2, <1>3, <1>4, <1>5

\* The innermost visit goes on.
LEMMA VisitGoesOn ==
  ASSUME FramesInv, Len(frames) > 1, NEW f, frames' = Continued(f), ReadsFirst(f.todo),
         UNCHANGED <<program, phase>>, graph[proc] \subseteq graph'[proc'], WithParams \subseteq WithParams',
         \A c, s, l : TopState(c, s, l) =>
           \E d : /\ FrameOK(f, d, l, graph'[proc'], WithParams')
                  /\ Len(saves') = s + Opened(d) /\ Len(cfds') = l + Looped(d)
  PROVE  FramesInv'
<1>1. PICK ctx, sv, lp :
        StackOK(program, frames, phase, Len(saves), Len(cfds), graph[proc], WithParams, ctx, sv, lp)
  BY DEF FramesInv
<1> DEFINE n == Len(frames)
<1>2. TopState(ctx[n], sv[n], lp[n])
  <2>1. n \in Nat
    BY <1>1, SeqFacts DEF StackOK
  <2>2. n \in 2..n /\ n \in 1..n
    BY <2>1
  <2>3. QED BY <1>1, <2>2 DEF StackOK, TopState, Frame
<1>3. PICK d : /\ FrameOK(f, d, lp[n], graph'[proc'], WithParams')
               /\ Len(saves') = sv[n] + Opened(d) /\ Len(cfds') = lp[n] + Looped(d)
  BY <1>2
<1>4. \E dtx : StackOK(program, Continued(f), phase, Len(saves'), Len(cfds'), graph'[proc'], WithParams', dtx, sv, lp)
  BY <1>1, <1>3, ReplaceTop DEF Continued
<1>5. QED BY <1>4 DEF FramesInv

\* A visit that goes on and starts another.
LEMMA VisitStarts ==
  ASSUME FramesInv, NEW f, NEW g,
         frames' = Append(Continued(f), g), UNCHANGED <<program, phase, saves, cfds, graph, proc, params>>,
         phase = "body", NoReads(f.todo), ReadsFirst(g.todo),
         FrameOK(g, Blank, Len(cfds), graph[proc], WithParams),
         \/ Len(frames) > 1 /\ \A c, s, l : TopState(c, s, l) => FrameOK(f, c, l, graph[proc], WithParams)
         \/ Len(frames) = 1 /\ UnitOK(program, f, phase)
  PROVE  FramesInv'
<1>1. PICK ctx, sv, lp :
        StackOK(program, frames, phase, Len(saves), Len(cfds), graph[proc], WithParams, ctx, sv, lp)
  BY DEF FramesInv
<1> DEFINE n == Len(frames)
           fr == Continued(f)
<1>2. /\ IsSeq(frames) /\ n \in Nat /\ n # 0
      /\ fr[Len(fr)] = f
  <2>1. IsSeq(frames) /\ n \in Nat /\ n # 0
    BY <1>1, SeqFacts DEF StackOK
  <2>2. IsSeq(SubSeq(frames, 1, n - 1))
    BY <2>1, FrontFacts
  <2>3. Len(fr) = Len(SubSeq(frames, 1, n - 1)) + 1 /\ fr[Len(SubSeq(frames, 1, n - 1)) + 1] = f
    BY <2>2, AppendFacts DEF Continued
  <2>4. QED BY <2>1, <2>3
<1>3. \E dtx : StackOK(program, fr, phase, Len(saves), Len(cfds), graph[proc], WithParams, dtx, sv, lp)
  <2>1. CASE Len(frames) = 1
    <3>1. UnitOK(program, f, phase)
      BY <2>1
    <3>2. QED BY <1>1, <2>1, <3>1, ReplaceUnit DEF Continued
  <2>2. CASE n > 1 /\ \A c, s, l : TopState(c, s, l) => FrameOK(f, c, l, graph[proc], WithParams)
    <3>1. n \in 2..n /\ n \in 1..n
      BY <1>2, <2>2
    <3>2. TopState(ctx[n], sv[n], lp[n])
      BY <1>1, <3>1 DEF StackOK, TopState, Frame
    <3>3. /\ FrameOK(f, ctx[n], lp[n], graph[proc], WithParams)
          /\ Len(saves) = sv[n] + Opened(ctx[n]) /\ Len(cfds) = lp[n] + Looped(ctx[n])
      BY <2>2, <3>2 DEF TopState
    <3>4. ReadsFirst(f.todo)
      BY DEF ReadsFirst, NoReads
    <3>5. QED BY <1>1, <2>2, <3>3, <3>4, ReplaceTop DEF Continued
  <2>3. QED BY <2>1, <2>2
<1> HIDE DEF fr
<1>4. \E dtx, tv, mp : StackOK(program, Append(fr, g), phase, Len(saves), Len(cfds), graph[proc], WithParams, dtx, tv, mp)
  BY <1>2, <1>3, PushFrame
<1>5. QED BY <1>4 DEF FramesInv, WithParams, fr

\* Enter goes on.
LEMMA UnitGoesOn ==
  ASSUME FramesInv, Len(frames) = 1, NEW f, frames' = Continued(f), UNCHANGED <<program, cfds>>,
         UnitOK(program, f, phase'), Len(saves') = Len(saves)
  PROVE  FramesInv' /\ Len(saves) = 0 /\ Len(cfds) = 0
<1>1. PICK ctx, sv, lp :
        StackOK(program, frames, phase, Len(saves), Len(cfds), graph[proc], WithParams, ctx, sv, lp)
  BY DEF FramesInv
<1>2. /\ Len(saves) = 0 /\ Len(cfds) = 0
      /\ StackOK(program, Continued(f), phase', Len(saves), Len(cfds), graph'[proc'], WithParams', ctx, sv, lp)
  BY <1>1, ReplaceUnit DEF Continued
<1>3. QED BY <1>2 DEF FramesInv

\* The innermost visit returns.
LEMMA VisitReturns ==
  ASSUME FramesInv, Len(frames) > 1, Frame.todo = <<>>, frames' = SubSeq(frames, 1, Len(frames) - 1),
         UNCHANGED <<program, phase, saves, cfds, graph, proc, params>>
  PROVE  FramesInv'
<1>1. PICK ctx, sv, lp :
        StackOK(program, frames, phase, Len(saves), Len(cfds), graph[proc], WithParams, ctx, sv, lp)
  BY DEF FramesInv
<1>2. StackOK(program, frames', phase, Len(saves), Len(cfds), graph[proc], WithParams, ctx, sv, lp)
  BY <1>1, PopFrame DEF Frame
<1>3. QED BY <1>2 DEF FramesInv, WithParams
---------------------------------------------------------------------------
(* The innermost visit's next call.                                        *)

LEMMA CallFacts ==
  ASSUME NEW c, NEW s, NEW l, TopState(c, s, l), Frame.todo # <<>>
  PROVE  /\ IsFrame(Frame) /\ IsSeq(Frame.todo) /\ Len(Frame.todo) # 0
         /\ \E d, e : /\ Typed("visit", Frame.node, Frame.todo[1], c, d)
                      /\ ~e.open /\ ~e.loop /\ Legal("visit", Frame.node, Tail(Frame.todo), d, e)
         /\ IsSeq(Tail(Frame.todo)) /\ ReadsFirst(Tail(Frame.todo))
         /\ Frame.todo[1][1] \notin ReadCalls => NoReads(Tail(Frame.todo))
<1>1. PICK e : ~e.open /\ ~e.loop /\ Legal("visit", Frame.node, Frame.todo, c, e)
  BY DEF TopState, FrameOK
<1>2. IsFrame(Frame) /\ IsSeq(Frame.todo) /\ ReadsFirst(Frame.todo)
  BY <1>1 DEF TopState, FrameOK, Legal
<1>3. Len(Frame.todo) # 0
  BY <1>2, EmptyFacts
<1>4. \E d : Typed("visit", Frame.node, Frame.todo[1], c, d) /\ Legal("visit", Frame.node, Tail(Frame.todo), d, e)
  BY <1>1, <1>3, LegalTail
<1>5. IsSeq(Tail(Frame.todo))
  BY <1>2, <1>3, TailFacts
<1>6. QED BY <1>1, <1>2, <1>3, <1>4, <1>5, ReadsTail

\* A frame with one field changed.
LEMMA FrameForms ==
  ASSUME NEW f, IsFrame(f), NEW v
  PROVE  /\ [f EXCEPT !.todo = v] = [node |-> f.node, todo |-> v, slots |-> f.slots, kept |-> f.kept]
         /\ [f EXCEPT !.slots = v] = [node |-> f.node, todo |-> f.todo, slots |-> v, kept |-> f.kept]
         /\ [f EXCEPT !.kept = v] = [node |-> f.node, todo |-> f.todo, slots |-> f.slots, kept |-> v]
<1>1. PICK n, t, s, k : f = [node |-> n, todo |-> t, slots |-> s, kept |-> k]
  BY DEF IsFrame
<1>2. f.node = n /\ f.todo = t /\ f.slots = s /\ f.kept = k
  BY <1>1
<1>3. [f EXCEPT !.todo = v] = [node |-> n, todo |-> v, slots |-> s, kept |-> k]
  BY <1>1
<1>4. [f EXCEPT !.slots = v] = [node |-> n, todo |-> t, slots |-> v, kept |-> k]
  BY <1>1
<1>5. [f EXCEPT !.kept = v] = [node |-> n, todo |-> t, slots |-> s, kept |-> v]
  BY <1>1
<1>6. QED BY <1>2, <1>3, <1>4, <1>5

\* The fields of a frame.
LEMMA FrameFields ==
  ASSUME NEW n, NEW t, NEW s, NEW k, NEW f, f = [node |-> n, todo |-> t, slots |-> s, kept |-> k]
  PROVE  f.node = n /\ f.todo = t /\ f.slots = s /\ f.kept = k /\ IsFrame(f)
  BY DEF IsFrame

\* What a frame becomes when the call that is due is done.
Made(todo, slots, kept) == [node |-> Frame.node, todo |-> todo, slots |-> slots, kept |-> kept]

LEMMA RestForms ==
  ASSUME IsFrame(Frame), NEW v, NEW w
  PROVE  /\ Rest = Made(Tail(Frame.todo), Frame.slots, Frame.kept)
         /\ [Rest EXCEPT !.kept = v] = Made(Tail(Frame.todo), Frame.slots, v)
         /\ [Rest EXCEPT !.todo = v \o @] = Made(v \o Tail(Frame.todo), Frame.slots, Frame.kept)
         /\ [Rest EXCEPT !.slots = Put(@, v, w)] = Made(Tail(Frame.todo), Put(Frame.slots, v, w), Frame.kept)
         /\ [Frame EXCEPT !.todo = v] = Made(v, Frame.slots, Frame.kept)
         /\ [Frame EXCEPT !.todo = v, !.kept = w] = Made(v, Frame.slots, w)
<1>1. [Frame EXCEPT !.todo = v] = Made(v, Frame.slots, Frame.kept)
  BY FrameForms, Zenon DEF Made
<1>2. [Frame EXCEPT !.todo = v, !.kept = w] = Made(v, Frame.slots, w)
  <2> DEFINE g == [Frame EXCEPT !.todo = v]
  <2>1. [Frame EXCEPT !.todo = v, !.kept = w] = [g EXCEPT !.kept = w]
    OBVIOUS
  <2>9. g = [node |-> Frame.node, todo |-> v, slots |-> Frame.slots, kept |-> Frame.kept]
    BY <1>1, Zenon DEF Made
  <2> HIDE DEF g
  <2>2. g.node = Frame.node /\ g.todo = v /\ g.slots = Frame.slots /\ IsFrame(g)
    BY <2>9, FrameFields
  <2>3. [g EXCEPT !.kept = w] = [node |-> g.node, todo |-> g.todo, slots |-> g.slots, kept |-> w]
    BY <2>2, FrameForms, Zenon
  <2>4. QED BY <2>1, <2>2, <2>3, Zenon DEF Made
<1>3. Rest = Made(Tail(Frame.todo), Frame.slots, Frame.kept)
  <2>1. Rest = [Frame EXCEPT !.todo = Tail(Frame.todo)]
    BY DEF Rest
  <2>2. QED BY <2>1, FrameForms, Zenon DEF Made
<1>4. /\ Rest.node = Frame.node /\ Rest.todo = Tail(Frame.todo) /\ Rest.slots = Frame.slots
      /\ Rest.kept = Frame.kept /\ IsFrame(Rest)
  <2>1. Rest = [node |-> Frame.node, todo |-> Tail(Frame.todo), slots |-> Frame.slots, kept |-> Frame.kept]
    BY <1>3, Zenon DEF Made
  <2> HIDE DEF Rest, Frame
  <2>2. QED BY <2>1, FrameFields
<1> HIDE DEF Rest
<1>5. [Rest EXCEPT !.kept = v] = Made(Tail(Frame.todo), Frame.slots, v)
  BY <1>4, FrameForms, Zenon DEF Made
<1>6. [Rest EXCEPT !.todo = v \o @] = Made(v \o Tail(Frame.todo), Frame.slots, Frame.kept)
  <2>1. [Rest EXCEPT !.todo = v \o @] = [Rest EXCEPT !.todo = v \o Rest.todo]
    OBVIOUS
  <2>2. [Rest EXCEPT !.todo = v \o Rest.todo]
          = [node |-> Rest.node, todo |-> v \o Rest.todo, slots |-> Rest.slots, kept |-> Rest.kept]
    BY <1>4, FrameForms, Zenon
  <2>3. QED BY <1>4, <2>1, <2>2, Zenon DEF Made
<1>7. [Rest EXCEPT !.slots = Put(@, v, w)] = Made(Tail(Frame.todo), Put(Frame.slots, v, w), Frame.kept)
  <2>1. [Rest EXCEPT !.slots = Put(@, v, w)] = [Rest EXCEPT !.slots = Put(Rest.slots, v, w)]
    OBVIOUS
  <2>2. [Rest EXCEPT !.slots = Put(Rest.slots, v, w)]
          = [node |-> Rest.node, todo |-> Rest.todo, slots |-> Put(Rest.slots, v, w), kept |-> Rest.kept]
    BY <1>4, FrameForms, Zenon
  <2>3. QED BY <1>4, <2>1, <2>2, Zenon DEF Made
<1>8. QED BY <1>1, <1>2, <1>3, <1>5, <1>6, <1>7

\* Calls that leave the context as it is.
SameCalls == FreeCalls \cup SlotCalls \cup ReadCalls
               \cup {"jp_loop", "visit", "decide", "stop_if_term", "answer_arg"}

LEMMA SameCall ==
  ASSUME NEW n, NEW call, NEW c, NEW d, Typed("visit", n, call, c, d), call[1] \in SameCalls
  PROVE  d = c
  BY DEF Typed, NodeCall, SameCalls, FreeCalls, SlotCalls, ReadCalls

\* The frame goes on after its next call, perhaps with calls in its place
\* that look for operands.
GoesOn(f) ==
  /\ f = [node |-> Frame.node, todo |-> f.todo, slots |-> Frame.slots, kept |-> f.kept]
  /\ \/ f.todo = Tail(Frame.todo)
     \/ \E r : AllReads(r) /\ f.todo = r \o Tail(Frame.todo)

LEMMA SameFrame ==
  ASSUME Frame.todo # <<>>, Frame.todo[1][1] \in SameCalls, NEW f, GoesOn(f),
         NEW c, NEW s, NEW l, TopState(c, s, l)
  PROVE  FrameOK(f, c, l, graph[proc], WithParams) /\ ReadsFirst(f.todo)
<1>1. PICK d, e : /\ Typed("visit", Frame.node, Frame.todo[1], c, d)
                  /\ ~e.open /\ ~e.loop /\ Legal("visit", Frame.node, Tail(Frame.todo), d, e)
  BY CallFacts
<1>2. d = c
  BY <1>1, SameCall
<1>3. IsSeq(Tail(Frame.todo)) /\ ReadsFirst(Tail(Frame.todo))
  BY CallFacts
<1>4. Legal("visit", Frame.node, f.todo, c, e) /\ ReadsFirst(f.todo)
  <2>1. CASE f.todo = Tail(Frame.todo)
    BY <1>1, <1>2, <1>3, <2>1
  <2>2. ASSUME NEW r, AllReads(r), f.todo = r \o Tail(Frame.todo)
        PROVE  Legal("visit", Frame.node, f.todo, c, e) /\ ReadsFirst(f.todo)
    BY <1>1, <1>2, <1>3, <2>2, LegalReads, ReadsConcat
  <2>3. QED BY <2>1, <2>2 DEF GoesOn
<1>5. IsFrame(f) /\ f.node = Frame.node /\ f.slots = Frame.slots
  BY DEF GoesOn, IsFrame
<1>6. \E loop : <<f.node, loop>> \in Nodes /\ (loop => l > 0)
  BY <1>5 DEF TopState, FrameOK
<1>7. SlotsOK(f.slots, c, graph[proc], WithParams)
  BY <1>5 DEF TopState, FrameOK
<1>8. QED BY <1>1, <1>4, <1>5, <1>6, <1>7 DEF FrameOK

LEMMA SameStep ==
  ASSUME FramesInv, Len(frames) > 1, Frame.todo # <<>>, Frame.todo[1][1] \in SameCalls,
         NEW f, GoesOn(f), frames' = Continued(f), UNCHANGED <<program, phase>>,
         Len(saves') = Len(saves), Len(cfds') = Len(cfds),
         graph[proc] \subseteq graph'[proc'], WithParams \subseteq WithParams'
  PROVE  FramesInv'
<1>1. ASSUME NEW c, NEW s, NEW l, TopState(c, s, l)
      PROVE  /\ FrameOK(f, c, l, graph'[proc'], WithParams')
             /\ Len(saves) = s + Opened(c) /\ Len(cfds) = l + Looped(c) /\ ReadsFirst(f.todo)
  <2>1. FrameOK(f, c, l, graph[proc], WithParams) /\ ReadsFirst(f.todo)
    BY <1>1, SameFrame
  <2>2. FrameOK(f, c, l, graph'[proc'], WithParams')
    BY <2>1, FrameGrows
  <2>3. QED BY <1>1, <2>1, <2>2 DEF TopState
<1>2. ReadsFirst(f.todo)
  BY <1>1, FrameFacts
<1>3. QED BY <1>1, <1>2, VisitGoesOn

\* The calls of enter.
UnitCalls == {"setup_code", "push_env", "pop_env", "entry_function", "first_block", "param", "body"}

LEMMA UnitFacts ==
  ASSUME FramesInv, Len(frames) = 1, Frame.todo # <<>>
  PROVE  /\ IsFrame(Frame) /\ Frame.node = program
         /\ NoReads(Tail(Frame.todo))
         /\ \E d : UnitCall(program, Frame.todo[1], phase, d) /\ Legal("unit", program, Tail(Frame.todo), d, "body")
         /\ Frame.todo[1][1] \in UnitCalls
<1>1. UnitOK(program, Frame, phase)
  BY FrameFacts
<1>2. Legal("unit", program, Frame.todo, phase, "body") /\ IsSeq(Frame.todo)
  BY <1>1 DEF UnitOK, Legal
<1>3. Len(Frame.todo) # 0
  BY <1>2, EmptyFacts
<1>4. PICK d : Typed("unit", program, Frame.todo[1], phase, d) /\ Legal("unit", program, Tail(Frame.todo), d, "body")
  BY <1>2, <1>3, LegalTail
<1>5. UnitCall(program, Frame.todo[1], phase, d)
  BY <1>4 DEF Typed
<1>6. Frame.todo[1][1] \in UnitCalls
  BY <1>5 DEF UnitCall, UnitCalls
<1>7. QED BY <1>1, <1>4, <1>5, <1>6, ScriptHasNoReads DEF UnitOK

\* The frame of enter, after a call.
LEMMA RestUnit ==
  ASSUME IsFrame(Frame), Frame.node = program, NEW ph, Legal("unit", program, Tail(Frame.todo), ph, "body")
  PROVE  UnitOK(program, Rest, ph)
<1>1. Rest = [node |-> Frame.node, todo |-> Tail(Frame.todo), slots |-> Frame.slots, kept |-> Frame.kept]
  BY RestForms, Zenon DEF Made
<1> HIDE DEF Rest, Frame
<1>2. Rest.node = Frame.node /\ Rest.todo = Tail(Frame.todo) /\ IsFrame(Rest)
  BY <1>1, FrameFields
<1>3. QED BY <1>2 DEF UnitOK

\* A call that is none of enter's is due in a visit.
LEMMA DueInVisit ==
  ASSUME FramesInv, Frame.todo # <<>>, Frame.todo[1][1] \notin UnitCalls
  PROVE  Len(frames) > 1 /\ phase = "body"
<1>1. Len(frames) # 1
  BY UnitFacts
<1>2. QED BY <1>1, FrameFacts

\* And one that is none of a visit's in enter.
LEMMA DueInUnit ==
  ASSUME FramesInv, Frame.todo # <<>>, Frame.todo[1][1] \in UnitCalls \ {"push_env", "pop_env"}
  PROVE  Len(frames) = 1
<1>1. ASSUME Len(frames) > 1 PROVE FALSE
  <2>1. PICK c, s, l : TopState(c, s, l)
    BY <1>1, FrameFacts
  <2>2. PICK d : Typed("visit", Frame.node, Frame.todo[1], c, d)
    BY <2>1, CallFacts
  <2>3. QED BY <2>2 DEF Typed, NodeCall, ReadCalls, UnitCalls
<1>2. QED BY <1>1, FrameFacts
---------------------------------------------------------------------------
(* Calls that leave the builder alone.                                     *)

\* What is shown of every step.
Kept ==
  /\ [ProtocolNext]_protocolVars
  /\ FramesInv' /\ LoopsInv' /\ ListsInv' /\ program' \in Programs

SameLists == ListsInv /\ UNCHANGED <<params, incomplete>>

LEMMA ReadsOne ==
  ASSUME NEW x, x[1] \in ReadCalls
  PROVE  AllReads(<<x>>)
<1> DEFINE s == <<x>>
<1>1. IsSeq(s) /\ Len(s) = 1 /\ s[1] = x
  BY DEF IsSeq
<1>2. \A j \in 1..1 : j = 1
  OBVIOUS
<1> HIDE DEF s
<1>3. AllReads(s)
  BY <1>1, <1>2 DEF AllReads
<1>4. QED BY <1>3 DEF s

LEMMA ReadsTwo ==
  ASSUME NEW x, NEW y, x[1] \in ReadCalls, y[1] \in ReadCalls
  PROVE  AllReads(<<x, y>>)
<1> DEFINE s == <<x, y>>
<1>1. IsSeq(s) /\ Len(s) = 2 /\ s[1] = x /\ s[2] = y
  BY DEF IsSeq
<1>2. \A j \in 1..2 : j = 1 \/ j = 2
  OBVIOUS
<1> HIDE DEF s
<1>3. AllReads(s)
  BY <1>1, <1>2 DEF AllReads
<1>4. QED BY <1>3 DEF s

LEMMA ReadsMany ==
  ASSUME NEW n \in Nat, NEW s, s = [i \in 1..n |-> s[i]], \A i \in 1..n : s[i][1] \in ReadCalls
  PROVE  AllReads(s)
  BY FunctionIsSeq DEF AllReads

LEMMA ReadsThen ==
  ASSUME NEW s, AllReads(s), NEW t, AllReads(t)
  PROVE  AllReads(s \o t)
<1> DEFINE r == s \o t
<1>1. IsSeq(s) /\ IsSeq(t) /\ Len(s) \in Nat /\ Len(t) \in Nat
  BY SeqFacts DEF AllReads
<1>2. /\ IsSeq(r) /\ Len(r) = Len(s) + Len(t)
      /\ \A i \in 1..Len(s) : r[i] = s[i]
      /\ \A i \in 1..Len(t) : r[Len(s) + i] = t[i]
  BY <1>1, ConcatFacts
<1> HIDE DEF r
<1>3. ASSUME NEW j \in 1..Len(r) PROVE r[j][1] \in ReadCalls
  <2>1. CASE j <= Len(s)
    BY <1>1, <1>2, <2>1 DEF AllReads
  <2>2. CASE ~(j <= Len(s))
    <3>1. j - Len(s) \in 1..Len(t) /\ Len(s) + (j - Len(s)) = j
      BY <1>1, <1>2, <2>2
    <3>2. r[j] = t[j - Len(s)]
      BY <1>2, <3>1
    <3>3. QED BY <3>1, <3>2 DEF AllReads
  <2>3. QED BY <2>1, <2>2
<1>4. AllReads(r)
  BY <1>2, <1>3 DEF AllReads
<1>5. QED BY <1>4 DEF r

\* The frame that is due goes on.
LEMMA Advance ==
  ASSUME IsFrame(Frame)
  PROVE  /\ GoesOn(Rest)
         /\ \A v : GoesOn([Rest EXCEPT !.kept = v])
         /\ \A r : AllReads(r) => GoesOn([Rest EXCEPT !.todo = r \o @])
<1>1. ASSUME NEW todo, NEW k, todo = Tail(Frame.todo) \/ \E r : AllReads(r) /\ todo = r \o Tail(Frame.todo)
      PROVE  GoesOn(Made(todo, Frame.slots, k))
  <2> DEFINE f == [node |-> Frame.node, todo |-> todo, slots |-> Frame.slots, kept |-> k]
  <2>1. f.todo = todo /\ f.kept = k
    OBVIOUS
  <2>2. f = [node |-> Frame.node, todo |-> f.todo, slots |-> Frame.slots, kept |-> f.kept]
    BY <2>1
  <2> HIDE DEF f
  <2>3. GoesOn(f)
    BY <1>1, <2>1, <2>2 DEF GoesOn
  <2>4. QED BY <2>3 DEF f, Made
<1>2. GoesOn(Rest)
  <2>1. GoesOn(Made(Tail(Frame.todo), Frame.slots, Frame.kept))
    BY <1>1
  <2>2. QED BY <2>1, RestForms, Zenon
<1>3. ASSUME NEW v PROVE GoesOn([Rest EXCEPT !.kept = v])
  <2>1. GoesOn(Made(Tail(Frame.todo), Frame.slots, v))
    BY <1>1
  <2>2. QED BY <2>1, RestForms, Zenon
<1>4. ASSUME NEW r, AllReads(r) PROVE GoesOn([Rest EXCEPT !.todo = r \o @])
  <2>1. GoesOn(Made(r \o Tail(Frame.todo), Frame.slots, Frame.kept))
    BY <1>1, <1>4
  <2>2. QED BY <2>1, RestForms, Zenon
<1>5. QED BY <1>2, <1>3, <1>4

LEMMA FrameOfInv ==
  ASSUME FramesInv
  PROVE  IsFrame(Frame)
  BY FrameFacts DEF UnitOK, TopState, FrameOK

\* A call that goes on and touches neither builder, loops nor parameters.
LEMMA QuietStep ==
  ASSUME EmitterInv, Len(frames) > 1, Frame.todo # <<>>, Frame.todo[1][1] \in SameCalls,
         \E f : GoesOn(f) /\ frames' = Continued(f),
         UNCHANGED <<protocolVars, program, cfds, params>>, ListsInv'
  PROVE  Kept
<1>1. PICK f : GoesOn(f) /\ frames' = Continued(f)
  OBVIOUS
<1>2. UNCHANGED <<graph, proc, saves, phase, cfds, params, program>>
  BY DEF protocolVars, vars
<1>3. FramesInv'
  <2>1. WithParams' = WithParams
    BY <1>2 DEF WithParams
  <2>2. Len(saves') = Len(saves) /\ Len(cfds') = Len(cfds) /\ graph'[proc'] = graph[proc]
    BY <1>2
  <2>3. QED BY <1>1, <1>2, <2>1, <2>2, SameStep DEF EmitterInv
<1>4. LoopsInv'
  BY <1>2 DEF EmitterInv, LoopsInv
<1>5. QED BY <1>2, <1>3, <1>4 DEF Kept, EmitterInv

\* The simplest of them.
LEMMA PlainStep ==
  ASSUME EmitterInv, \E call \in SameCalls \ UnitCalls : Due(call),
         \E f : GoesOn(f) /\ frames' = Continued(f),
         UNCHANGED <<protocolVars, program, cfds, params, incomplete>>
  PROVE  Kept
<1>1. Frame.todo # <<>> /\ Frame.todo[1][1] \in SameCalls \ UnitCalls
  BY DEF Due
<1>2. Len(frames) > 1
  BY <1>1, DueInVisit DEF EmitterInv
<1>3. ListsInv'
  BY DEF EmitterInv, ListsInv
<1>4. QED BY <1>1, <1>2, <1>3, QuietStep

\* Calls whose effect lies in code, value or caches.
PlainAction ==
  \/ Keep \/ ReadHit \/ ReadSinglePred \/ ReadJoin \/ WriteFound \/ WritePlaceholder
  \/ Literal \/ CallFunction \/ LoadGlobal \/ ReadLocal \/ AnswerFound \/ StoreGlobal
  \/ AssignLocal \/ DeclareLocal \/ ReturnInst \/ BranchInst \/ AnswerArg

LEMMA PlainActionKept ==
  ASSUME EmitterInv, PlainAction
  PROVE  Kept
<1>1. IsFrame(Frame)
  BY FrameOfInv DEF EmitterInv
<1>2. UNCHANGED <<protocolVars, program, cfds, params, incomplete>>
  BY DEF PlainAction, Keep, ReadHit, ReadSinglePred, ReadJoin, WriteFound, WritePlaceholder,
         Literal, CallFunction, LoadGlobal, ReadLocal, AnswerFound, StoreGlobal, AssignLocal,
         DeclareLocal, ReturnInst, BranchInst, AnswerArg, Finding, Aside, SameCode, SameNames,
         codeVars2, ssaVars, Create, Written
<1>3. \E call \in SameCalls \ UnitCalls : Due(call)
  BY DEF PlainAction, Keep, ReadHit, ReadSinglePred, ReadJoin, WriteFound, WritePlaceholder,
         Literal, CallFunction, LoadGlobal, ReadLocal, AnswerFound, StoreGlobal, AssignLocal,
         DeclareLocal, ReturnInst, BranchInst, AnswerArg, Reading,
         SameCalls, UnitCalls, FreeCalls, ReadCalls, SlotCalls
<1>4. \/ Proceed
      \/ \E v : frames' = Continued([Rest EXCEPT !.kept = v])
      \/ \E r : AllReads(r) /\ ProceedWith(r)
  <2>1. CASE Keep
    BY <2>1 DEF Keep
  <2>2. CASE ReadSinglePred
    <3>1. PICK c : ProceedWith(<<<<"read", ReadName, c[1]>>, <<"write_found", ReadName>>>>)
      BY <2>2 DEF ReadSinglePred
    <3>2. AllReads(<<<<"read", ReadName, c[1]>>, <<"write_found", ReadName>>>>)
      BY ReadsTwo DEF ReadCalls
    <3>3. QED BY <3>1, <3>2
  <2>3. CASE ReadJoin
    <3>1. AllReads(<<<<"addArg", ReadName, NewValue, ReadBlock>>, <<"write", ReadName, NewValue>>>>)
      BY ReadsTwo DEF ReadCalls
    <3>2. QED BY <2>3, <3>1 DEF ReadJoin
  <2>4. CASE ReadLocal
    <3>1. AllReads(<<<<"read", Frame.node.name, current_block>>, <<"answer_found">>>>)
      BY ReadsTwo DEF ReadCalls
    <3>2. QED BY <2>4, <3>1 DEF ReadLocal
  <2>5. CASE ~(Keep \/ ReadSinglePred \/ ReadJoin \/ ReadLocal)
    BY <2>5 DEF PlainAction, ReadHit, WriteFound, WritePlaceholder, Literal, CallFunction, LoadGlobal,
       AnswerFound, StoreGlobal, AssignLocal, DeclareLocal, ReturnInst, BranchInst, AnswerArg, Create, Written
  <2>6. QED BY <2>1, <2>2, <2>3, <2>4, <2>5
<1>5. \E f : GoesOn(f) /\ frames' = Continued(f)
  BY <1>1, <1>4, Advance, Zenon DEF Proceed, ProceedWith
<1>6. QED BY <1>2, <1>3, <1>5, PlainStep
\* While a body is emitted, what is current lies in its graph.
LEMMA BodyFacts ==
  ASSUME EmitterInv, phase = "body"
  PROVE  /\ proc \in Proc /\ graph[proc] \subseteq Block /\ graph[proc] \subseteq Live
         /\ current_block \in graph[proc] /\ current_block \in Block
  BY DEF EmitterInv, ProtocolInv, ProtocolTypeOK, TypeOK, Discipline, Live

\* Calls about a block the visit has made find it.
LEMMA SlotFacts ==
  ASSUME EmitterInv, Frame.todo # <<>>,
         Frame.todo[1][1] \in SlotCalls \cup {"save_and_entry", "add_arg", "answer_arg"}
  PROVE  /\ Slot(What) \in graph[proc] /\ phase = "body" /\ Len(frames) > 1
         /\ Frame.todo[1][1] = "answer_arg" => Slot(What) \in WithParams
<1>1. Len(frames) > 1 /\ phase = "body"
  BY DueInVisit DEF EmitterInv, SlotCalls, UnitCalls
<1>2. PICK c, s, l : TopState(c, s, l)
  BY <1>1, FrameFacts DEF EmitterInv
<1>3. PICK d : Typed("visit", Frame.node, Frame.todo[1], c, d)
  BY <1>2, CallFacts
<1>4. Frame.todo[1][2] \in c.slots \/ (Frame.todo[1][1] = "answer_arg" /\ Frame.todo[1][2] \in c.args)
  BY <1>3 DEF Typed, NodeCall, SlotCalls, ReadCalls
<1>5. SlotsOK(Frame.slots, c, graph[proc], WithParams)
  BY <1>2 DEF TopState, FrameOK
<1>6. Frame.todo[1][1] = "answer_arg" => Frame.todo[1][2] \in c.args
  BY <1>3 DEF Typed, NodeCall, SlotCalls, ReadCalls
<1>7. QED BY <1>1, <1>4, <1>5, <1>6 DEF SlotsOK, Slot, What

\* Reading in a block that is not complete.
LEMMA ReadUnsealedKept ==
  ASSUME EmitterInv, ReadUnsealed
  PROVE  Kept
<1>1. /\ Due("read") /\ Proceed
      /\ incomplete' = [incomplete EXCEPT ![ReadBlock] = Append(@, <<ReadName, NewValue>>)]
      /\ UNCHANGED <<protocolVars, program, cfds, params>>
  BY DEF ReadUnsealed, Reading, Finding, Aside
<1>2. Frame.todo # <<>> /\ Frame.todo[1][1] \in SameCalls /\ Frame.todo[1][1] \notin UnitCalls
  BY <1>1 DEF Due, SameCalls, ReadCalls, UnitCalls
<1>3. Len(frames) > 1
  BY <1>2, DueInVisit DEF EmitterInv
<1>4. ListsInv'
  <2>1. ListsInv
    BY DEF EmitterInv
  <2>2. ASSUME NEW b \in Block PROVE IsSeq(incomplete'[b])
    <3>1. CASE b = ReadBlock
      <4>1. incomplete'[b] = Append(incomplete[b], <<ReadName, NewValue>>)
        BY <1>1, <2>1, <3>1 DEF ListsInv
      <4>2. IsSeq(incomplete[b])
        BY <2>1 DEF ListsInv
      <4>3. QED BY <4>1, <4>2, AppendFacts
    <3>2. CASE b # ReadBlock
      BY <1>1, <2>1, <3>2 DEF ListsInv
    <3>3. QED BY <3>1, <3>2
  <2>3. DOMAIN incomplete' = Block
    BY <1>1, <2>1 DEF ListsInv
  <2>4. QED BY <1>1, <2>1, <2>2, <2>3 DEF ListsInv
<1>5. \E f : GoesOn(f) /\ frames' = Continued(f)
  BY <1>1, Advance, FrameOfInv DEF EmitterInv, Proceed
<1>6. QED BY <1>1, <1>2, <1>3, <1>4, <1>5, QuietStep

\* A block is marked as complete.
LEMMA SealedKept ==
  ASSUME EmitterInv, Sealed
  PROVE  Kept
<1>1. /\ Due("sealed") /\ Proceed
      /\ incomplete' = [incomplete EXCEPT ![What] = <<>>]
      /\ UNCHANGED <<protocolVars, program, cfds, params>>
  BY DEF Sealed, Finding, Aside
<1>2. Frame.todo # <<>> /\ Frame.todo[1][1] \in SameCalls /\ Frame.todo[1][1] \notin UnitCalls
  BY <1>1 DEF Due, SameCalls, ReadCalls, UnitCalls
<1>3. Len(frames) > 1
  BY <1>2, DueInVisit DEF EmitterInv
<1>4. ListsInv'
  BY <1>1, EmptyFacts DEF EmitterInv, ListsInv
<1>5. \E f : GoesOn(f) /\ frames' = Continued(f)
  BY <1>1, Advance, FrameOfInv DEF EmitterInv, Proceed
<1>6. QED BY <1>1, <1>2, <1>3, <1>4, <1>5, QuietStep

\* A block is to be completed.
LEMMA SealReads ==
  ASSUME ListsInv, NEW b \in Block
  PROVE  AllReads([i \in DOMAIN incomplete[b] |-> <<"addArg", incomplete[b][i][1], incomplete[b][i][2], b>>]
                  \o <<<<"sealed", b>>>>)
<1> DEFINE r == [i \in DOMAIN incomplete[b] |-> <<"addArg", incomplete[b][i][1], incomplete[b][i][2], b>>]
           t == <<<<"sealed", b>>>>
<1>1. Len(incomplete[b]) \in Nat /\ DOMAIN incomplete[b] = 1..Len(incomplete[b])
  BY SeqFacts DEF ListsInv
<1>2. /\ r = [i \in 1..Len(incomplete[b]) |-> r[i]]
      /\ \A i \in 1..Len(incomplete[b]) : r[i][1] = "addArg"
  BY <1>1
<1> HIDE DEF r
<1>3. AllReads(r)
  BY <1>1, <1>2, ReadsMany DEF ReadCalls
<1>4. AllReads(t)
  BY ReadsOne DEF ReadCalls
<1> HIDE DEF t
<1>5. AllReads(r \o t)
  BY <1>3, <1>4, ReadsThen
<1>6. QED BY <1>5 DEF r, t

LEMMA SealKept ==
  ASSUME EmitterInv, Seal \/ SealCurrent
  PROVE  Kept
<1>1. PICK b \in Block : SealBlock(b)
  <2>1. CASE Seal
    <3>1. Slot(What) \in graph[proc] /\ phase = "body"
      BY <2>1, SlotFacts DEF Seal, Due, SlotCalls
    <3>2. QED BY <2>1, <3>1, BodyFacts DEF Seal
  <2>2. CASE SealCurrent
    <3>1. phase = "body"
      BY <2>2, DueInVisit DEF SealCurrent, Due, EmitterInv, UnitCalls
    <3>2. QED BY <2>2, <3>1, BodyFacts DEF SealCurrent
  <2>3. QED BY <2>1, <2>2
<1>2. \E call \in SameCalls \ UnitCalls : Due(call)
  BY DEF Seal, SealCurrent, SameCalls, UnitCalls, FreeCalls, SlotCalls
<1>3. UNCHANGED <<protocolVars, program, cfds, params, incomplete>>
  BY <1>1 DEF SealBlock, Finding, Aside, ssaVars
<1>4. \E r : AllReads(r) /\ ProceedWith(r)
  BY <1>1, SealReads DEF SealBlock, EmitterInv
<1>5. \E f : GoesOn(f) /\ frames' = Continued(f)
  BY <1>4, Advance, FrameOfInv, Zenon DEF ProceedWith, EmitterInv
<1>6. QED BY <1>2, <1>3, <1>5, PlainStep

\* A block gets one more parameter.
LEMMA ParamsGrow ==
  ASSUME ListsInv, NEW b, NEW r, params' = [params EXCEPT ![b] = Append(@, r)], incomplete' = incomplete
  PROVE  /\ ListsInv' /\ WithParams \subseteq WithParams'
         /\ b \in Block => b \in WithParams'
<1>1. ASSUME NEW c \in Block
      PROVE  /\ IsSeq(params'[c]) /\ (params[c] # <<>> => params'[c] # <<>>)
             /\ c = b => params'[c] # <<>>
  <2>1. CASE c = b
    <3>1. params'[c] = Append(params[c], r)
      BY <2>1 DEF ListsInv
    <3>2. IsSeq(params[c])
      BY DEF ListsInv
    <3>3. IsSeq(params'[c]) /\ Len(params'[c]) = Len(params[c]) + 1 /\ Len(params[c]) \in Nat
      BY <3>1, <3>2, AppendFacts, SeqFacts
    <3>4. Len(params'[c]) # 0
      BY <3>3
    <3>5. QED BY <3>3, <3>4, EmptyFacts
  <2>2. CASE c # b
    BY <2>2 DEF ListsInv
  <2>3. QED BY <2>1, <2>2
<1>2. DOMAIN params' = Block
  BY DEF ListsInv
<1>3. QED BY <1>1, <1>2 DEF ListsInv, WithParams

\* A block gets a parameter, and its predecessors are asked for operands.
LEMMA AddBlockArgKept ==
  ASSUME EmitterInv, AddBlockArg
  PROVE  Kept
<1> DEFINE x == Frame.todo[1][2]
           b == Frame.todo[1][4]
           S == PrevBlocks(b)
           reads(order) == [i \in DOMAIN order |-> <<"read", x, order[i][1]>>]
<1>1. PICK order \in SetToSeqs(S) : ProceedWith(reads(order))
  BY DEF AddBlockArg
<1>2. /\ Due("addArg")
      /\ params' = [params EXCEPT ![b] = Append(@, Frame.todo[1][3])]
      /\ UNCHANGED <<protocolVars, program, cfds, incomplete>>
  BY DEF AddBlockArg, Finding, Aside, ssaVars
<1>3. Cardinality(S) \in Nat
  <2>1. IsFiniteSet(Block \X {1, 2})
    <3>1. IsFiniteSet({1, 2})
      BY FS_Interval, FS_Subset
    <3>2. QED BY <3>1, FS_Product, EmitterAssumption
  <2>2. S \subseteq Block \X {1, 2}
    BY DEF PrevBlocks
  <2>3. QED BY <2>1, <2>2, FS_Subset, FS_CardinalityType
<1> HIDE DEF S
<1>4. AllReads(reads(order))
  <2>1. DOMAIN order = 1..Cardinality(S)
    BY <1>1 DEF SetToSeqs
  <2>2. /\ reads(order) = [i \in 1..Cardinality(S) |-> reads(order)[i]]
        /\ \A i \in 1..Cardinality(S) : reads(order)[i][1] = "read"
    BY <2>1
  <2> HIDE DEF reads
  <2>3. QED BY <1>3, <2>2, ReadsMany DEF ReadCalls
<1>5. \E f : GoesOn(f) /\ frames' = Continued(f)
  <2> HIDE DEF reads
  <2>1. QED BY <1>1, <1>4, Advance, FrameOfInv, Zenon DEF ProceedWith, EmitterInv
<1>6. ListsInv' /\ WithParams \subseteq WithParams'
  BY <1>2, ParamsGrow DEF EmitterInv
<1>7. Frame.todo # <<>> /\ Frame.todo[1][1] \in SameCalls /\ Frame.todo[1][1] \notin UnitCalls
  BY <1>2 DEF Due, SameCalls, ReadCalls, UnitCalls
<1>8. UNCHANGED <<graph, proc, saves, phase, cfds, program>>
  BY <1>2 DEF protocolVars, vars
<1>9. FramesInv'
  <2>1. Len(saves') = Len(saves) /\ Len(cfds') = Len(cfds) /\ graph[proc] \subseteq graph'[proc']
    BY <1>8
  <2>2. Len(frames) > 1
    BY <1>7, DueInVisit DEF EmitterInv
  <2>3. QED BY <1>5, <1>6, <1>7, <1>8, <2>1, <2>2, SameStep DEF EmitterInv
<1>10. LoopsInv'
  BY <1>8 DEF EmitterInv, LoopsInv
<1>11. QED BY <1>2, <1>6, <1>8, <1>9, <1>10 DEF Kept, EmitterInv

\* The compiler gives up.
LEMMA ReadNowhereKept ==
  ASSUME EmitterInv, ReadNowhere
  PROVE  Kept
<1>1. UNCHANGED <<protocolVars, frames, program, cfds, params, incomplete>>
  BY DEF ReadNowhere, Finding, Aside
<1>2. UNCHANGED <<graph, proc, saves, phase>>
  BY <1>1 DEF protocolVars, vars
<1>3. FramesInv'
  BY <1>1, <1>2 DEF EmitterInv, FramesInv, WithParams
<1>4. LoopsInv' /\ ListsInv'
  BY <1>1, <1>2 DEF EmitterInv, LoopsInv, ListsInv
<1>5. QED BY <1>1, <1>3, <1>4 DEF Kept, EmitterInv

\* Names come and go, in a block's visit or around a function.
LEMMA EnvKept ==
  ASSUME EmitterInv, PushEnv \/ PopEnv
  PROVE  Kept
<1>1. /\ Due("push_env") \/ Due("pop_env")
      /\ Proceed
      /\ UNCHANGED <<protocolVars, program, cfds, params, incomplete>>
  BY DEF PushEnv, PopEnv, Aside, SameCode, codeVars2, ssaVars
<1>2. Frame.todo # <<>> /\ Frame.todo[1][1] \in {"push_env", "pop_env"}
  BY <1>1 DEF Due
<1>3. ListsInv'
  BY <1>1 DEF EmitterInv, ListsInv
<1>4. CASE Len(frames) > 1
  <2>1. \E f : GoesOn(f) /\ frames' = Continued(f)
    BY <1>1, Advance, FrameOfInv DEF EmitterInv, Proceed
  <2>2. Frame.todo[1][1] \in SameCalls
    BY <1>2 DEF SameCalls, FreeCalls
  <2>3. QED BY <1>1, <1>2, <1>3, <1>4, <2>1, <2>2, QuietStep
<1>5. CASE Len(frames) = 1
  <2>1. PICK d : UnitCall(program, Frame.todo[1], phase, d) /\ Legal("unit", program, Tail(Frame.todo), d, "body")
    BY <1>2, <1>5, UnitFacts DEF EmitterInv
  <2>2. d = phase
    BY <1>2, <2>1 DEF UnitCall
  <2>3. UNCHANGED <<graph, proc, saves, phase>>
    BY <1>1 DEF protocolVars, vars
  <2>4. IsFrame(Frame) /\ Frame.node = program
    BY <1>2, <1>5, UnitFacts DEF EmitterInv
  <2>5. UnitOK(program, Rest, phase')
    BY <2>1, <2>2, <2>3, <2>4, RestUnit
  <2>6. FramesInv'
    BY <1>1, <1>5, <2>3, <2>5, UnitGoesOn DEF EmitterInv, Proceed
  <2>7. LoopsInv'
    BY <1>1, <2>3 DEF EmitterInv, LoopsInv
  <2>8. QED BY <1>1, <1>3, <2>6, <2>7 DEF Kept, EmitterInv
<1>6. QED BY <1>4, <1>5, FrameFacts DEF EmitterInv
---------------------------------------------------------------------------
(* Calls of the builder.                                                   *)

\* Calls that link the current block or move to another one.
LEMMA GraphStep ==
  ASSUME EmitterInv, \E call \in SameCalls \ UnitCalls : Due(call), Proceed,
         UNCHANGED <<phase, saves, program, cfds, params, incomplete>>, proc' = proc, graph' = graph,
         ProtocolNext
  PROVE  Kept
<1>1. Frame.todo # <<>> /\ Frame.todo[1][1] \in SameCalls /\ Len(frames) > 1
  BY DueInVisit DEF Due, EmitterInv
<1>2. GoesOn(Rest) /\ frames' = Continued(Rest)
  BY Advance, FrameOfInv DEF EmitterInv, Proceed
<1>3. WithParams' = WithParams
  BY DEF WithParams
<1>4. FramesInv'
  <2>1. Len(saves') = Len(saves) /\ Len(cfds') = Len(cfds) /\ graph'[proc'] = graph[proc]
    OBVIOUS
  <2>2. QED BY <1>1, <1>2, <1>3, <2>1, SameStep DEF EmitterInv
<1>5. LoopsInv' /\ ListsInv'
  BY DEF EmitterInv, LoopsInv, ListsInv
<1>6. QED BY <1>4, <1>5 DEF Kept, EmitterInv

\* break and continue have a loop to leave or to go on with.
LEMMA JumpOutFacts ==
  ASSUME EmitterInv, Due("jp_loop")
  PROVE  phase = "body" /\ cfds[Len(cfds)][What] \in graph[proc]
<1>1. Frame.todo # <<>> /\ Frame.todo[1][1] = "jp_loop"
  BY DEF Due
<1>2. Len(frames) > 1 /\ phase = "body"
  BY <1>1, DueInVisit DEF EmitterInv, UnitCalls
<1>3. PICK c, s, l : TopState(c, s, l)
  BY <1>2, FrameFacts DEF EmitterInv
<1>4. PICK d : Typed("visit", Frame.node, Frame.todo[1], c, d)
  BY <1>1, <1>3, CallFacts
<1>5. Frame.node.kind \in {"Break", "Continue"} /\ Frame.todo[1][2] \in {"cond", "cont"}
  BY <1>1, <1>4 DEF Typed, NodeCall, ReadCalls
<1>6. PICK loop : <<Frame.node, loop>> \in Nodes /\ (loop => l > 0)
  BY <1>3 DEF TopState, FrameOK
<1>7. loop
  BY <1>5, <1>6, ProgramsAssumption DEF WellFormed
<1>8. Len(cfds) > 0
  BY <1>3, <1>6, <1>7 DEF TopState, Looped
<1>9. Len(cfds) \in Nat
  BY SeqFacts DEF EmitterInv, LoopsInv
<1>10. Len(cfds) \in 1..Len(cfds)
  BY <1>8, <1>9
<1>11. QED BY <1>2, <1>5, <1>10 DEF EmitterInv, LoopsInv, What

LinkAction == JumpTo \/ JumpWith \/ JumpOut \/ SetNext \/ SetElse \/ EntryBlock

LEMMA LinkActionKept ==
  ASSUME EmitterInv, LinkAction
  PROVE  Kept
<1>1. PICK call \in SameCalls \ UnitCalls :
        /\ Due(call)
        /\ call # "jp_loop" => call \in SlotCalls
        /\ call = "jp_loop" => JumpOut
        /\ call # "jp_loop" => JumpTo \/ JumpWith \/ SetNext \/ SetElse \/ EntryBlock
  <2> DEFINE Linked == JumpTo \/ JumpWith \/ SetNext \/ SetElse \/ EntryBlock
  <2>1. CASE JumpOut
    <3>1. Due("jp_loop")
      BY <2>1 DEF JumpOut
    <3>2. QED BY <2>1, <3>1 DEF SameCalls, UnitCalls
  <2>2. CASE Linked
    <3>1. \E call \in SlotCalls \ {"seal"} : Due(call)
      BY <2>2 DEF JumpTo, JumpWith, SetNext, SetElse, EntryBlock, SlotCalls
    <3> HIDE DEF Linked
    <3>2. PICK call \in SlotCalls \ {"seal"} : Due(call)
      BY <3>1
    <3>3. call \in SameCalls \ UnitCalls /\ call # "jp_loop"
      BY DEF SameCalls, UnitCalls, SlotCalls
    <3>4. QED BY <2>2, <3>2, <3>3 DEF Linked
  <2>3. QED BY <2>1, <2>2 DEF LinkAction
<1>2. PICK t \in graph[proc] : setNext(t) \/ setElse(t) \/ entry_block(t)
  <2>1. CASE call = "jp_loop"
    <3>1. cfds[Len(cfds)][What] \in graph[proc]
      BY <1>1, <2>1, JumpOutFacts
    <3>2. QED BY <1>1, <2>1, <3>1 DEF JumpOut, Jump
  <2>2. CASE call # "jp_loop"
    <3>1. Slot(What) \in graph[proc]
      BY <1>1, <2>2, SlotFacts DEF Due
    <3>2. QED BY <1>1, <2>2, <3>1 DEF JumpTo, JumpWith, Jump, SetNext, SetElse, EntryBlock
  <2>3. QED BY <2>1, <2>2
<1>3. phase = "body"
  BY <1>1, DueInVisit DEF Due, EmitterInv
<1>4. Proceed /\ UNCHANGED <<phase, saves, program, cfds, params, incomplete>>
  BY DEF LinkAction, JumpTo, JumpWith, JumpOut, Jump, SetNext, SetElse, EntryBlock, Building,
         SameCode, SameNames, codeVars2, ssaVars
<1>5. proc' = proc /\ graph' = graph
  BY <1>2 DEF setNext, setElse, entry_block, codeVars, graphVars
<1>6. ProtocolNext
  <2>1. t \in Block
    BY <1>3, BodyFacts
  <2>2. Draw(t) \/ Move(t)
    BY <1>2, <1>3, <1>4 DEF Draw, Move
  <2>3. QED BY <2>1, <2>2 DEF ProtocolNext
<1>7. QED BY <1>1, <1>4, <1>5, <1>6, GraphStep

\* A call of a visit that changes its context.
LEMMA ContextStep ==
  ASSUME FramesInv, Len(frames) > 1, Frame.todo # <<>>, Frame.todo[1][1] \notin ReadCalls,
         NEW slots, frames' = Continued(Made(Tail(Frame.todo), slots, Frame.kept)), UNCHANGED <<program, phase>>,
         graph[proc] \subseteq graph'[proc'], WithParams \subseteq WithParams',
         \A c, s, l, d : TopState(c, s, l) /\ NodeCall(Frame.node, Frame.todo[1], c, d) =>
           /\ SlotsOK(slots, d, graph'[proc'], WithParams')
           /\ Len(saves') = s + Opened(d) /\ Len(cfds') = l + Looped(d)
  PROVE  FramesInv'
<1> DEFINE f == Made(Tail(Frame.todo), slots, Frame.kept)
<1>1. IsFrame(Frame)
  BY FrameOfInv
<1>2. f.node = Frame.node /\ f.todo = Tail(Frame.todo) /\ f.slots = slots /\ IsFrame(f)
  BY FrameFields DEF Made
<1> HIDE DEF f
<1>3. ASSUME NEW c, NEW s, NEW l, TopState(c, s, l)
      PROVE  \E d : /\ FrameOK(f, d, l, graph'[proc'], WithParams')
                    /\ Len(saves') = s + Opened(d) /\ Len(cfds') = l + Looped(d)
  <2>1. PICK d, e : /\ Typed("visit", Frame.node, Frame.todo[1], c, d)
                    /\ ~e.open /\ ~e.loop /\ Legal("visit", Frame.node, Tail(Frame.todo), d, e)
    BY <1>3, CallFacts
  <2>2. NodeCall(Frame.node, Frame.todo[1], c, d)
    BY <2>1 DEF Typed
  <2>3. /\ SlotsOK(slots, d, graph'[proc'], WithParams')
        /\ Len(saves') = s + Opened(d) /\ Len(cfds') = l + Looped(d)
    BY <1>3, <2>2
  <2>4. \E loop : <<f.node, loop>> \in Nodes /\ (loop => l > 0)
    BY <1>2, <1>3 DEF TopState, FrameOK
  <2>5. QED BY <1>2, <2>1, <2>3, <2>4 DEF FrameOK
<1>4. ReadsFirst(f.todo)
  BY <1>2, FrameFacts, CallFacts
<1>5. frames' = Continued(f)
  BY DEF f
<1>6. QED BY <1>3, <1>4, <1>5, VisitGoesOn

\* The slots stay what they were while graph and parameters grow.
LEMMA SlotsGrow ==
  ASSUME NEW slots, NEW c, NEW d, NEW G, NEW A, NEW H, NEW B, SlotsOK(slots, c, G, A),
         G \subseteq H, A \subseteq B, d.slots = c.slots, d.args = c.args
  PROVE  SlotsOK(slots, d, H, B)
  BY DEF SlotsOK

\* Loops are noted and forgotten.
LEMMA LoopActionKept ==
  ASSUME EmitterInv, PushCFD \/ PopCFD
  PROVE  Kept
<1>1. /\ Frame.todo # <<>> /\ Frame.todo[1][1] \in {"push_cfd", "pop_cfd"}
      /\ Frame.todo[1][1] = "push_cfd" => PushCFD
      /\ Frame.todo[1][1] = "pop_cfd" => PopCFD
  BY DEF PushCFD, PopCFD, Due
<1>2. Len(frames) > 1 /\ phase = "body" /\ Frame.todo[1][1] \notin ReadCalls
  BY <1>1, DueInVisit DEF EmitterInv, UnitCalls, ReadCalls
<1>3. Proceed /\ UNCHANGED <<protocolVars, program, params, incomplete>>
  BY DEF PushCFD, PopCFD, Aside, SameCode, SameNames, codeVars2, ssaVars
<1>4. UNCHANGED <<graph, proc, saves, phase>>
  BY <1>3 DEF protocolVars, vars
<1>5. frames' = Continued(Made(Tail(Frame.todo), Frame.slots, Frame.kept))
  BY <1>3, RestForms, FrameOfInv, Zenon DEF Proceed, EmitterInv
<1>6. IsSeq(cfds) /\ Len(cfds) \in Nat /\ WithParams' = WithParams
  BY <1>3, SeqFacts DEF EmitterInv, LoopsInv, WithParams
<1>7. ASSUME NEW c, NEW s, NEW l, NEW d, TopState(c, s, l), NodeCall(Frame.node, Frame.todo[1], c, d)
      PROVE  /\ d.slots = c.slots /\ d.args = c.args /\ d.open = c.open /\ s \in Nat /\ l \in Nat
             /\ SlotsOK(Frame.slots, c, graph[proc], WithParams)
             /\ Frame.todo[1][1] = "push_cfd" => d.loop /\ ~c.loop /\ {"cond", "cont"} \subseteq c.slots
             /\ Frame.todo[1][1] = "pop_cfd" => ~d.loop /\ c.loop
             /\ Len(saves) = s + Opened(c) /\ Len(cfds) = l + Looped(c)
  <2> DEFINE call == Frame.todo[1]
  <2>3. call[1] \in {"push_cfd", "pop_cfd"} /\ NodeCall(Frame.node, call, c, d)
    BY <1>1, <1>7
  <2> HIDE DEF call
  <2>4. \/ /\ call[1] = "push_cfd" /\ {"cond", "cont"} \subseteq c.slots /\ ~c.loop
           /\ d = Ctx(c.slots, c.args, c.open, TRUE)
        \/ call[1] = "pop_cfd" /\ c.loop /\ d = Ctx(c.slots, c.args, c.open, FALSE)
    BY <2>3, Zenon DEF NodeCall
  <2>1. \/ /\ Frame.todo[1][1] = "push_cfd" /\ {"cond", "cont"} \subseteq c.slots /\ ~c.loop
           /\ d = Ctx(c.slots, c.args, c.open, TRUE)
        \/ Frame.todo[1][1] = "pop_cfd" /\ c.loop /\ d = Ctx(c.slots, c.args, c.open, FALSE)
    BY <2>4 DEF call
  <2>5. /\ s \in Nat /\ l \in Nat /\ SlotsOK(Frame.slots, c, graph[proc], WithParams)
        /\ Len(saves) = s + Opened(c) /\ Len(cfds) = l + Looped(c)
    BY <1>7 DEF TopState, FrameOK
  <2>6. CASE /\ Frame.todo[1][1] = "push_cfd" /\ {"cond", "cont"} \subseteq c.slots /\ ~c.loop
             /\ d = Ctx(c.slots, c.args, c.open, TRUE)
    <3>1. d.slots = c.slots /\ d.args = c.args /\ d.open = c.open /\ d.loop
      BY <2>6 DEF Ctx
    <3>2. QED BY <2>5, <2>6, <3>1
  <2>7. CASE Frame.todo[1][1] = "pop_cfd" /\ c.loop /\ d = Ctx(c.slots, c.args, c.open, FALSE)
    <3>1. d.slots = c.slots /\ d.args = c.args /\ d.open = c.open /\ ~d.loop
      BY <2>7 DEF Ctx
    <3>2. QED BY <2>5, <2>7, <3>1
  <2>8. QED BY <2>1, <2>6, <2>7
<1>8. PICK c, s, l : TopState(c, s, l)
  BY <1>2, FrameFacts DEF EmitterInv
<1>9. \E d : NodeCall(Frame.node, Frame.todo[1], c, d)
  BY <1>1, <1>2, <1>8, CallFacts DEF Typed
<1>10. CASE PushCFD /\ Frame.todo[1][1] = "push_cfd"
  <2> DEFINE x == [cond |-> Slot("cond"), cont |-> Slot("cont")]
  <2>1. cfds' = Append(cfds, x)
    BY <1>10 DEF PushCFD
  <2>2. \A y \in {"cond", "cont"} : x[y] \in graph[proc]
    <3>1. Slot("cond") \in graph[proc] /\ Slot("cont") \in graph[proc]
      BY <1>7, <1>8, <1>9, <1>10 DEF SlotsOK, Slot
    <3>2. QED BY <3>1
  <2> HIDE DEF x
  <2>3. /\ IsSeq(cfds') /\ Len(cfds') = Len(cfds) + 1 /\ cfds'[Len(cfds) + 1] = x
        /\ \A i \in 1..Len(cfds) : cfds'[i] = cfds[i]
    BY <1>6, <2>1, AppendFacts
  <2>4. LoopsInv'
    <3>1. \A i \in 1..(Len(cfds) + 1) : i = Len(cfds) + 1 \/ i \in 1..Len(cfds)
      BY <1>6
    <3>2. QED BY <1>4, <2>2, <2>3, <3>1 DEF EmitterInv, LoopsInv
  <2>5. FramesInv'
    <3>1. ASSUME NEW cc, NEW s1, NEW l1, NEW d, TopState(cc, s1, l1), NodeCall(Frame.node, Frame.todo[1], cc, d)
          PROVE  /\ SlotsOK(Frame.slots, d, graph'[proc'], WithParams')
                 /\ Len(saves') = s1 + Opened(d) /\ Len(cfds') = l1 + Looped(d)
      BY <1>4, <1>6, <1>7, <1>10, <2>3, <3>1, SlotsGrow DEF Opened, Looped
    <3>2. QED BY <1>1, <1>2, <1>3, <1>4, <1>5, <1>6, <3>1, ContextStep DEF EmitterInv
  <2>6. QED BY <1>3, <2>4, <2>5 DEF Kept, EmitterInv, ListsInv
<1>11. CASE PopCFD /\ Frame.todo[1][1] = "pop_cfd"
  <2>1. cfds' = SubSeq(cfds, 1, Len(cfds) - 1)
    BY <1>11 DEF PopCFD
  <2>2. Len(cfds) # 0
    BY <1>7, <1>8, <1>9, <1>11 DEF Looped
  <2>3. /\ IsSeq(cfds') /\ Len(cfds') = Len(cfds) - 1
        /\ \A i \in 1..(Len(cfds) - 1) : cfds'[i] = cfds[i]
    BY <1>6, <2>1, <2>2, FrontFacts
  <2>4. LoopsInv'
    <3>1. \A i \in 1..(Len(cfds) - 1) : i \in 1..Len(cfds)
      BY <1>6
    <3>2. QED BY <1>4, <2>3, <3>1 DEF EmitterInv, LoopsInv
  <2>5. FramesInv'
    <3>1. ASSUME NEW cc, NEW s1, NEW l1, NEW d, TopState(cc, s1, l1), NodeCall(Frame.node, Frame.todo[1], cc, d)
          PROVE  /\ SlotsOK(Frame.slots, d, graph'[proc'], WithParams')
                 /\ Len(saves') = s1 + Opened(d) /\ Len(cfds') = l1 + Looped(d)
      BY <1>4, <1>6, <1>7, <1>11, <2>3, <3>1, SlotsGrow DEF Opened, Looped
    <3>2. QED BY <1>1, <1>2, <1>3, <1>4, <1>5, <1>6, <3>1, ContextStep DEF EmitterInv
  <2>6. QED BY <1>3, <2>4, <2>5 DEF Kept, EmitterInv, ListsInv
<1>12. QED BY <1>1, <1>10, <1>11
\* The current block is saved, and what was saved is current again.
LEMMA SaveKept ==
  ASSUME EmitterInv, SaveAndEntry
  PROVE  Kept
<1>1. /\ Frame.todo # <<>> /\ Frame.todo[1][1] = "save_and_entry"
      /\ save_and_entry(Slot(What)) /\ saves' = Append(saves, current_block)
      /\ Proceed /\ UNCHANGED <<program, cfds, phase, params, incomplete>>
  BY DEF SaveAndEntry, Due, Building, SameCode, SameNames, codeVars2, ssaVars
<1>2. Slot(What) \in graph[proc] /\ phase = "body" /\ Len(frames) > 1
  BY <1>1, SlotFacts
<1>3. UNCHANGED <<graph, proc>>
  BY <1>1 DEF save_and_entry, codeVars, graphVars
<1>4. WithParams' = WithParams
  BY <1>1 DEF WithParams
<1>5. Len(saves') = Len(saves) + 1 /\ Len(saves) \in Nat
  BY <1>1, <1>2, BodyFacts DEF EmitterInv, ProtocolInv, ProtocolTypeOK
<1>6. FramesInv'
  <2>1. frames' = Continued(Made(Tail(Frame.todo), Frame.slots, Frame.kept))
    BY <1>1, RestForms, FrameOfInv, Zenon DEF Proceed, EmitterInv
  <2>2. ASSUME NEW c, NEW s, NEW l, NEW d, TopState(c, s, l), NodeCall(Frame.node, Frame.todo[1], c, d)
        PROVE  /\ SlotsOK(Frame.slots, d, graph'[proc'], WithParams')
               /\ Len(saves') = s + Opened(d) /\ Len(cfds') = l + Looped(d)
    <3>1. ~c.open /\ d = Ctx(c.slots, c.args, TRUE, c.loop)
      <4>1. NodeCall(Frame.node, Frame.todo[1], c, d) /\ Frame.todo[1][1] = "save_and_entry"
        BY <1>1, <2>2
      <4>2. QED BY <4>1, Zenon DEF NodeCall
    <3>2. d.slots = c.slots /\ d.args = c.args /\ d.open = TRUE /\ d.loop = c.loop
      BY <3>1 DEF Ctx
    <3>3. /\ s \in Nat /\ l \in Nat /\ SlotsOK(Frame.slots, c, graph[proc], WithParams)
          /\ Len(saves) = s + Opened(c) /\ Len(cfds) = l + Looped(c)
      BY <2>2 DEF TopState, FrameOK
    <3>4. SlotsOK(Frame.slots, d, graph'[proc'], WithParams')
      BY <1>3, <1>4, <3>2, <3>3 DEF SlotsOK
    <3>5. Opened(c) = 0 /\ Opened(d) = 1 /\ Looped(d) = Looped(c)
      BY <3>1, <3>2 DEF Opened, Looped
    <3>6. QED BY <1>1, <1>5, <3>3, <3>4, <3>5
  <2>3. QED BY <1>1, <1>2, <1>3, <1>4, <2>1, <2>2, ContextStep DEF EmitterInv, ReadCalls
<1>7. LoopsInv' /\ ListsInv'
  BY <1>1, <1>3 DEF EmitterInv, LoopsInv, ListsInv
<1>8. ProtocolNext
  BY <1>1, <1>2 DEF ProtocolNext, Save
<1>9. QED BY <1>1, <1>6, <1>7, <1>8 DEF Kept, EmitterInv

LEMMA RestoreKept ==
  ASSUME EmitterInv, PopBlock
  PROVE  Kept
<1>1. /\ Frame.todo # <<>> /\ Frame.todo[1][1] = "pop_block"
      /\ pop_block /\ saves' = SubSeq(saves, 1, Len(saves) - 1)
      /\ Proceed /\ UNCHANGED <<program, cfds, phase, params, incomplete>>
  BY DEF PopBlock, Due, Building, SameCode, SameNames, codeVars2, ssaVars
<1>2. phase = "body" /\ Len(frames) > 1
  BY <1>1, DueInVisit DEF EmitterInv, UnitCalls
<1>3. UNCHANGED <<graph, proc>>
  BY <1>1 DEF pop_block, codeVars, graphVars
<1>4. WithParams' = WithParams
  BY <1>1 DEF WithParams
<1>5. saves \in Seq(Block) /\ Len(saves) \in Nat
  BY DEF EmitterInv, ProtocolInv, ProtocolTypeOK
<1>6. ASSUME NEW c, NEW s, NEW l, NEW d, TopState(c, s, l), NodeCall(Frame.node, Frame.todo[1], c, d)
      PROVE  /\ SlotsOK(Frame.slots, d, graph'[proc'], WithParams')
             /\ Len(saves) # 0
             /\ Len(saves') = s + Opened(d) /\ Len(cfds') = l + Looped(d)
  <2>1. c.open /\ d = Ctx(c.slots, c.args, FALSE, c.loop)
    <3>1. NodeCall(Frame.node, Frame.todo[1], c, d) /\ Frame.todo[1][1] = "pop_block"
      BY <1>1, <1>6
    <3>2. QED BY <3>1, Zenon DEF NodeCall
  <2>2. d.slots = c.slots /\ d.args = c.args /\ d.open = FALSE /\ d.loop = c.loop
    BY <2>1 DEF Ctx
  <2>3. /\ s \in Nat /\ l \in Nat /\ SlotsOK(Frame.slots, c, graph[proc], WithParams)
        /\ Len(saves) = s + Opened(c) /\ Len(cfds) = l + Looped(c)
    BY <1>6 DEF TopState, FrameOK
  <2>4. SlotsOK(Frame.slots, d, graph'[proc'], WithParams')
    BY <1>3, <1>4, <2>2, <2>3 DEF SlotsOK
  <2>5. Opened(c) = 1 /\ Opened(d) = 0 /\ Looped(d) = Looped(c)
    BY <2>1, <2>2 DEF Opened, Looped
  <2>6. Len(saves') = Len(saves) - 1
    <3>1. Len(saves) # 0
      BY <2>3, <2>5
    <3>2. QED BY <1>1, <1>5, <3>1, TypedIsSeq, FrontFacts
  <2>7. QED BY <1>1, <2>3, <2>4, <2>5, <2>6
<1>7. FramesInv'
  <2>1. frames' = Continued(Made(Tail(Frame.todo), Frame.slots, Frame.kept))
    BY <1>1, RestForms, FrameOfInv, Zenon DEF Proceed, EmitterInv
  <2>2. QED BY <1>1, <1>2, <1>3, <1>4, <1>6, <2>1, ContextStep DEF EmitterInv, ReadCalls
<1>8. saves # <<>>
  <2>1. PICK c, s, l : TopState(c, s, l)
    BY <1>2, FrameFacts DEF EmitterInv
  <2>2. PICK d : Typed("visit", Frame.node, Frame.todo[1], c, d)
    BY <1>1, <2>1, CallFacts
  <2>3. NodeCall(Frame.node, Frame.todo[1], c, d)
    BY <1>1, <2>2 DEF Typed, ReadCalls
  <2>4. QED BY <1>6, <2>1, <2>3, EmptyFacts
<1>9. LoopsInv' /\ ListsInv'
  BY <1>1, <1>3 DEF EmitterInv, LoopsInv, ListsInv
<1>10. ProtocolNext
  BY <1>1, <1>2, <1>8 DEF ProtocolNext, Restore
<1>11. QED BY <1>1, <1>7, <1>9, <1>10 DEF Kept, EmitterInv

\* A block is made.
LEMMA NewBlockKept ==
  ASSUME EmitterInv, NewBasicBlock
  PROVE  Kept
<1>1. /\ Frame.todo # <<>> /\ Frame.todo[1][1] = "newBasicBlock"
      /\ newBasicBlock(Address)
      /\ frames' = Continued([Rest EXCEPT !.slots = Put(@, What, Address)])
      /\ UNCHANGED <<program, cfds, phase, saves, params, incomplete>>
  BY DEF NewBasicBlock, Due, SameCode, SameNames, codeVars2, ssaVars
<1>2. phase = "body" /\ Len(frames) > 1
  BY <1>1, DueInVisit DEF EmitterInv, UnitCalls
<1>3. proc' = proc /\ Add(Address) /\ Address \in Block
  BY <1>1 DEF newBasicBlock, codeVars, Add, Unused
<1>4. graph'[proc'] = graph[proc] \cup {Address}
  BY <1>2, <1>3, BodyFacts, AddGraph DEF EmitterInv, ProtocolInv, ProtocolTypeOK
<1>5. WithParams' = WithParams
  BY <1>1 DEF WithParams
<1> DEFINE slots == Put(Frame.slots, What, Address)
<1>6. ASSUME NEW c, NEW s, NEW l, NEW d, TopState(c, s, l), NodeCall(Frame.node, Frame.todo[1], c, d)
      PROVE  /\ SlotsOK(slots, d, graph'[proc'], WithParams')
             /\ Len(saves') = s + Opened(d) /\ Len(cfds') = l + Looped(d)
  <2>1. What \notin c.slots /\ d = Ctx(c.slots \cup {What}, c.args, c.open, c.loop)
    <3>1. NodeCall(Frame.node, Frame.todo[1], c, d) /\ Frame.todo[1][1] = "newBasicBlock"
      BY <1>1, <1>6
    <3>2. QED BY <3>1, Zenon DEF NodeCall, What
  <2>2. d.slots = c.slots \cup {What} /\ d.args = c.args /\ d.open = c.open /\ d.loop = c.loop
    BY <2>1 DEF Ctx
  <2>3. /\ SlotsOK(Frame.slots, c, graph[proc], WithParams)
        /\ Len(saves) = s + Opened(c) /\ Len(cfds) = l + Looped(c)
    BY <1>6 DEF TopState, FrameOK
  <2>4. SlotsOK(slots, d, graph'[proc'], WithParams')
    <3>1. DOMAIN slots = d.slots
      BY <2>2, <2>3 DEF SlotsOK, Put
    <3>2. slots[What] = Address /\ \A x \in c.slots : slots[x] = Frame.slots[x]
      BY <2>1, <2>3 DEF SlotsOK, Put
    <3> HIDE DEF slots
    <3>3. QED BY <1>4, <1>5, <2>2, <2>3, <3>1, <3>2 DEF SlotsOK
  <2>5. QED BY <1>1, <2>2, <2>3, <2>4 DEF Opened, Looped
<1>7. FramesInv'
  <2>1. frames' = Continued(Made(Tail(Frame.todo), slots, Frame.kept))
    BY <1>1, RestForms, FrameOfInv, Zenon DEF EmitterInv
  <2> HIDE DEF slots
  <2>2. QED BY <1>1, <1>2, <1>4, <1>5, <1>6, <2>1, ContextStep DEF EmitterInv, ReadCalls
<1>8. LoopsInv' /\ ListsInv'
  BY <1>1, <1>4 DEF EmitterInv, LoopsInv, ListsInv
<1>9. ProtocolNext
  BY <1>1, <1>2, <1>3 DEF ProtocolNext, Draw
<1>10. QED BY <1>1, <1>7, <1>8, <1>9 DEF Kept, EmitterInv

\* The block that And and Or end in gets its parameter.
LEMMA AddArgKept ==
  ASSUME EmitterInv, AddArg
  PROVE  Kept
<1>1. /\ Frame.todo # <<>> /\ Frame.todo[1][1] = "add_arg"
      /\ params' = [params EXCEPT ![Slot(What)] = Append(@, NewValue)]
      /\ Proceed /\ UNCHANGED <<protocolVars, program, cfds, incomplete>>
  BY DEF AddArg, Parameter, Due, Aside, SameNames, ssaVars
<1>2. Slot(What) \in graph[proc] /\ phase = "body" /\ Len(frames) > 1
  BY <1>1, SlotFacts
<1>3. UNCHANGED <<graph, proc, saves, phase>>
  BY <1>1 DEF protocolVars, vars
<1>4. ListsInv' /\ WithParams \subseteq WithParams' /\ Slot(What) \in WithParams'
  <2>1. Slot(What) \in Block
    BY <1>2, BodyFacts
  <2>2. QED BY <1>1, <2>1, ParamsGrow DEF EmitterInv
<1>5. FramesInv'
  <2>1. frames' = Continued(Made(Tail(Frame.todo), Frame.slots, Frame.kept))
    BY <1>1, RestForms, FrameOfInv, Zenon DEF Proceed, EmitterInv
  <2>2. ASSUME NEW c, NEW s, NEW l, NEW d, TopState(c, s, l), NodeCall(Frame.node, Frame.todo[1], c, d)
        PROVE  /\ SlotsOK(Frame.slots, d, graph'[proc'], WithParams')
               /\ Len(saves') = s + Opened(d) /\ Len(cfds') = l + Looped(d)
    <3>1. What \in c.slots /\ d = Ctx(c.slots, c.args \cup {What}, c.open, c.loop)
      <4>1. NodeCall(Frame.node, Frame.todo[1], c, d) /\ Frame.todo[1][1] = "add_arg"
        BY <1>1, <2>2
      <4>2. QED BY <4>1, Zenon DEF NodeCall, What
    <3>2. d.slots = c.slots /\ d.args = c.args \cup {What} /\ d.open = c.open /\ d.loop = c.loop
      BY <3>1 DEF Ctx
    <3>3. /\ SlotsOK(Frame.slots, c, graph[proc], WithParams)
          /\ Len(saves) = s + Opened(c) /\ Len(cfds) = l + Looped(c)
      BY <2>2 DEF TopState, FrameOK
    <3>4. SlotsOK(Frame.slots, d, graph'[proc'], WithParams')
      BY <1>3, <1>4, <3>1, <3>2, <3>3 DEF SlotsOK, Slot
    <3>5. QED BY <1>1, <1>3, <3>2, <3>3, <3>4 DEF Opened, Looped
  <2>3. QED BY <1>1, <1>2, <1>3, <1>4, <2>1, <2>2, ContextStep DEF EmitterInv, ReadCalls
<1>6. LoopsInv'
  BY <1>1, <1>3 DEF EmitterInv, LoopsInv
<1>7. QED BY <1>1, <1>4, <1>5, <1>6 DEF Kept, EmitterInv

---------------------------------------------------------------------------
(* Visits begin, end and choose what to do.                                *)

\* A visit that begins with l loops around it.
LEMMA NewFrameOK ==
  ASSUME NEW n, NEW loop, <<n, loop>> \in Nodes, NEW l, loop => l > 0, NEW G, NEW A
  PROVE  FrameOK(NewFrame(n), Blank, l, G, A) /\ ReadsFirst(NewFrame(n).todo)
<1> DEFINE f == NewFrame(n)
<1>1. f = [node |-> n, todo |-> Script(n), slots |-> NoSlots, kept |-> NoArg]
  BY DEF NewFrame
<1> HIDE DEF f
<1>2. f.node = n /\ f.todo = Script(n) /\ f.slots = NoSlots /\ IsFrame(f)
  BY <1>1, FrameFields
<1>3. PICK e : ~e.open /\ ~e.loop /\ Legal("script", n, Script(n), Blank, e)
  BY ScriptLegal DEF IsNode
<1>4. Legal("visit", n, Script(n), Blank, e) /\ NoReads(Script(n))
  BY <1>3, ScriptHasNoReads
<1>5. SlotsOK(NoSlots, Blank, G, A)
  BY DEF SlotsOK, NoSlots, Blank, Ctx
<1>6. FrameOK(f, Blank, l, G, A)
  BY <1>2, <1>3, <1>4, <1>5 DEF FrameOK
<1>7. ReadsFirst(f.todo)
  BY <1>2, <1>4 DEF ReadsFirst, NoReads
<1>8. QED BY <1>6, <1>7 DEF f

\* A part of the node is visited.
LEMMA VisitKept ==
  ASSUME EmitterInv, Visit
  PROVE  Kept
<1>1. /\ Frame.todo # <<>> /\ Frame.todo[1][1] = "visit" /\ What = Frame.todo[1][2]
      /\ frames' = Append(Continued(Rest), NewFrame(Frame.node.kids[What]))
      /\ UNCHANGED <<protocolVars, program, cfds, params, incomplete>>
  BY DEF Visit, Due, What, Aside, SameCode, SameNames, codeVars2, ssaVars
<1>2. phase = "body" /\ Len(frames) > 1
  BY <1>1, DueInVisit DEF EmitterInv, UnitCalls
<1>3. UNCHANGED <<graph, proc, saves, phase>>
  BY <1>1 DEF protocolVars, vars
<1>4. PICK c, s, l : TopState(c, s, l)
  BY <1>2, FrameFacts DEF EmitterInv
<1>5. NoReads(Tail(Frame.todo))
  BY <1>1, <1>4, CallFacts DEF ReadCalls
<1>6. What \in DOMAIN Frame.node.kids /\ (Frame.node.kind = "While" /\ What = 2 => c.loop)
  <2>1. PICK d : Typed("visit", Frame.node, Frame.todo[1], c, d)
    BY <1>1, <1>4, CallFacts
  <2>2. NodeCall(Frame.node, Frame.todo[1], c, d) /\ Frame.todo[1][1] = "visit"
    BY <1>1, <2>1 DEF Typed, ReadCalls
  <2>3. QED BY <1>1, <2>2, Zenon DEF NodeCall
<1>7. PICK loop : <<Frame.node, loop>> \in Nodes /\ (loop => l > 0)
  BY <1>4 DEF TopState, FrameOK
<1> DEFINE deeper == loop \/ (Frame.node.kind = "While" /\ What = 2)
<1>8. <<Frame.node.kids[What], deeper>> \in Nodes
  BY <1>6, <1>7, ProgramsAssumption DEF WellFormed
<1>9. deeper => Len(cfds) > 0
  BY <1>4, <1>6, <1>7 DEF TopState, Looped
<1> HIDE DEF deeper
<1>10. /\ FrameOK(NewFrame(Frame.node.kids[What]), Blank, Len(cfds), graph[proc], WithParams)
       /\ ReadsFirst(NewFrame(Frame.node.kids[What]).todo)
  BY <1>8, <1>9, NewFrameOK
<1>11. GoesOn(Rest) /\ Rest.todo = Tail(Frame.todo)
  <2>1. IsFrame(Frame)
    BY FrameOfInv DEF EmitterInv
  <2>2. Rest = [node |-> Frame.node, todo |-> Tail(Frame.todo), slots |-> Frame.slots, kept |-> Frame.kept]
    BY <2>1, RestForms, Zenon DEF Made
  <2> HIDE DEF Rest, Frame
  <2>3. Rest.todo = Tail(Frame.todo)
    BY <2>2
  <2>4. QED BY <2>1, <2>3, Advance
<1>12. \A x, y, z : TopState(x, y, z) => FrameOK(Rest, x, z, graph[proc], WithParams)
  BY <1>1, <1>11, SameFrame DEF SameCalls
<1>13. NoReads(Rest.todo)
  BY <1>5, <1>11
<1>14. FramesInv'
  <2> HIDE DEF Rest
  <2>1. QED BY <1>1, <1>2, <1>3, <1>10, <1>12, <1>13, VisitStarts DEF EmitterInv
<1>15. LoopsInv' /\ ListsInv'
  BY <1>1, <1>3 DEF EmitterInv, LoopsInv, ListsInv
<1>16. QED BY <1>1, <1>14, <1>15 DEF Kept, EmitterInv

\* The body of a function is visited.
LEMMA VisitBodyKept ==
  ASSUME EmitterInv, VisitBody
  PROVE  Kept
<1> DEFINE body == IF What = "main" THEN program.main ELSE program.funcs[What].body
<1>1. /\ Frame.todo # <<>> /\ Frame.todo[1][1] = "body" /\ What = Frame.todo[1][2]
      /\ frames' = Append(Continued(Rest), NewFrame(body))
      /\ UNCHANGED <<protocolVars, program, cfds, params, incomplete>>
  BY DEF VisitBody, Due, What, Aside, SameCode, SameNames, codeVars2, ssaVars
<1>2. Len(frames) = 1
  BY <1>1, DueInUnit DEF EmitterInv, UnitCalls
<1>3. UNCHANGED <<graph, proc, saves, phase>>
  BY <1>1 DEF protocolVars, vars
<1>4. PICK d : UnitCall(program, Frame.todo[1], phase, d) /\ Legal("unit", program, Tail(Frame.todo), d, "body")
  BY <1>1, <1>2, UnitFacts DEF EmitterInv
<1>5. IsFunction(program, What) /\ phase = "body" /\ d = "body"
  BY <1>1, <1>4 DEF UnitCall
<1>6. <<body, FALSE>> \in Nodes
  BY <1>5, ProgramsAssumption DEF IsFunction, BodiesAmong, EmitterInv
<1>7. /\ FrameOK(NewFrame(body), Blank, Len(cfds), graph[proc], WithParams)
      /\ ReadsFirst(NewFrame(body).todo)
  BY <1>6, NewFrameOK
<1>8. IsFrame(Frame) /\ Frame.node = program /\ NoReads(Tail(Frame.todo))
  BY <1>1, <1>2, UnitFacts DEF EmitterInv
<1>9. UnitOK(program, Rest, phase)
  BY <1>4, <1>5, <1>8, RestUnit
<1>10. NoReads(Rest.todo)
  BY <1>9, ScriptHasNoReads DEF UnitOK
<1>11. FramesInv'
  <2> HIDE DEF Rest, body
  <2>1. QED BY <1>1, <1>2, <1>3, <1>5, <1>7, <1>9, <1>10, VisitStarts DEF EmitterInv
<1>12. LoopsInv' /\ ListsInv'
  BY <1>1, <1>3 DEF EmitterInv, LoopsInv, ListsInv
<1>13. QED BY <1>1, <1>11, <1>12 DEF Kept, EmitterInv

\* A visit ends.
LEMMA ReturnKept ==
  ASSUME EmitterInv, Return
  PROVE  Kept
<1>1. /\ Len(frames) > 1 /\ Frame.todo = <<>> /\ frames' = SubSeq(frames, 1, Len(frames) - 1)
      /\ UNCHANGED <<protocolVars, program, cfds, params, incomplete>>
  BY DEF Return, Aside, SameCode, SameNames, codeVars2, ssaVars
<1>2. UNCHANGED <<graph, proc, saves, phase>>
  BY <1>1 DEF protocolVars, vars
<1>3. FramesInv'
  BY <1>1, <1>2, VisitReturns DEF EmitterInv
<1>4. LoopsInv' /\ ListsInv'
  BY <1>1, <1>2 DEF EmitterInv, LoopsInv, ListsInv
<1>5. QED BY <1>1, <1>3, <1>4 DEF Kept, EmitterInv

\* The calls of a visit are others from now on.
LEMMA NewCallsKept ==
  ASSUME EmitterInv, Frame.todo # <<>>, Frame.todo[1][1] \notin UnitCalls,
         NEW todo, NEW kept, frames' = Continued(Made(todo, Frame.slots, kept)), ReadsFirst(todo),
         UNCHANGED <<protocolVars, program, cfds, params, incomplete>>,
         \A c, s, l : TopState(c, s, l) =>
           \E e : ~e.open /\ ~e.loop /\ Legal("visit", Frame.node, todo, c, e)
  PROVE  Kept
<1> DEFINE f == Made(todo, Frame.slots, kept)
<1>1. Len(frames) > 1
  BY DueInVisit DEF EmitterInv
<1>2. UNCHANGED <<graph, proc, saves, phase>>
  BY DEF protocolVars, vars
<1>3. f = [node |-> Frame.node, todo |-> todo, slots |-> Frame.slots, kept |-> kept]
  BY DEF Made
<1>4. frames' = Continued(f)
  OBVIOUS
<1> HIDE DEF f
<1>5. f.node = Frame.node /\ f.todo = todo /\ f.slots = Frame.slots /\ IsFrame(f)
  BY <1>3, FrameFields
<1>6. WithParams' = WithParams
  BY DEF WithParams
<1>7. ASSUME NEW c, NEW s, NEW l, TopState(c, s, l)
      PROVE  \E d : /\ FrameOK(f, d, l, graph'[proc'], WithParams')
                    /\ Len(saves') = s + Opened(d) /\ Len(cfds') = l + Looped(d)
  <2>1. \E e : ~e.open /\ ~e.loop /\ Legal("visit", f.node, f.todo, c, e)
    BY <1>5, <1>7
  <2>2. /\ \E loop : <<f.node, loop>> \in Nodes /\ (loop => l > 0)
        /\ SlotsOK(f.slots, c, graph'[proc'], WithParams')
        /\ Len(saves') = s + Opened(c) /\ Len(cfds') = l + Looped(c)
    BY <1>2, <1>5, <1>6, <1>7 DEF TopState, FrameOK
  <2>3. FrameOK(f, c, l, graph'[proc'], WithParams')
    BY <1>5, <2>1, <2>2 DEF FrameOK
  <2>4. QED BY <2>2, <2>3
<1>8. FramesInv'
  BY <1>1, <1>2, <1>4, <1>5, <1>6, <1>7, VisitGoesOn DEF EmitterInv
<1>9. LoopsInv' /\ ListsInv'
  BY <1>2 DEF EmitterInv, LoopsInv, ListsInv
<1>10. QED BY <1>8, <1>9 DEF Kept, EmitterInv

\* A block goes on to its next statement, or leaves.
LEMMA StopIfTermKept ==
  ASSUME EmitterInv, StopIfTerm
  PROVE  Kept
<1> DEFINE last == Frame.todo[Len(Frame.todo)]
           todo == IF isTerm THEN <<last>> ELSE Tail(Frame.todo)
<1>1. /\ Frame.todo # <<>> /\ Frame.todo[1][1] = "stop_if_term"
      /\ UNCHANGED <<protocolVars, program, cfds, params, incomplete>>
  BY DEF StopIfTerm, Due, Aside, SameCode, SameNames, codeVars2, ssaVars
<1>2. frames' = Continued(Made(todo, Frame.slots, Frame.kept))
  <2>1. frames' = Continued([Frame EXCEPT !.todo = todo])
    BY DEF StopIfTerm
  <2> HIDE DEF todo
  <2>2. QED BY <2>1, RestForms, FrameOfInv, Zenon DEF EmitterInv
<1>3. ASSUME NEW c, NEW s, NEW l, TopState(c, s, l)
      PROVE  /\ ReadsFirst(todo)
             /\ \E e : ~e.open /\ ~e.loop /\ Legal("visit", Frame.node, todo, c, e)
  <2>1. PICK e : ~e.open /\ ~e.loop /\ Legal("visit", Frame.node, Frame.todo, c, e)
    BY <1>3 DEF TopState, FrameOK
  <2>2. Len(Frame.todo) # 0 /\ IsSeq(Frame.todo)
    BY <1>1, <1>3, CallFacts
  <2>3. PICK d : Typed("visit", Frame.node, Frame.todo[1], c, d) /\ Legal("visit", Frame.node, Tail(Frame.todo), d, e)
    BY <2>1, <2>2, LegalTail
  <2>4. Frame.node.kind = "Block" /\ c = Blank /\ d = Blank
    <3>1. NodeCall(Frame.node, Frame.todo[1], c, d) /\ BlockCall(Frame.node, Frame.todo[1], c, d)
      BY <1>1, <2>3 DEF Typed, ReadCalls
    <3>2. Frame.node.kind = "Block"
      BY <1>1, <3>1, Zenon DEF NodeCall
    <3>3. QED BY <3>1, <3>2 DEF BlockCall
  <2>5. CASE ~isTerm
    <3>1. ReadsFirst(Tail(Frame.todo))
      BY <1>1, <1>3, CallFacts
    <3>2. QED BY <2>1, <2>3, <2>4, <2>5, <3>1
  <2>6. CASE isTerm
    <3> DEFINE m == Len(Frame.todo)
    <3>1. m \in Nat /\ m \in 1..m
      BY <2>2, SeqFacts
    <3>2. PICK tr : tr[m] = e /\ Typed("visit", Frame.node, last, tr[m - 1], tr[m])
      BY <2>1, <3>1 DEF Legal
    <3>3. last[1] \notin ReadCalls
      <4>1. NoReads(Frame.todo)
        BY <1>1, <1>3, <2>2, ReadsTail DEF TopState, ReadCalls
      <4>2. QED BY <3>1, <4>1 DEF NoReads
    <3>4. tr[m - 1] = Blank
      BY <2>4, <3>2, <3>3 DEF Typed, BlockCall
    <3>5. Legal("visit", Frame.node, <<last>>, c, e)
      BY <2>4, <3>2, <3>4, LegalOne
    <3>6. ReadsFirst(<<last>>)
      <4> DEFINE t == <<last>>
      <4>1. Len(t) = 1 /\ t[1] = last
        OBVIOUS
      <4>2. \A j \in 1..1 : j = 1
        OBVIOUS
      <4> HIDE DEF t
      <4>3. ReadsFirst(t)
        BY <4>1, <4>2 DEF ReadsFirst
      <4>4. QED BY <4>3 DEF t
    <3>7. QED BY <2>1, <2>6, <3>5, <3>6
  <2>7. QED BY <2>5, <2>6
<1>4. Frame.todo[1][1] \notin UnitCalls
  BY <1>1 DEF UnitCalls
<1>5. \E c, s, l : TopState(c, s, l)
  BY <1>1, <1>4, DueInVisit, FrameFacts DEF EmitterInv
<1> HIDE DEF todo
<1>6. QED BY <1>1, <1>2, <1>3, <1>4, <1>5, NewCallsKept

\* And, Or and If go on with what their condition asks for.
LEMMA DecideKept ==
  ASSUME EmitterInv, Decide
  PROVE  Kept
<1>1. /\ Frame.todo # <<>> /\ Frame.todo[1][1] = "decide"
      /\ UNCHANGED <<protocolVars, program, cfds, params, incomplete>>
  BY DEF Decide, Due, Aside, SameCode, SameNames, codeVars2, ssaVars
<1>2. PICK todo, kept : /\ frames' = Continued(Made(todo, Frame.slots, kept))
                        /\ todo = Lowered(Frame.node) \/ \E v : todo = Folded(Frame.node, v)
  <2>0. IsFrame(Frame)
    BY FrameOfInv DEF EmitterInv
  <2>1. CASE isIm(value)
    <3>1. frames' = Continued([Frame EXCEPT !.todo = Folded(Frame.node, value.im)])
      BY <2>1 DEF Decide
    <3>2. [Frame EXCEPT !.todo = Folded(Frame.node, value.im)]
            = Made(Folded(Frame.node, value.im), Frame.slots, Frame.kept)
      BY <2>0, RestForms, Zenon
    <3>3. QED BY <3>1, <3>2
  <2>2. CASE ~isIm(value)
    <3>1. frames' = Continued([Frame EXCEPT !.todo = Lowered(Frame.node), !.kept = value])
      BY <2>2 DEF Decide
    <3>2. [Frame EXCEPT !.todo = Lowered(Frame.node), !.kept = value]
            = Made(Lowered(Frame.node), Frame.slots, value)
      BY <2>0, RestForms, Zenon
    <3>3. QED BY <3>1, <3>2
  <2>3. QED BY <2>1, <2>2
<1>3. ASSUME NEW c, NEW s, NEW l, TopState(c, s, l)
      PROVE  /\ ReadsFirst(todo)
             /\ \E e : ~e.open /\ ~e.loop /\ Legal("visit", Frame.node, todo, c, e)
  <2>1. PICK d : Typed("visit", Frame.node, Frame.todo[1], c, d)
    BY <1>1, <1>3, CallFacts
  <2>2. Frame.node.kind \in {"And", "Or", "If"} /\ c = Blank
    <3>1. NodeCall(Frame.node, Frame.todo[1], c, d)
      BY <1>1, <2>1 DEF Typed, ReadCalls
    <3>2. QED BY <1>1, <3>1, Zenon DEF NodeCall
  <2>3. IsNode(Frame.node)
    BY <1>3 DEF TopState, FrameOK, IsNode
  <2>4. PICK e : ~e.open /\ ~e.loop /\ Legal("script", Frame.node, todo, Blank, e)
    BY <1>2, <2>2, <2>3, DecisionLegal
  <2>5. Legal("visit", Frame.node, todo, c, e) /\ NoReads(todo)
    BY <2>2, <2>4, ScriptHasNoReads
  <2>6. ReadsFirst(todo)
    BY <2>5 DEF ReadsFirst, NoReads
  <2>7. QED BY <2>4, <2>5, <2>6
<1>4. Frame.todo[1][1] \notin UnitCalls
  BY <1>1 DEF UnitCalls
<1>5. \E c, s, l : TopState(c, s, l)
  BY <1>1, <1>4, DueInVisit, FrameFacts DEF EmitterInv
<1>6. QED BY <1>1, <1>2, <1>3, <1>4, <1>5, NewCallsKept

---------------------------------------------------------------------------
(* Calls of enter.                                                         *)

LEMMA UnitStep ==
  ASSUME EmitterInv, Frame.todo # <<>>, Len(frames) = 1, Proceed,
         UNCHANGED <<program, cfds, saves, params, incomplete>>,
         \A d : UnitCall(program, Frame.todo[1], phase, d) => d = phase'
  PROVE  /\ FramesInv' /\ LoopsInv' /\ ListsInv' /\ program' \in Programs
         /\ saves = <<>> /\ UnitCall(program, Frame.todo[1], phase, phase')
<1>1. PICK d : UnitCall(program, Frame.todo[1], phase, d) /\ Legal("unit", program, Tail(Frame.todo), d, "body")
  BY UnitFacts DEF EmitterInv
<1>2. d = phase' /\ IsFrame(Frame) /\ Frame.node = program
  BY <1>1, UnitFacts DEF EmitterInv
<1>3. UnitOK(program, Rest, phase')
  BY <1>1, <1>2, RestUnit
<1>4. FramesInv' /\ Len(saves) = 0 /\ Len(cfds) = 0
  <2> HIDE DEF Rest
  <2>1. Len(saves') = Len(saves)
    OBVIOUS
  <2>2. QED BY <1>3, <2>1, UnitGoesOn DEF EmitterInv, Proceed
<1>5. saves = <<>>
  BY <1>4, EmptySeq DEF EmitterInv, ProtocolInv, ProtocolTypeOK
<1>6. LoopsInv'
  <2>1. IsSeq(cfds') /\ Len(cfds') = 0
    BY <1>4 DEF EmitterInv, LoopsInv
  <2>2. \A i \in 1..0 : FALSE
    OBVIOUS
  <2>3. QED BY <2>1, <2>2 DEF LoopsInv
<1>7. ListsInv' /\ program' \in Programs
  BY DEF EmitterInv, ListsInv
<1>8. QED BY <1>1, <1>2, <1>4, <1>5, <1>6, <1>7

LEMMA SetupKept ==
  ASSUME EmitterInv, SetupCode
  PROVE  Kept
<1>1. /\ Frame.todo # <<>> /\ Frame.todo[1][1] = "setup_code" /\ setup_code /\ phase' = "outside" /\ Proceed
      /\ UNCHANGED <<program, cfds, saves, params, incomplete>>
  BY DEF SetupCode, Due, SameCode, SameNames, codeVars2, ssaVars
<1>2. Len(frames) = 1
  BY <1>1, DueInUnit DEF EmitterInv, UnitCalls
<1>3. \A d : UnitCall(program, Frame.todo[1], phase, d) => d = phase' /\ phase = "no code"
  BY <1>1 DEF UnitCall
<1>4. /\ FramesInv' /\ LoopsInv' /\ ListsInv' /\ program' \in Programs
      /\ saves = <<>> /\ UnitCall(program, Frame.todo[1], phase, phase')
  BY <1>1, <1>2, <1>3, UnitStep
<1>5. ProtocolNext
  BY <1>1, <1>3, <1>4 DEF ProtocolNext, StartCode, Settled
<1>6. QED BY <1>4, <1>5 DEF Kept

LEMMA FunctionKept ==
  ASSUME EmitterInv, EntryFunction
  PROVE  Kept
<1>1. /\ Frame.todo # <<>> /\ Frame.todo[1][1] = "entry_function" /\ What = Frame.todo[1][2]
      /\ entry_function(What) /\ phase' = "entered" /\ Proceed
      /\ UNCHANGED <<program, cfds, saves, params, incomplete>>
  BY DEF EntryFunction, Due, What, SameCode, SameNames, codeVars2, ssaVars
<1>2. Len(frames) = 1
  BY <1>1, DueInUnit DEF EmitterInv, UnitCalls
<1>3. \A d : UnitCall(program, Frame.todo[1], phase, d) =>
               d = phase' /\ phase \in {"outside", "body"} /\ IsFunction(program, What)
  BY <1>1 DEF UnitCall
<1>4. /\ FramesInv' /\ LoopsInv' /\ ListsInv' /\ program' \in Programs
      /\ saves = <<>> /\ UnitCall(program, Frame.todo[1], phase, phase')
  BY <1>1, <1>2, <1>3, UnitStep
<1>5. What \in Proc
  <2>1. IsFunction(program, What) /\ program \in Programs
    BY <1>3, <1>4 DEF EmitterInv
  <2>2. program.order \in Seq(Proc)
    BY <2>1, ProgramsAssumption DEF BodiesAmong
  <2>3. QED BY <2>1, <2>2, ProgramsAssumption DEF IsFunction
<1>6. ProtocolNext
  BY <1>1, <1>3, <1>4, <1>5 DEF ProtocolNext, EnterFunction, Settled
<1>7. QED BY <1>4, <1>6 DEF Kept

LEMMA FirstBlockKept ==
  ASSUME EmitterInv, FirstBlock
  PROVE  Kept
<1>1. /\ Frame.todo # <<>> /\ Frame.todo[1][1] = "first_block"
      /\ entry_new_block(Address) /\ phase' = "body" /\ Proceed
      /\ UNCHANGED <<program, cfds, saves, params, incomplete>>
  BY DEF FirstBlock, Due, SameCode, SameNames, codeVars2, ssaVars
<1>2. Len(frames) = 1
  BY <1>1, DueInUnit DEF EmitterInv, UnitCalls
<1>3. \A d : UnitCall(program, Frame.todo[1], phase, d) => d = phase' /\ phase = "entered"
  BY <1>1 DEF UnitCall
<1>4. /\ FramesInv' /\ LoopsInv' /\ ListsInv' /\ program' \in Programs
      /\ saves = <<>> /\ UnitCall(program, Frame.todo[1], phase, phase')
  BY <1>1, <1>2, <1>3, UnitStep
<1>5. Address \in Block
  BY <1>1 DEF entry_new_block, Add, Unused
<1>6. ProtocolNext
  BY <1>1, <1>3, <1>4, <1>5 DEF ProtocolNext, OpenBody
<1>7. QED BY <1>4, <1>6 DEF Kept

LEMMA FunctionParamKept ==
  ASSUME EmitterInv, FunctionParam
  PROVE  Kept
<1>1. /\ Frame.todo # <<>> /\ Frame.todo[1][1] = "param" /\ Proceed
      /\ UNCHANGED <<protocolVars, program, cfds, params, incomplete>>
  BY DEF FunctionParam, Due, Aside, SameNames, ssaVars
<1>2. Len(frames) = 1
  BY <1>1, DueInUnit DEF EmitterInv, UnitCalls
<1>3. UNCHANGED <<phase, saves>>
  BY <1>1 DEF protocolVars
<1>4. \A d : UnitCall(program, Frame.todo[1], phase, d) => d = phase'
  BY <1>1, <1>3 DEF UnitCall
<1>5. FramesInv' /\ LoopsInv' /\ ListsInv' /\ program' \in Programs
  BY <1>1, <1>2, <1>3, <1>4, UnitStep
<1>6. QED BY <1>1, <1>5 DEF Kept

---------------------------------------------------------------------------
(* Every step.                                                             *)

LEMMA EmitterStep == EmitterInv /\ [EmitterNext]_allVars => [ProtocolNext]_protocolVars /\ EmitterInv'
<1> SUFFICES ASSUME EmitterInv, [EmitterNext]_allVars PROVE Kept
  BY ProtocolStep DEF Kept, EmitterInv
<1>1. CASE UNCHANGED allVars
  <2>1. /\ UNCHANGED <<protocolVars, program, frames, cfds, params, incomplete>>
        /\ UNCHANGED <<graph, proc, saves, phase>>
    BY <1>1 DEF allVars, emitterVars, codeVars2, ssaVars, protocolVars, vars
  <2>2. FramesInv' /\ LoopsInv' /\ ListsInv'
    BY <2>1 DEF EmitterInv, FramesInv, LoopsInv, ListsInv, WithParams
  <2>3. QED BY <2>1, <2>2 DEF Kept, EmitterInv
<1>2. CASE PlainAction
  BY <1>2, PlainActionKept
<1>3. CASE LinkAction
  BY <1>3, LinkActionKept
<1>4. CASE Visit \/ VisitBody \/ Return \/ StopIfTerm \/ Decide
  BY <1>4, VisitKept, VisitBodyKept, ReturnKept, StopIfTermKept, DecideKept
<1>5. CASE PushCFD \/ PopCFD \/ PushEnv \/ PopEnv
  BY <1>5, LoopActionKept, EnvKept
<1>6. CASE ReadUnsealed \/ ReadNowhere \/ AddBlockArg \/ Seal \/ SealCurrent \/ Sealed \/ AddArg
  BY <1>6, ReadUnsealedKept, ReadNowhereKept, AddBlockArgKept, SealKept, SealedKept, AddArgKept
<1>7. CASE SetupCode \/ EntryFunction \/ FirstBlock \/ FunctionParam
  BY <1>7, SetupKept, FunctionKept, FirstBlockKept, FunctionParamKept
<1>8. CASE NewBasicBlock \/ SaveAndEntry \/ PopBlock
  BY <1>8, NewBlockKept, SaveKept, RestoreKept
<1>9. QED BY <1>1, <1>2, <1>3, <1>4, <1>5, <1>6, <1>7, <1>8 DEF EmitterNext, PlainAction, LinkAction

LEMMA EmitterStart == EmitterInit => EmitterInv
<1> SUFFICES ASSUME EmitterInit PROVE EmitterInv
  OBVIOUS
<1>1. ProtocolInv
  BY ProtocolStart DEF EmitterInit
<1>2. program \in Programs /\ program.order \in Seq(Proc)
  BY ProgramsAssumption DEF EmitterInit, BodiesAmong
<1> DEFINE f == [node |-> program, todo |-> Unit(program.order), slots |-> NoSlots, kept |-> NoArg]
<1>3. frames = <<f>> /\ phase = "no code" /\ saves = <<>> /\ cfds = <<>>
  BY DEF EmitterInit, ProtocolInit
<1>4. f.node = program /\ f.todo = Unit(program.order) /\ IsFrame(f)
  BY FrameFields
<1> HIDE DEF f
<1>5. Legal("unit", program, Unit(program.order), "no code", "body")
  BY <1>2, UnitLegal
<1>6. UnitOK(program, f, "no code")
  BY <1>4, <1>5 DEF UnitOK
<1>7. ReadsFirst(f.todo)
  BY <1>4, <1>5, ScriptHasNoReads DEF ReadsFirst, NoReads
<1>8. FramesInv
  <2> DEFINE ctx == [i \in {1} |-> Blank]
             none == [i \in {1} |-> 0]
  <2>1. IsSeq(frames) /\ Len(frames) = 1 /\ frames[1] = f
    <3> DEFINE t == <<f>>
    <3>1. IsSeq(t) /\ Len(t) = 1 /\ t[1] = f
      BY DEF IsSeq
    <3> HIDE DEF t
    <3>2. frames = t
      BY <1>3 DEF t
    <3>3. QED BY <3>1, <3>2
  <2>2. ctx[1] = Blank /\ none[1] = 0 /\ Opened(Blank) = 0 /\ Looped(Blank) = 0
    BY DEF Opened, Looped, Blank, Ctx
  <2>3. /\ \A i \in 1..1 : i = 1
        /\ \A i \in 2..1 : FALSE
        /\ \A i \in 1..(1 - 1) : FALSE
        /\ 0 + 0 = 0 /\ ~(1 > 1)
    OBVIOUS
  <2>4. Len(saves) = 0 /\ Len(cfds) = 0
    BY <1>3, EmptyFacts
  <2> HIDE DEF ctx, none
  <2>5. StackOK(program, frames, phase, Len(saves), Len(cfds), graph[proc], WithParams, ctx, none, none)
    <3>1. UnitOK(program, frames[1], phase) /\ ReadsFirst(frames[1].todo)
      BY <1>3, <1>6, <1>7, <2>1
    <3>2. Len(saves) = none[1] + Opened(ctx[1]) /\ Len(cfds) = none[1] + Looped(ctx[1]) /\ none[1] \in Nat
      BY <2>2, <2>3, <2>4
    <3>3. QED BY <2>1, <2>2, <2>3, <3>1, <3>2 DEF StackOK
  <2>6. QED BY <2>5 DEF FramesInv
<1>9. LoopsInv
  <2>1. \A i \in 1..0 : FALSE
    OBVIOUS
  <2>2. QED BY <1>3, <2>1, EmptyFacts DEF LoopsInv
<1>10. ListsInv
  BY EmptyFacts DEF EmitterInit, ListsInv
<1>11. QED BY <1>1, <1>2, <1>8, <1>9, <1>10 DEF EmitterInv

\* The emitter keeps the discipline of the builder: every step of execute()
\* and of the helpers it calls is one a disciplined client may take.  It enters
\* a function only when no block is saved, pops what it saved before, and links
\* and enters blocks of the current graph only.
THEOREM EmitterKeepsProtocol == EmitterSpec => KeepsProtocol
<1>1. EmitterInit => EmitterInv /\ ProtocolInit
  BY EmitterStart DEF EmitterInit
<1>2. EmitterInv /\ [EmitterNext]_allVars => [ProtocolNext]_protocolVars /\ EmitterInv'
  BY EmitterStep
<1>3. QED BY <1>1, <1>2, PTL DEF EmitterSpec, KeepsProtocol, ProtocolSpec

---------------------------------------------------------------------------
(* The shape of the state: registers, blocks, lists and calls.             *)

\* The registers handed out and the operands there are, when n registers are.
Regs(n) == {Reg(i) : i \in 1..n}
Ops(n) == {Im(TRUE), Im(FALSE), NoArg} \cup Regs(n)

\* What a call that looks for an operand is about, with n registers handed
\* out and the blocks L in graphs.
CallOK(call, n, L) ==
  /\ call[1] \in {"addArg", "write"} => call[3] \in Regs(n)
  /\ call[1] = "read" => call[3] \in Block
  /\ call[1] = "sealed" => call[2] \in L

FramesTyped ==
  /\ \A i \in 1..Len(frames) : frames[i].kept \in Ops(regs)
  /\ \A j \in 1..Len(Frame.todo) : CallOK(Frame.todo[j], regs, Live)

CodeTyped ==
  /\ DOMAIN insts = Block
  /\ \A b \in Block :
       /\ IsSeq(insts[b])
       /\ insts[b] # <<>> => b \in Live
       /\ \A i \in 1..Len(insts[b]) :
            /\ insts[b][i].v \in Ops(regs)
            /\ insts[b][i].op \in {"call", "ld"} => insts[b][i].v \in Regs(regs)

ParamsTyped ==
  /\ \A b \in Block : \A i \in 1..Len(params[b]) : params[b][i] \in Regs(regs)
  /\ \A b \in Block : \A i \in 1..Len(incomplete[b]) : incomplete[b][i][2] \in Regs(regs)
  /\ DOMAIN procParams = Proc
  /\ \A p \in Proc : /\ IsSeq(procParams[p])
                     /\ \A i \in 1..Len(procParams[p]) : procParams[p][i] \in Regs(regs)

CachesTyped ==
  /\ DOMAIN cache = Block
  /\ \A b \in Block : \A x \in DOMAIN cache[b] : cache[b][x] \in Ops(regs)

SealedTyped ==
  /\ sealed \subseteq Live
  /\ \A b \in sealed : incomplete[b] = <<>>

TypesInv ==
  /\ regs \in Nat
  /\ value \in Ops(regs) /\ found \in Ops(regs)
  /\ FramesTyped
  /\ CodeTyped
  /\ ParamsTyped
  /\ CachesTyped
  /\ SealedTyped
  /\ phase = "no code" => Live = {}

---------------------------------------------------------------------------
(* Registers, blocks and lists grow.                                       *)

LEMMA RegsGrow ==
  ASSUME NEW n \in Nat, NEW m \in Nat, n <= m
  PROVE  Regs(n) \subseteq Regs(m) /\ Ops(n) \subseteq Ops(m)
<1>1. 1..n \subseteq 1..m
  OBVIOUS
<1>2. QED BY <1>1 DEF Regs, Ops

LEMMA NextRegister ==
  ASSUME regs \in Nat
  PROVE  NewValue \in Regs(regs + 1) /\ NewValue \in Ops(regs + 1) /\ NewValue \notin Regs(regs)
<1>1. regs + 1 \in 1..(regs + 1) /\ regs + 1 \notin 1..regs
  OBVIOUS
<1>2. \A i, j : Reg(i) = Reg(j) => i = j
  <2>1. \A i : Reg(i).reg = i
    BY DEF Reg
  <2>2. QED BY <2>1
<1>3. QED BY <1>1, <1>2 DEF NewValue, Regs, Ops

\* The nodes of graphs are blocks.
LEMMA LiveInBlock == EmitterInv => Live \subseteq Block
  BY DEF EmitterInv, ProtocolInv, ProtocolTypeOK, TypeOK, Live

\* One list has one more element.
LEMMA AppendAt ==
  ASSUME NEW f, NEW D, DOMAIN f = D, \A c \in D : IsSeq(f[c]), NEW b, NEW x,
         NEW g, g = [f EXCEPT ![b] = Append(@, x)]
  PROVE  /\ DOMAIN g = D
         /\ \A c \in D : c # b => g[c] = f[c]
         /\ \A c \in D : \A i \in 1..Len(g[c]) :
              \/ i \in 1..Len(f[c]) /\ g[c][i] = f[c][i]
              \/ c = b /\ i = Len(f[b]) + 1 /\ g[c][i] = x
<1>1. DOMAIN g = D /\ \A c \in D : c # b => g[c] = f[c]
  OBVIOUS
<1>2. ASSUME b \in D
      PROVE  /\ IsSeq(g[b])
             /\ \A i \in 1..Len(g[b]) :
                  \/ i \in 1..Len(f[b]) /\ g[b][i] = f[b][i]
                  \/ i = Len(f[b]) + 1 /\ g[b][i] = x
  <2>1. g[b] = Append(f[b], x)
    BY <1>2
  <2>2. IsSeq(f[b]) /\ Len(f[b]) \in Nat
    BY <1>2, SeqFacts
  <2>3. /\ IsSeq(g[b]) /\ Len(g[b]) = Len(f[b]) + 1 /\ g[b][Len(f[b]) + 1] = x
        /\ \A i \in 1..Len(f[b]) : g[b][i] = f[b][i]
    BY <2>1, <2>2, AppendFacts
  <2>4. \A i \in 1..(Len(f[b]) + 1) : i \in 1..Len(f[b]) \/ i = Len(f[b]) + 1
    BY <2>2
  <2>5. QED BY <2>3, <2>4
<1>3. QED BY <1>1, <1>2

\* The innermost frame after it went on.
LEMMA ContinuedFacts ==
  ASSUME FramesInv, NEW f
  PROVE  /\ IsSeq(Continued(f)) /\ Len(Continued(f)) = Len(frames) /\ Len(frames) \in Nat /\ Len(frames) # 0
         /\ Continued(f)[Len(frames)] = f
         /\ \A i \in 1..Len(frames) : i # Len(frames) => Continued(f)[i] = frames[i]
<1>1. IsSeq(frames) /\ Len(frames) \in Nat /\ Len(frames) # 0
  BY FrameFacts
<1> DEFINE front == SubSeq(frames, 1, Len(frames) - 1)
<1>2. /\ IsSeq(front) /\ Len(front) = Len(frames) - 1
      /\ \A i \in 1..(Len(frames) - 1) : front[i] = frames[i]
  BY <1>1, FrontFacts
<1> HIDE DEF front
<1>3. /\ IsSeq(Append(front, f)) /\ Len(Append(front, f)) = Len(frames) - 1 + 1
      /\ Append(front, f)[Len(frames) - 1 + 1] = f
      /\ \A i \in 1..(Len(frames) - 1) : Append(front, f)[i] = front[i]
  BY <1>2, AppendFacts
<1>4. Len(frames) - 1 + 1 = Len(frames) /\ \A i \in 1..Len(frames) : i # Len(frames) => i \in 1..(Len(frames) - 1)
  BY <1>1
<1>5. QED BY <1>1, <1>2, <1>3, <1>4 DEF Continued, front

---------------------------------------------------------------------------
(* The calls of the innermost frame.                                       *)

\* Before a call that does not look for an operand, none is about to.
LEMMA NoReadsBefore ==
  ASSUME FramesInv, Frame.todo # <<>>, Frame.todo[1][1] \notin ReadCalls
  PROVE  IsSeq(Frame.todo) /\ NoReads(Frame.todo) /\ NoReads(Tail(Frame.todo))
<1>1. CASE Len(frames) > 1
  <2>1. PICK c, s, l : TopState(c, s, l)
    BY <1>1, FrameFacts
  <2>2. IsSeq(Frame.todo) /\ Len(Frame.todo) # 0 /\ ReadsFirst(Frame.todo)
    BY <2>1, CallFacts DEF TopState
  <2>3. QED BY <2>2, ReadsTail
<1>2. CASE Len(frames) = 1
  <2>1. Legal("unit", program, Frame.todo, phase, "body")
    BY <1>2, FrameFacts DEF UnitOK
  <2>2. IsSeq(Frame.todo)
    BY <2>1 DEF Legal
  <2>3. NoReads(Frame.todo)
    BY <2>1, ScriptHasNoReads
  <2>4. NoReads(Tail(Frame.todo))
    BY <1>2, UnitFacts
  <2>5. QED BY <2>2, <2>3, <2>4
<1>3. QED BY <1>1, <1>2, FrameFacts

\* What a step keeps in its frames was kept before, or is the value.
KeptFrom ==
  /\ Len(frames') \in Nat
  /\ \A i \in 1..Len(frames') :
       frames'[i].kept \in {value, NoArg} \cup {frames[k].kept : k \in 1..Len(frames)}

\* The innermost visit goes on.
LEMMA MadeFacts ==
  ASSUME FramesInv, NEW todo, NEW slots, NEW kept \in {Frame.kept, value},
         frames' = Continued(Made(todo, slots, kept))
  PROVE  Frame'.todo = todo /\ KeptFrom /\ Len(frames') = Len(frames)
<1> DEFINE f == Made(todo, slots, kept)
<1>1. f.todo = todo /\ f.kept = kept
  BY FrameFields DEF Made
<1> HIDE DEF f
<1>2. /\ Len(frames') = Len(frames) /\ Len(frames) \in Nat /\ Len(frames) # 0
      /\ frames'[Len(frames)] = f
      /\ \A i \in 1..Len(frames) : i # Len(frames) => frames'[i] = frames[i]
  BY ContinuedFacts DEF f
<1>3. Frame'.todo = todo
  BY <1>1, <1>2 DEF Frame
<1>4. Len(frames) \in 1..Len(frames)
  BY <1>2
<1>5. ASSUME NEW i \in 1..Len(frames)
      PROVE  frames'[i].kept \in {value, NoArg} \cup {frames[k].kept : k \in 1..Len(frames)}
  <2>1. CASE i = Len(frames)
    BY <1>1, <1>2, <1>4, <2>1 DEF Frame
  <2>2. CASE i # Len(frames)
    BY <1>2, <2>2
  <2>3. QED BY <2>1, <2>2
<1>6. QED BY <1>2, <1>3, <1>5 DEF KeptFrom

\* A visit begins.
LEMMA StartedFacts ==
  ASSUME FramesInv, FramesInv', Frame.todo # <<>>, NEW n, IsNode(n),
         frames' = Append(Continued(Rest), NewFrame(n))
  PROVE  Frame'.todo = Script(n) /\ NoReads(Frame'.todo) /\ KeptFrom
<1> DEFINE fr == Continued(Rest)
           m == Len(frames)
<1>1. Rest.kept = Frame.kept
  <2>1. Rest = [node |-> Frame.node, todo |-> Tail(Frame.todo), slots |-> Frame.slots, kept |-> Frame.kept]
    BY RestForms, FrameOfInv, Zenon DEF Made
  <2> HIDE DEF Rest, Frame
  <2>2. QED BY <2>1
<1>2. /\ IsSeq(fr) /\ Len(fr) = m /\ m \in Nat /\ m # 0 /\ fr[m] = Rest
      /\ \A i \in 1..m : i # m => fr[i] = frames[i]
  BY ContinuedFacts
<1> HIDE DEF fr
<1>3. /\ IsSeq(frames') /\ Len(frames') = m + 1 /\ frames'[m + 1] = NewFrame(n)
      /\ \A i \in 1..m : frames'[i] = fr[i]
  BY <1>2, AppendFacts DEF fr
<1>4. NewFrame(n).todo = Script(n) /\ NewFrame(n).kept = NoArg
  BY DEF NewFrame
<1>5. Frame'.todo = Script(n)
  BY <1>3, <1>4 DEF Frame
<1>6. NoReads(Script(n))
  BY ScriptLegal, ScriptHasNoReads
<1>7. ASSUME NEW i \in 1..(m + 1)
      PROVE  frames'[i].kept \in {value, NoArg} \cup {frames[k].kept : k \in 1..m}
  <2>1. CASE i = m + 1
    BY <1>3, <1>4, <2>1
  <2>2. CASE i = m
    <3>1. frames'[i] = Rest /\ frames[m] = Frame /\ m \in 1..m
      BY <1>2, <1>3, <2>2 DEF Frame
    <3>2. QED BY <1>1, <3>1
  <2>3. CASE i # m + 1 /\ i # m
    <3>1. i \in 1..m
      BY <1>2, <2>3
    <3>2. QED BY <1>2, <1>3, <2>3, <3>1
  <2>4. QED BY <2>1, <2>2, <2>3
<1>8. Len(frames') \in Nat
  BY <1>2, <1>3
<1>9. QED BY <1>3, <1>5, <1>6, <1>7, <1>8 DEF KeptFrom

\* A visit ends.
LEMMA ReturnedFacts ==
  ASSUME FramesInv, Return
  PROVE  NoReads(Frame.todo) /\ NoReads(Frame'.todo) /\ KeptFrom
<1>1. PICK ctx, sv, lp :
        StackOK(program, frames, phase, Len(saves), Len(cfds), graph[proc], WithParams, ctx, sv, lp)
  BY DEF FramesInv
<1> DEFINE m == Len(frames)
<1>2. m \in Nat /\ m > 1 /\ IsSeq(frames) /\ frames' = SubSeq(frames, 1, m - 1) /\ Frame.todo = <<>>
  BY FrameFacts DEF Return
<1>3. /\ Len(frames') = m - 1 /\ m - 1 \in Nat /\ m - 1 \in 1..(m - 1)
      /\ \A i \in 1..(m - 1) : frames'[i] = frames[i] /\ i \in 1..m
  BY <1>2, FrontFacts
<1>4. Frame' = frames[m - 1] /\ NoReads(frames[m - 1].todo)
  BY <1>1, <1>3 DEF Frame, StackOK
<1>5. NoReads(<<>>)
  <2>1. \A j \in 1..0 : FALSE
    OBVIOUS
  <2>2. QED BY <2>1, EmptyFacts DEF NoReads
<1>6. QED BY <1>2, <1>3, <1>4, <1>5 DEF KeptFrom

---------------------------------------------------------------------------
(* Steps by what they do with the calls that look for operands.            *)

\* They do one.
ReadAction ==
  \/ ReadHit \/ ReadUnsealed \/ ReadSinglePred \/ ReadJoin \/ ReadNowhere
  \/ WriteFound \/ WritePlaceholder \/ AddBlockArg \/ Sealed \/ AnswerFound

\* They begin some.
StartAction == ReadLocal \/ Seal \/ SealCurrent

\* They go on with the calls after this one.
SimpleAction ==
  \/ PushCFD \/ PopCFD \/ PushEnv \/ PopEnv \/ Literal \/ CallFunction \/ LoadGlobal \/ StoreGlobal
  \/ AssignLocal \/ DeclareLocal \/ ReturnInst \/ JumpTo \/ JumpWith \/ JumpOut \/ BranchInst \/ AddArg
  \/ AnswerArg \/ FunctionParam \/ SetupCode \/ EntryFunction \/ FirstBlock \/ SaveAndEntry \/ PopBlock
  \/ EntryBlock \/ SetNext \/ SetElse

\* They make, choose or end visits, or change the frame otherwise.
VisitAction == Visit \/ VisitBody \/ Return \/ StopIfTerm \/ Decide \/ Keep \/ NewBasicBlock

LEMMA Grouped == EmitterNext => ReadAction \/ StartAction \/ SimpleAction \/ VisitAction
  BY DEF EmitterNext, ReadAction, StartAction, SimpleAction, VisitAction

\* No operand is being looked for, before or after.
Silent == NoReads(Frame.todo) /\ NoReads(Frame'.todo) /\ KeptFrom

LEMMA ProceedFacts ==
  ASSUME FramesInv, Proceed
  PROVE  Frame'.todo = Tail(Frame.todo) /\ KeptFrom
<1>1. Rest = Made(Tail(Frame.todo), Frame.slots, Frame.kept)
  BY RestForms, FrameOfInv
<1> HIDE DEF Rest, Frame
<1>2. frames' = Continued(Made(Tail(Frame.todo), Frame.slots, Frame.kept))
  BY <1>1, Zenon DEF Proceed
<1>3. Frame.kept \in {Frame.kept, value}
  OBVIOUS
<1>4. QED BY <1>2, <1>3, MadeFacts

LEMMA ProceedWithFacts ==
  ASSUME FramesInv, NEW r, ProceedWith(r)
  PROVE  Frame'.todo = r \o Tail(Frame.todo) /\ KeptFrom
<1>1. [Rest EXCEPT !.todo = r \o @] = Made(r \o Tail(Frame.todo), Frame.slots, Frame.kept)
  BY RestForms, FrameOfInv
<1> HIDE DEF Rest, Frame
<1>2. frames' = Continued(Made(r \o Tail(Frame.todo), Frame.slots, Frame.kept))
  BY <1>1, Zenon DEF ProceedWith
<1>3. Frame.kept \in {Frame.kept, value}
  OBVIOUS
<1>4. QED BY <1>2, <1>3, MadeFacts

LEMMA SimpleIsSilent ==
  ASSUME FramesInv, SimpleAction
  PROVE  Silent
<1>1. Proceed
  BY DEF SimpleAction, PushCFD, PopCFD, PushEnv, PopEnv, Literal, CallFunction, LoadGlobal, StoreGlobal,
         AssignLocal, DeclareLocal, ReturnInst, JumpTo, JumpWith, JumpOut, BranchInst, AddArg,
         AnswerArg, FunctionParam, SetupCode, EntryFunction, FirstBlock, SaveAndEntry, PopBlock,
         EntryBlock, SetNext, SetElse, Create, Written, Jump, Parameter, Building
<1>2. \E call : call \notin ReadCalls /\ Due(call)
  BY DEF SimpleAction, PushCFD, PopCFD, PushEnv, PopEnv, Literal, CallFunction, LoadGlobal, StoreGlobal,
         AssignLocal, DeclareLocal, ReturnInst, JumpTo, JumpWith, JumpOut, BranchInst, AddArg,
         AnswerArg, FunctionParam, SetupCode, EntryFunction, FirstBlock, SaveAndEntry, PopBlock,
         EntryBlock, SetNext, SetElse, ReadCalls
<1>3. NoReads(Frame.todo) /\ NoReads(Tail(Frame.todo))
  BY <1>2, NoReadsBefore DEF Due
<1>4. QED BY <1>1, <1>3, ProceedFacts DEF Silent

LEMMA VisitIsSilent ==
  ASSUME EmitterInv, FramesInv', VisitAction
  PROVE  Silent
<1>1. CASE Return
  BY <1>1, ReturnedFacts DEF Silent, EmitterInv
<1>2. ASSUME ~Return
      PROVE  /\ Frame.todo # <<>> /\ NoReads(Frame.todo) /\ NoReads(Tail(Frame.todo)) /\ IsSeq(Frame.todo)
             /\ Len(Frame.todo) # 0
  <2>1. \E call : call \notin ReadCalls /\ Due(call)
    BY <1>2 DEF VisitAction, Visit, VisitBody, StopIfTerm, Decide, Keep, NewBasicBlock, ReadCalls
  <2>2. Frame.todo # <<>> /\ Frame.todo[1][1] \notin ReadCalls
    BY <2>1 DEF Due
  <2>3. QED BY <2>2, NoReadsBefore, EmptyFacts DEF EmitterInv
<1>3. CASE Keep
  <2>1. frames' = Continued(Made(Tail(Frame.todo), Frame.slots, value))
    BY <1>3, RestForms, FrameOfInv, Zenon DEF Keep, EmitterInv
  <2>2. ~Return
    BY <1>3 DEF Return, Keep, Due
  <2>3. QED BY <1>2, <2>1, <2>2, MadeFacts DEF Silent, EmitterInv
<1>4. CASE NewBasicBlock
  <2>1. frames' = Continued(Made(Tail(Frame.todo), Put(Frame.slots, What, Address), Frame.kept))
    BY <1>4, RestForms, FrameOfInv, Zenon DEF NewBasicBlock, EmitterInv
  <2>2. ~Return
    BY <1>4 DEF Return, NewBasicBlock, Due
  <2>3. QED BY <1>2, <2>1, <2>2, MadeFacts DEF Silent, EmitterInv
<1>5. CASE StopIfTerm
  <2> DEFINE last == Frame.todo[Len(Frame.todo)]
             todo == IF isTerm THEN <<last>> ELSE Tail(Frame.todo)
  <2>1. ~Return
    BY <1>5 DEF Return, StopIfTerm, Due
  <2>2. NoReads(todo)
    <3>1. CASE isTerm
      <4>1. Len(Frame.todo) \in Nat
        BY <1>2, <2>1, SeqFacts
      <4>2. last[1] \notin ReadCalls
        BY <1>2, <2>1, <4>1 DEF NoReads
      <4> DEFINE t == <<last>>
      <4>3. Len(t) = 1 /\ t[1] = last /\ \A j \in 1..1 : j = 1
        OBVIOUS
      <4> HIDE DEF t, last
      <4>4. NoReads(t)
        BY <4>2, <4>3 DEF NoReads
      <4>5. QED BY <3>1, <4>4 DEF t
    <3>2. QED BY <1>2, <2>1, <3>1
  <2>3. frames' = Continued([Frame EXCEPT !.todo = todo])
    BY <1>5 DEF StopIfTerm
  <2> HIDE DEF todo
  <2>4. frames' = Continued(Made(todo, Frame.slots, Frame.kept))
    BY <2>3, RestForms, FrameOfInv, Zenon DEF EmitterInv
  <2>5. QED BY <1>2, <2>1, <2>2, <2>4, MadeFacts DEF Silent, EmitterInv
<1>6. CASE Decide
  <2>1. ~Return /\ Frame.todo # <<>> /\ Frame.todo[1][1] = "decide"
    BY <1>6 DEF Return, Decide, Due
  <2>2. PICK todo, kept :
          /\ kept \in {Frame.kept, value}
          /\ frames' = Continued(Made(todo, Frame.slots, kept))
          /\ todo = Lowered(Frame.node) \/ \E v : todo = Folded(Frame.node, v)
    <3>1. CASE isIm(value)
      <4>1. frames' = Continued([Frame EXCEPT !.todo = Folded(Frame.node, value.im)])
        BY <1>6, <3>1 DEF Decide
      <4>2. frames' = Continued(Made(Folded(Frame.node, value.im), Frame.slots, Frame.kept))
        BY <4>1, RestForms, FrameOfInv, Zenon DEF EmitterInv
      <4>3. QED BY <4>2
    <3>2. CASE ~isIm(value)
      <4>1. frames' = Continued([Frame EXCEPT !.todo = Lowered(Frame.node), !.kept = value])
        BY <1>6, <3>2 DEF Decide
      <4>2. IsFrame(Frame)
        BY FrameOfInv DEF EmitterInv
      <4>3. [Frame EXCEPT !.todo = Lowered(Frame.node), !.kept = value]
              = Made(Lowered(Frame.node), Frame.slots, value)
        BY <4>2, RestForms, Zenon
      <4>4. frames' = Continued(Made(Lowered(Frame.node), Frame.slots, value))
        BY <4>1, <4>3, Zenon
      <4>5. QED BY <4>4
    <3>3. QED BY <3>1, <3>2
  <2>3. NoReads(todo)
    <3>1. Len(frames) > 1
      BY <2>1, DueInVisit DEF EmitterInv, UnitCalls
    <3>2. PICK c, s, l : TopState(c, s, l)
      BY <3>1, FrameFacts DEF EmitterInv
    <3>3. PICK d : Typed("visit", Frame.node, Frame.todo[1], c, d)
      BY <2>1, <3>2, CallFacts
    <3>4. Frame.node.kind \in {"And", "Or", "If"}
      <4>1. NodeCall(Frame.node, Frame.todo[1], c, d)
        BY <2>1, <3>3 DEF Typed, ReadCalls
      <4>2. QED BY <2>1, <4>1, Zenon DEF NodeCall
    <3>5. IsNode(Frame.node)
      BY <3>2 DEF TopState, FrameOK, IsNode
    <3>6. QED BY <2>2, <3>4, <3>5, DecisionLegal, ScriptHasNoReads
  <2>4. QED BY <1>2, <2>1, <2>2, <2>3, MadeFacts DEF Silent, EmitterInv
<1>7. CASE Visit
  <2>1. /\ Frame.todo # <<>> /\ Frame.todo[1][1] = "visit" /\ What = Frame.todo[1][2] /\ ~Return
        /\ frames' = Append(Continued(Rest), NewFrame(Frame.node.kids[What]))
    BY <1>7 DEF Visit, Due, What, Return
  <2>2. Len(frames) > 1
    BY <2>1, DueInVisit DEF EmitterInv, UnitCalls
  <2>3. PICK c, s, l : TopState(c, s, l)
    BY <2>2, FrameFacts DEF EmitterInv
  <2>4. What \in DOMAIN Frame.node.kids
    <3>1. PICK d : Typed("visit", Frame.node, Frame.todo[1], c, d)
      BY <2>1, <2>3, CallFacts
    <3>2. NodeCall(Frame.node, Frame.todo[1], c, d) /\ Frame.todo[1][1] = "visit"
      BY <2>1, <3>1 DEF Typed, ReadCalls
    <3>3. QED BY <2>1, <3>2, Zenon DEF NodeCall
  <2>5. IsNode(Frame.node.kids[What])
    BY <2>3, <2>4, ProgramsAssumption DEF TopState, FrameOK, IsNode, WellFormed
  <2>6. QED BY <1>2, <2>1, <2>5, StartedFacts DEF Silent, EmitterInv
<1>8. CASE VisitBody
  <2> DEFINE body == IF What = "main" THEN program.main ELSE program.funcs[What].body
  <2>1. /\ Frame.todo # <<>> /\ Frame.todo[1][1] = "body" /\ What = Frame.todo[1][2] /\ ~Return
        /\ frames' = Append(Continued(Rest), NewFrame(body))
    BY <1>8 DEF VisitBody, Due, What, Return
  <2>2. Len(frames) = 1
    BY <2>1, DueInUnit DEF EmitterInv, UnitCalls
  <2>3. IsFunction(program, What)
    BY <2>1, <2>2, UnitFacts DEF EmitterInv, UnitCall
  <2>4. <<body, FALSE>> \in Nodes
    BY <2>3, ProgramsAssumption DEF IsFunction, BodiesAmong, EmitterInv
  <2>5. IsNode(body)
    BY <2>4 DEF IsNode
  <2> HIDE DEF body
  <2>6. QED BY <1>2, <2>1, <2>5, StartedFacts DEF Silent, EmitterInv
<1>9. QED BY <1>1, <1>3, <1>4, <1>5, <1>6, <1>7, <1>8 DEF VisitAction

---------------------------------------------------------------------------
(* Registers and blocks only grow, so what is typed stays typed.           *)

RegsStep == regs' = regs \/ regs' = regs + 1

LEMMA RegsStepAlways == EmitterNext => RegsStep
<1>1. ReadAction => RegsStep
  BY DEF ReadAction, ReadHit, ReadUnsealed, ReadSinglePred, ReadJoin, ReadNowhere, WriteFound,
         WritePlaceholder, AddBlockArg, Sealed, AnswerFound, SameCode, codeVars2, RegsStep
<1>2. StartAction => RegsStep
  BY DEF StartAction, ReadLocal, Seal, SealCurrent, SealBlock, RegsStep
<1>3. SimpleAction => RegsStep
  BY DEF SimpleAction, PushCFD, PopCFD, PushEnv, PopEnv, Literal, CallFunction, LoadGlobal, StoreGlobal,
         AssignLocal, DeclareLocal, ReturnInst, JumpTo, JumpWith, JumpOut, BranchInst, AddArg,
         AnswerArg, FunctionParam, SetupCode, EntryFunction, FirstBlock, SaveAndEntry, PopBlock,
         EntryBlock, SetNext, SetElse, Create, Written, Jump, Parameter, Building, SameCode, codeVars2, RegsStep
<1>4. VisitAction => RegsStep
  BY DEF VisitAction, Visit, VisitBody, Return, StopIfTerm, Decide, Keep, NewBasicBlock,
         SameCode, codeVars2, RegsStep
<1>5. QED BY <1>1, <1>2, <1>3, <1>4, Grouped

\* Only the emitter's first call starts a Code, so no block is lost.
LEMMA LiveGrows ==
  ASSUME EmitterInv, TypesInv, EmitterNext
  PROVE  Live \subseteq Live' /\ (phase' = "no code" => Live' = {})
<1>1. ProtocolTypeOK
  BY DEF EmitterInv, ProtocolInv
<1>2. CASE graph' = graph /\ phase' = phase
  BY <1>2 DEF Live, TypesInv
<1>3. CASE SetupCode
  <2>1. /\ Frame.todo # <<>> /\ Frame.todo[1][1] = "setup_code" /\ phase' = "outside"
    BY <1>3 DEF SetupCode, Due
  <2>2. Len(frames) = 1
    BY <2>1, DueInUnit DEF EmitterInv, UnitCalls
  <2>3. phase = "no code"
    BY <2>1, <2>2, UnitFacts DEF EmitterInv, UnitCall
  <2>4. QED BY <2>1, <2>3 DEF TypesInv
<1>4. ASSUME NEW b \in Block, Add(b), proc \in Proc, proc' = proc, phase' = "body"
      PROVE  Live \subseteq Live' /\ (phase' = "no code" => Live' = {})
  <2>1. \A p \in Proc : graph[p] \subseteq graph'[p]
    BY <1>1, <1>4, AddGraph DEF ProtocolTypeOK
  <2>2. QED BY <1>4, <2>1 DEF Live
<1>5. CASE FirstBlock
  <2>1. Add(Address) /\ phase' = "body" /\ proc' = proc /\ proc # NoProc /\ Address \in Block
    BY <1>5 DEF FirstBlock, entry_new_block, codeVars, Add, Unused
  <2>2. QED BY <1>1, <1>4, <2>1 DEF ProtocolTypeOK, TypeOK
<1>6. CASE NewBasicBlock
  <2>1. Add(Address) /\ proc' = proc /\ proc # NoProc /\ phase' = phase /\ Address \in Block
    BY <1>6 DEF NewBasicBlock, newBasicBlock, codeVars, Add, Unused
  <2>2. phase = "body"
    BY <1>6, DueInVisit DEF NewBasicBlock, Due, EmitterInv, UnitCalls
  <2>3. QED BY <1>1, <1>4, <2>1, <2>2 DEF ProtocolTypeOK, TypeOK
<1>7. CASE EntryFunction
  <2>1. phase' = "entered" /\ graph' = graph
    BY <1>7 DEF EntryFunction, entry_function, graphVars
  <2>2. QED BY <2>1 DEF Live
<1>8. CASE ~(SetupCode \/ FirstBlock \/ NewBasicBlock \/ EntryFunction)
  <2>1. ReadAction \/ StartAction => UNCHANGED protocolVars
    BY DEF ReadAction, ReadHit, ReadUnsealed, ReadSinglePred, ReadJoin, ReadNowhere, WriteFound,
           WritePlaceholder, AddBlockArg, Sealed, AnswerFound, StartAction, ReadLocal, Seal, SealCurrent,
           SealBlock, Finding, Aside
  <2>2. \/ JumpTo \/ JumpWith \/ JumpOut \/ SaveAndEntry \/ PopBlock \/ EntryBlock \/ SetNext \/ SetElse
        => graph' = graph /\ phase' = phase
    BY DEF JumpTo, JumpWith, JumpOut, Jump, SaveAndEntry, PopBlock, EntryBlock, SetNext, SetElse, Building,
           setNext, setElse, save_and_entry, pop_block, entry_block, graphVars
  <2>3. SimpleAction => \/ UNCHANGED protocolVars
                        \/ graph' = graph /\ phase' = phase
    BY <1>8, <2>2 DEF SimpleAction, PushCFD, PopCFD, PushEnv, PopEnv, Literal, CallFunction, LoadGlobal, StoreGlobal,
         AssignLocal, DeclareLocal, ReturnInst, BranchInst, AddArg, AnswerArg, FunctionParam,
         Create, Written, Parameter, Aside
  <2>4. VisitAction => UNCHANGED protocolVars
    BY <1>8 DEF VisitAction, Visit, VisitBody, Return, StopIfTerm, Decide, Keep, Aside
  <2>5. UNCHANGED protocolVars => graph' = graph /\ phase' = phase
    BY DEF protocolVars, vars
  <2>6. QED BY <1>2, <2>1, <2>3, <2>4, <2>5, Grouped
<1>9. QED BY <1>3, <1>5, <1>6, <1>7, <1>8

\* What every step does to registers and blocks.
Grows == /\ RegsStep /\ Live \subseteq Live'
         /\ regs \in Nat /\ regs' \in Nat
         /\ Regs(regs) \subseteq Regs(regs') /\ Ops(regs) \subseteq Ops(regs')

LEMMA GrowsAlways ==
  ASSUME EmitterInv, TypesInv, EmitterNext
  PROVE  Grows
<1>1. RegsStep /\ Live \subseteq Live'
  BY RegsStepAlways, LiveGrows
<1>2. regs \in Nat /\ regs' \in Nat /\ regs <= regs'
  <2>1. regs \in Nat
    BY DEF TypesInv
  <2>2. QED BY <1>1, <2>1 DEF RegsStep
<1>3. QED BY <1>1, <1>2, RegsGrow DEF Grows

\* What a step leaves alone.
LEMMA Stays ==
  ASSUME TypesInv, Grows
  PROVE  /\ value \in Ops(regs') /\ found \in Ops(regs') /\ NoArg \in Ops(regs')
         /\ insts' = insts => CodeTyped'
         /\ UNCHANGED <<params, incomplete, procParams>> => ParamsTyped'
         /\ cache' = cache => CachesTyped'
         /\ UNCHANGED <<sealed, incomplete>> => SealedTyped'
<1>1. value \in Ops(regs') /\ found \in Ops(regs') /\ NoArg \in Ops(regs')
  BY DEF TypesInv, Grows, Ops
<1>2. insts' = insts => CodeTyped'
  BY DEF TypesInv, CodeTyped, Grows
<1>3. UNCHANGED <<params, incomplete, procParams>> => ParamsTyped'
  BY DEF TypesInv, ParamsTyped, Grows
<1>4. cache' = cache => CachesTyped'
  BY DEF TypesInv, CachesTyped, Grows
<1>5. UNCHANGED <<sealed, incomplete>> => SealedTyped'
  BY DEF TypesInv, SealedTyped, Grows
<1>6. QED BY <1>1, <1>2, <1>3, <1>4, <1>5

LEMMA SilentFrames ==
  ASSUME TypesInv, Grows, FramesInv', Silent
  PROVE  FramesTyped'
<1>1. ASSUME NEW i \in 1..Len(frames')
      PROVE  frames'[i].kept \in Ops(regs')
  BY Stays DEF TypesInv, Silent, KeptFrom, FramesTyped, Grows
<1>2. ASSUME NEW j \in 1..Len(Frame'.todo)
      PROVE  CallOK(Frame'.todo[j], regs', Live')
  BY DEF Silent, NoReads, ReadCalls, CallOK
<1>3. QED BY <1>1, <1>2 DEF FramesTyped

LEMMA CodeGrowsAt ==
  ASSUME TypesInv, Grows, NEW inst, NEW b \in Live, insts' = [insts EXCEPT ![b] = Append(@, inst)],
         inst.v \in Ops(regs'), inst.op \in {"call", "ld"} => inst.v \in Regs(regs')
  PROVE  CodeTyped'
<1>1. /\ DOMAIN insts' = Block
      /\ \A c \in Block : IsSeq(insts'[c])
      /\ \A c \in Block : c # b => insts'[c] = insts[c]
      /\ \A c \in Block : \A i \in 1..Len(insts'[c]) :
              \/ i \in 1..Len(insts[c]) /\ insts'[c][i] = insts[c][i]
              \/ c = b /\ i = Len(insts[b]) + 1 /\ insts'[c][i] = inst
  <2>1. DOMAIN insts = Block /\ \A c \in Block : IsSeq(insts[c])
    BY DEF TypesInv, CodeTyped
  <2>2. ASSUME NEW c \in Block PROVE IsSeq(insts'[c])
    <3>1. IsSeq(insts[c]) /\ (insts'[c] = insts[c] \/ insts'[c] = Append(insts[c], inst))
      BY <2>1
    <3>2. QED BY <3>1, AppendFacts
  <2>3. QED BY <2>1, <2>2, AppendAt
<1>2. ASSUME NEW c \in Block
      PROVE  insts'[c] # <<>> => c \in Live'
  BY <1>1 DEF TypesInv, CodeTyped, Grows
<1>3. ASSUME NEW c \in Block, NEW i \in 1..Len(insts'[c])
      PROVE  /\ insts'[c][i].v \in Ops(regs')
             /\ insts'[c][i].op \in {"call", "ld"} => insts'[c][i].v \in Regs(regs')
  BY <1>1 DEF TypesInv, CodeTyped, Grows
<1>4. QED BY <1>1, <1>2, <1>3 DEF CodeTyped

LEMMA CodeGrows ==
  ASSUME TypesInv, Grows, NEW inst, insts' = Pushed(inst), current_block \in Live,
         inst.v \in Ops(regs'), inst.op \in {"call", "ld"} => inst.v \in Regs(regs')
  PROVE  CodeTyped'
<1>1. insts' = [insts EXCEPT ![current_block] = Append(@, inst)]
  BY DEF Pushed
<1> HIDE DEF current_block
<1>2. QED BY <1>1, CodeGrowsAt

LEMMA CacheGrows ==
  ASSUME TypesInv, Grows, NEW x, NEW v \in Ops(regs'), cache' = Cached(x, v)
  PROVE  CachesTyped'
<1>1. DOMAIN cache' = Block
  BY DEF TypesInv, CachesTyped, Cached
<1>2. ASSUME NEW b \in Block, NEW y \in DOMAIN cache'[b]
      PROVE  cache'[b][y] \in Ops(regs')
  <2>1. CASE b = current_block
    <3>1. cache'[b] = Put(cache[b], x, v)
      BY <2>1 DEF TypesInv, CachesTyped, Cached
    <3>2. QED BY <1>2, <3>1 DEF Put, TypesInv, CachesTyped, Grows
  <2>2. CASE b # current_block
    <3>1. cache'[b] = cache[b]
      BY <2>2 DEF TypesInv, CachesTyped, Cached
    <3>2. QED BY <1>2, <3>1 DEF TypesInv, CachesTyped, Grows
  <2>3. QED BY <2>1, <2>2
<1>3. QED BY <1>1, <1>2 DEF CachesTyped

\* A block gets a parameter.
LEMMA ParamsTypedGrow ==
  ASSUME ListsInv, TypesInv, Grows, NEW b, NEW r \in Regs(regs'), params' = [params EXCEPT ![b] = Append(@, r)],
         UNCHANGED <<incomplete, procParams>>
  PROVE  ParamsTyped'
<1>1. \A c \in Block : \A i \in 1..Len(params'[c]) :
              \/ i \in 1..Len(params[c]) /\ params'[c][i] = params[c][i]
              \/ c = b /\ i = Len(params[b]) + 1 /\ params'[c][i] = r
  BY AppendAt DEF ListsInv
<1>2. \A c \in Block : \A i \in 1..Len(params'[c]) : params'[c][i] \in Regs(regs')
  BY <1>1 DEF TypesInv, ParamsTyped, Grows
<1>3. QED BY <1>2 DEF TypesInv, ParamsTyped, Grows

---------------------------------------------------------------------------
(* The types after a step.                                                 *)

DataTyped ==
  /\ value \in Ops(regs) /\ found \in Ops(regs)
  /\ CodeTyped /\ ParamsTyped /\ CachesTyped /\ SealedTyped

LEMMA ConstantsAreOperands ==
  \A n : NoArg \in Ops(n) /\ \A v \in BOOLEAN : Im(v) \in Ops(n)
<1>1. \A v \in BOOLEAN : v = TRUE \/ v = FALSE
  OBVIOUS
<1>2. QED BY <1>1, Zenon DEF Ops

\* Steps that leave code, parameters and caches alone.
QuietAction ==
  \/ VisitAction
  \/ PushCFD \/ PopCFD \/ PushEnv \/ PopEnv \/ Literal \/ AnswerArg
  \/ SetupCode \/ EntryFunction \/ FirstBlock \/ SaveAndEntry \/ PopBlock \/ EntryBlock \/ SetNext \/ SetElse

LEMMA QuietTypes ==
  ASSUME EmitterInv, TypesInv, Grows, QuietAction
  PROVE  DataTyped' /\ UNCHANGED <<insts, params, procParams, regs, cache, incomplete, sealed, found>>
<1>1. UNCHANGED <<insts, params, procParams, regs, cache, incomplete, sealed, found>>
  <2>1. VisitAction => UNCHANGED <<insts, params, procParams, regs, cache, incomplete, sealed, found>>
    BY DEF VisitAction, Visit, VisitBody, Return, StopIfTerm, Decide, Keep, NewBasicBlock,
           SameCode, SameNames, codeVars2, ssaVars
  <2>2. ~VisitAction => SameCode /\ UNCHANGED ssaVars
    BY DEF QuietAction, PushCFD, PopCFD, PushEnv, PopEnv, Literal, AnswerArg, SetupCode, EntryFunction,
           FirstBlock, SaveAndEntry, PopBlock, EntryBlock, SetNext, SetElse, Building, SameNames
  <2>3. QED BY <2>1, <2>2 DEF SameCode, codeVars2, ssaVars
<1>2. value' \in Ops(regs')
  <2>1. CASE value' = value \/ value' = NoArg
    BY <2>1, Stays
  <2>2. CASE Literal
    <3>1. value' = Im(Frame.node.name = "1")
      BY <2>2 DEF Literal
    <3>2. (Frame.node.name = "1") \in BOOLEAN
      OBVIOUS
    <3>3. QED BY <3>1, <3>2, ConstantsAreOperands, Zenon
  <2>3. CASE Decide
    <3>1. value' = Im(Frame.node.kind = "Or") \/ value' = NoArg
      BY <2>3, Zenon DEF Decide
    <3>2. (Frame.node.kind = "Or") \in BOOLEAN
      OBVIOUS
    <3>3. QED BY <3>1, <3>2, ConstantsAreOperands, Zenon
  <2>4. CASE AnswerArg
    <3>1. Slot(What) \in WithParams /\ value' = params[Slot(What)][1]
      BY <2>4, SlotFacts DEF AnswerArg, Due
    <3>2. Slot(What) \in Block /\ params[Slot(What)] # <<>> /\ IsSeq(params[Slot(What)])
      BY <3>1 DEF WithParams, EmitterInv, ListsInv
    <3>3. Len(params[Slot(What)]) # 0 /\ Len(params[Slot(What)]) \in Nat
      BY <3>2, EmptyFacts, SeqFacts
    <3>4. 1 \in 1..Len(params[Slot(What)])
      BY <3>3
    <3>5. params[Slot(What)][1] \in Regs(regs)
      BY <3>2, <3>4 DEF TypesInv, ParamsTyped
    <3>6. QED BY <3>1, <3>5 DEF Grows, Ops
  <2>5. CASE ~(Literal \/ Decide \/ AnswerArg)
    <3>1. value' = value \/ value' = NoArg
      BY <2>5 DEF QuietAction, VisitAction, Visit, VisitBody, Return, StopIfTerm, Keep, NewBasicBlock,
             PushCFD, PopCFD, PushEnv, PopEnv, SetupCode, EntryFunction,
             FirstBlock, SaveAndEntry, PopBlock, EntryBlock, SetNext, SetElse, Building
    <3>2. QED BY <2>1, <3>1
  <2>6. QED BY <2>2, <2>3, <2>4, <2>5
<1>3. QED BY <1>1, <1>2, Stays DEF DataTyped

\* Steps that make an instruction.
CodeAction ==
  \/ CallFunction \/ LoadGlobal \/ StoreGlobal \/ ReturnInst
  \/ JumpTo \/ JumpWith \/ JumpOut \/ BranchInst

\* The register of an instruction that has one is new.
NewInst(inst) ==
  /\ inst.v \in Ops(regs')
  /\ inst.op \in {"call", "ld"} => inst.v = NewValue /\ regs' = regs + 1

LEMMA CodeFacts ==
  ASSUME EmitterInv, TypesInv, Grows, CodeAction
  PROVE  /\ \E inst : insts' = Pushed(inst) /\ NewInst(inst)
         /\ value' \in Ops(regs') /\ current_block \in Live
         /\ UNCHANGED <<params, procParams, cache, incomplete, sealed, found>>
<1>1. UNCHANGED <<params, procParams, cache, incomplete, sealed, found>>
  BY DEF CodeAction, CallFunction, LoadGlobal, StoreGlobal, ReturnInst, JumpTo, JumpWith, JumpOut, BranchInst,
         Create, Jump, SameNames, ssaVars
<1>2. \E call : call \notin UnitCalls /\ Due(call)
  BY DEF CodeAction, CallFunction, LoadGlobal, StoreGlobal, ReturnInst, JumpTo, JumpWith, JumpOut, BranchInst,
         UnitCalls
<1>3. current_block \in Live /\ Len(frames) > 1
  BY <1>2, DueInVisit, BodyFacts DEF Due, EmitterInv
<1>4. Frame.kept \in Ops(regs)
  <2>1. Len(frames) \in 1..Len(frames)
    BY <1>3, FrameFacts DEF EmitterInv
  <2>2. QED BY <2>1 DEF TypesInv, FramesTyped, Frame
<1>5. CASE CallFunction
  <2>1. PICK f, args : insts' = Pushed(CallInst(f, NewValue, args)) /\ regs' = regs + 1
                       /\ value' \in {NoArg, NewValue}
    BY <1>5 DEF CallFunction, Create
  <2>2. NewInst(CallInst(f, NewValue, args))
    BY <2>1, NextRegister DEF NewInst, CallInst, TypesInv
  <2>3. QED BY <1>1, <1>3, <2>1, <2>2, NextRegister, Stays DEF TypesInv
<1>6. CASE LoadGlobal
  <2>1. insts' = Pushed(Load(NewValue, Frame.node.name)) /\ regs' = regs + 1 /\ value' = NewValue
    BY <1>6 DEF LoadGlobal, Create
  <2>2. NewInst(Load(NewValue, Frame.node.name))
    BY <2>1, NextRegister DEF NewInst, Load, TypesInv
  <2>3. QED BY <1>1, <1>3, <2>1, <2>2, NextRegister DEF TypesInv
<1>7. CASE StoreGlobal
  <2>1. insts' = Pushed(Store(Frame.node.name, value)) /\ value' = NoArg
    BY <1>7 DEF StoreGlobal, Create
  <2>2. NewInst(Store(Frame.node.name, value))
    BY Stays DEF NewInst, Store
  <2>3. QED BY <1>1, <1>3, <2>1, <2>2, Stays
<1>8. CASE ReturnInst
  <2>1. insts' = Pushed(Rt(Frame.kept)) /\ value' = NoArg
    BY <1>8 DEF ReturnInst, Create
  <2>2. NewInst(Rt(Frame.kept))
    BY <1>4 DEF NewInst, Rt, Grows
  <2>3. QED BY <1>1, <1>3, <2>1, <2>2, Stays
<1>9. CASE JumpTo \/ JumpWith \/ JumpOut
  <2>1. insts' = Pushed(Jp) /\ value' = NoArg
    BY <1>9 DEF JumpTo, JumpWith, JumpOut, Jump
  <2>2. NewInst(Jp)
    BY Stays DEF NewInst, Jp
  <2>3. QED BY <1>1, <1>3, <2>1, <2>2, Stays
<1>10. CASE BranchInst
  <2>1. PICK targs, fargs : insts' = Pushed(Br(Frame.kept, targs, fargs)) /\ value' = value
    BY <1>10 DEF BranchInst
  <2>2. NewInst(Br(Frame.kept, targs, fargs))
    BY <1>4 DEF NewInst, Br, Grows
  <2>3. QED BY <1>1, <1>3, <2>1, <2>2, Stays
<1>11. QED BY <1>5, <1>6, <1>7, <1>8, <1>9, <1>10 DEF CodeAction

LEMMA CodeTypes ==
  ASSUME EmitterInv, TypesInv, Grows, CodeAction
  PROVE  DataTyped'
<1>1. PICK inst : insts' = Pushed(inst) /\ NewInst(inst)
  BY CodeFacts
<1>2. inst.op \in {"call", "ld"} => inst.v \in Regs(regs')
  BY <1>1, NextRegister DEF NewInst, TypesInv
<1>3. CodeTyped'
  BY <1>1, <1>2, CodeFacts, CodeGrows DEF NewInst
<1>4. QED BY <1>3, CodeFacts, Stays DEF DataTyped

\* Steps that write a variable or a parameter.
LEMMA WriteTypes ==
  ASSUME EmitterInv, TypesInv, Grows, AssignLocal \/ DeclareLocal
  PROVE  DataTyped' /\ UNCHANGED <<insts, params, procParams, regs, incomplete, sealed, found>>
<1>1. /\ cache' = Cached(Frame.node.name, value) /\ value' = NoArg
      /\ UNCHANGED <<insts, params, procParams, regs, incomplete, sealed, found>>
  BY DEF AssignLocal, DeclareLocal, Written, writeVar, SameCode, codeVars2
<1>2. CachesTyped'
  BY <1>1, Stays, CacheGrows
<1>3. QED BY <1>1, <1>2, Stays DEF DataTyped

LEMMA ArgTypes ==
  ASSUME EmitterInv, TypesInv, Grows, AddArg
  PROVE  /\ DataTyped' /\ regs' = regs + 1
         /\ params' = [params EXCEPT ![Slot(What)] = Append(@, NewValue)]
         /\ UNCHANGED <<insts, procParams, cache, incomplete, sealed, found>>
<1>1. /\ params' = [params EXCEPT ![Slot(What)] = Append(@, NewValue)] /\ regs' = regs + 1
      /\ UNCHANGED <<value, insts, procParams, cache, incomplete, sealed, found>>
  BY DEF AddArg, Parameter, SameNames, ssaVars
<1>2. NewValue \in Regs(regs')
  BY <1>1, NextRegister DEF TypesInv
<1>3. ParamsTyped'
  BY <1>1, <1>2, ParamsTypedGrow DEF EmitterInv
<1>4. QED BY <1>1, <1>3, Stays DEF DataTyped

LEMMA FunctionParamTypes ==
  ASSUME EmitterInv, TypesInv, Grows, FunctionParam
  PROVE  /\ DataTyped'
         /\ \/ UNCHANGED <<procParams, regs>>
            \/ procParams' = [procParams EXCEPT ![What] = Append(@, NewValue)] /\ regs' = regs + 1
         /\ UNCHANGED <<insts, params, incomplete, sealed, found>>
<1>1. UNCHANGED <<value, insts, params, incomplete, sealed, found>>
  BY DEF FunctionParam, SameNames, ssaVars
<1>2. CASE ParamOf(What) = ""
  <2>1. UNCHANGED <<procParams, regs, cache>>
    BY <1>2 DEF FunctionParam, SameNames, ssaVars
  <2>2. QED BY <1>1, <2>1, Stays DEF DataTyped
<1>3. CASE ParamOf(What) # ""
  <2>1. /\ procParams' = [procParams EXCEPT ![What] = Append(@, NewValue)] /\ regs' = regs + 1
        /\ cache' = Cached(ParamOf(What), NewValue)
    BY <1>3 DEF FunctionParam, writeVar
  <2>2. NewValue \in Regs(regs') /\ NewValue \in Ops(regs')
    BY <2>1, NextRegister DEF TypesInv
  <2>3. CachesTyped'
    BY <2>1, <2>2, CacheGrows
  <2>4. DOMAIN procParams = Proc /\ \A p \in Proc : IsSeq(procParams[p])
    BY DEF TypesInv, ParamsTyped
  <2>5. /\ DOMAIN procParams' = Proc
        /\ \A p \in Proc : \A i \in 1..Len(procParams'[p]) :
              \/ i \in 1..Len(procParams[p]) /\ procParams'[p][i] = procParams[p][i]
              \/ p = What /\ i = Len(procParams[What]) + 1 /\ procParams'[p][i] = NewValue
    <3> HIDE DEF What, NewValue
    <3>1. QED BY <2>1, <2>4, AppendAt
  <2>6. ASSUME NEW p \in Proc PROVE IsSeq(procParams'[p])
    <3>1. IsSeq(procParams[p])
      BY <2>4
    <3> HIDE DEF NewValue, What
    <3>2. CASE p = What
      <4>1. procParams'[p] = Append(procParams[p], NewValue)
        BY <2>1, <2>4, <3>2
      <4>2. QED BY <3>1, <4>1, AppendFacts
    <3>3. CASE p # What
      BY <2>1, <2>4, <3>1, <3>3
    <3>4. QED BY <3>2, <3>3
  <2>7. \A p \in Proc : \A i \in 1..Len(procParams'[p]) : procParams'[p][i] \in Regs(regs')
    BY <2>2, <2>5 DEF TypesInv, ParamsTyped, Grows
  <2>8. ParamsTyped'
    BY <1>1, <2>5, <2>6, <2>7 DEF TypesInv, ParamsTyped, Grows
  <2>9. QED BY <1>1, <2>1, <2>3, <2>8, Stays DEF DataTyped
<1>4. QED BY <1>2, <1>3

\* Steps that begin to look for operands.
LEMMA StartFacts ==
  ASSUME EmitterInv, StartAction
  PROVE  /\ Frame.todo # <<>> /\ NoReads(Frame.todo) /\ NoReads(Tail(Frame.todo)) /\ phase = "body"
         /\ UNCHANGED <<value, insts, params, procParams, regs, cache, incomplete, sealed, found>>
<1>1. UNCHANGED <<value, insts, params, procParams, regs, cache, incomplete, sealed, found>>
  BY DEF StartAction, ReadLocal, Seal, SealCurrent, SealBlock, Finding, ssaVars
<1>2. Frame.todo # <<>> /\ Frame.todo[1][1] \notin ReadCalls /\ Frame.todo[1][1] \notin UnitCalls
  BY DEF StartAction, ReadLocal, Seal, SealCurrent, Due, ReadCalls, UnitCalls
<1>3. QED BY <1>1, <1>2, NoReadsBefore, DueInVisit DEF EmitterInv

\* The calls in front of the rest.
LEMMA FrontTyped ==
  ASSUME TypesInv, Grows, NEW r, IsSeq(r), \A j \in 1..Len(r) : CallOK(r[j], regs', Live'),
         IsSeq(Frame.todo), Len(Frame.todo) # 0,
         Frame'.todo = r \o Tail(Frame.todo) \/ Frame'.todo = Tail(Frame.todo), KeptFrom
  PROVE  FramesTyped'
<1> DEFINE t == Tail(Frame.todo)
<1>1. IsSeq(t) /\ Len(t) \in Nat /\ \A j \in 1..Len(t) : t[j] = Frame.todo[j + 1] /\ j + 1 \in 1..Len(Frame.todo)
  <2>1. /\ IsSeq(t) /\ Len(t) = Len(Frame.todo) - 1 /\ Len(Frame.todo) \in Nat
        /\ \A j \in 1..(Len(Frame.todo) - 1) : t[j] = Frame.todo[j + 1]
    BY TailFacts, SeqFacts
  <2>2. \A j \in 1..(Len(Frame.todo) - 1) : j + 1 \in 1..Len(Frame.todo)
    BY <2>1
  <2> HIDE DEF t
  <2>3. QED BY <2>1, <2>2
<1>2. \A j \in 1..Len(t) : CallOK(t[j], regs', Live')
  <2>1. \A j \in 1..Len(Frame.todo) : CallOK(Frame.todo[j], regs, Live)
    BY DEF TypesInv, FramesTyped
  <2>2. \A call : CallOK(call, regs, Live) => CallOK(call, regs', Live')
    BY DEF Grows, CallOK
  <2> HIDE DEF t
  <2>3. QED BY <1>1, <2>1, <2>2
<1> HIDE DEF t
<1>3. \A j \in 1..Len(r \o t) : CallOK((r \o t)[j], regs', Live')
  <2> DEFINE q == r \o t
  <2>1. /\ Len(q) = Len(r) + Len(t) /\ Len(r) \in Nat
        /\ \A i \in 1..Len(r) : q[i] = r[i]
        /\ \A i \in 1..Len(t) : q[Len(r) + i] = t[i]
    BY <1>1, ConcatFacts, SeqFacts
  <2> HIDE DEF q
  <2>2. ASSUME NEW j \in 1..Len(q) PROVE CallOK(q[j], regs', Live')
    <3>1. CASE j <= Len(r)
      BY <1>1, <2>1, <3>1
    <3>2. CASE ~(j <= Len(r))
      <4>1. j - Len(r) \in 1..Len(t) /\ Len(r) + (j - Len(r)) = j
        BY <1>1, <2>1, <3>2
      <4>2. q[j] = t[j - Len(r)]
        BY <2>1, <4>1
      <4>3. QED BY <1>2, <4>1, <4>2
    <3>3. QED BY <3>1, <3>2
  <2>3. QED BY <2>2 DEF q
<1>4. \A j \in 1..Len(Frame'.todo) : CallOK(Frame'.todo[j], regs', Live')
  BY <1>2, <1>3 DEF t
<1>5. \A i \in 1..Len(frames') : frames'[i].kept \in Ops(regs')
  BY Stays DEF TypesInv, KeptFrom, FramesTyped, Grows
<1>6. QED BY <1>4, <1>5 DEF FramesTyped

\* Short sequences of calls.
LEMMA CallsOK ==
  ASSUME NEW n, NEW L
  PROVE  /\ IsSeq(<<>>) /\ \A j \in 1..Len(<<>>) : CallOK(<<>>[j], n, L)
         /\ \A x, y : CallOK(x, n, L) /\ CallOK(y, n, L) =>
              IsSeq(<<x, y>>) /\ \A j \in 1..Len(<<x, y>>) : CallOK(<<x, y>>[j], n, L)
<1>1. \A j \in 1..0 : FALSE
  OBVIOUS
<1>2. ASSUME NEW x, NEW y, CallOK(x, n, L), CallOK(y, n, L)
      PROVE  IsSeq(<<x, y>>) /\ \A j \in 1..Len(<<x, y>>) : CallOK(<<x, y>>[j], n, L)
  <2> DEFINE s == <<x, y>>
  <2>1. IsSeq(s) /\ Len(s) = 2 /\ s[1] = x /\ s[2] = y
    BY DEF IsSeq
  <2>2. \A j \in 1..2 : j = 1 \/ j = 2
    OBVIOUS
  <2> HIDE DEF s
  <2>3. \A j \in 1..Len(s) : CallOK(s[j], n, L)
    BY <1>2, <2>1, <2>2
  <2>4. QED BY <2>1, <2>3 DEF s
<1>3. QED BY <1>1, <1>2, EmptyFacts

\* What is known when an operand is looked for.
LEMMA ReadingFacts ==
  ASSUME EmitterInv, TypesInv, ReadAction
  PROVE  /\ Frame.todo # <<>> /\ IsSeq(Frame.todo) /\ Len(Frame.todo) # 0
         /\ Frame.todo[1][1] \in ReadCalls /\ CallOK(Frame.todo[1], regs, Live)
         /\ IsSeq(Tail(Frame.todo)) /\ phase = "body"
<1>1. Frame.todo # <<>> /\ Frame.todo[1][1] \in ReadCalls
  BY DEF ReadAction, ReadHit, ReadUnsealed, ReadSinglePred, ReadJoin, ReadNowhere, WriteFound,
         WritePlaceholder, AddBlockArg, Sealed, AnswerFound, Reading, Due, ReadCalls
<1>2. Len(frames) > 1 /\ phase = "body"
  BY <1>1, DueInVisit DEF EmitterInv, ReadCalls, UnitCalls
<1>3. PICK c, s, l : TopState(c, s, l)
  BY <1>2, FrameFacts DEF EmitterInv
<1>4. IsSeq(Frame.todo) /\ Len(Frame.todo) # 0 /\ IsSeq(Tail(Frame.todo))
  BY <1>1, <1>3, CallFacts
<1>5. 1 \in 1..Len(Frame.todo)
  BY <1>4, SeqFacts
<1>6. CallOK(Frame.todo[1], regs, Live)
  BY <1>5 DEF TypesInv, FramesTyped
<1>7. QED BY <1>1, <1>2, <1>4, <1>6

\* The data after an operand was looked for.
LEMMA ReadTypes ==
  ASSUME EmitterInv, TypesInv, Grows, ReadAction
  PROVE  DataTyped'
<1>1. CASE ReadHit
  <2>1. /\ found' = cache[ReadBlock][ReadName] /\ ReadName \in DOMAIN cache[ReadBlock]
        /\ Frame.todo[1][1] = "read" /\ UNCHANGED <<value, insts, params, procParams, cache, incomplete, sealed>>
    BY <1>1 DEF ReadHit, Hit, Reading, Due, Finding
  <2>2. ReadBlock \in Block
    BY <2>1, ReadingFacts DEF CallOK, ReadBlock
  <2>3. found' \in Ops(regs')
    BY <2>1, <2>2 DEF TypesInv, CachesTyped, Grows
  <2>4. QED BY <2>1, <2>3, Stays DEF DataTyped
<1>2. CASE ReadUnsealed
  <2>1. /\ incomplete' = [incomplete EXCEPT ![ReadBlock] = Append(@, <<ReadName, NewValue>>)]
        /\ regs' = regs + 1 /\ found' = NewValue /\ cache' = Cached(ReadName, NewValue)
        /\ ReadBlock \notin sealed /\ UNCHANGED <<value, insts, params, procParams, sealed>>
    BY <1>2 DEF ReadUnsealed, Known, Finding, writeVar
  <2>2. NewValue \in Regs(regs') /\ NewValue \in Ops(regs')
    BY <2>1, NextRegister DEF TypesInv
  <2>3. CachesTyped'
    BY <2>1, <2>2, CacheGrows
  <2> DEFINE entry == <<ReadName, NewValue>>
  <2>4. entry[2] = NewValue
    OBVIOUS
  <2> HIDE DEF entry
  <2>5. DOMAIN incomplete = Block /\ \A b \in Block : IsSeq(incomplete[b])
    BY DEF EmitterInv, ListsInv
  <2>6. \A b \in Block : \A i \in 1..Len(incomplete'[b]) :
              \/ i \in 1..Len(incomplete[b]) /\ incomplete'[b][i] = incomplete[b][i]
              \/ b = ReadBlock /\ i = Len(incomplete[ReadBlock]) + 1 /\ incomplete'[b][i] = entry
    <3>1. incomplete' = [incomplete EXCEPT ![ReadBlock] = Append(@, entry)]
      BY <2>1 DEF entry
    <3> HIDE DEF ReadBlock
    <3>2. QED BY <2>5, <3>1, AppendAt
  <2>7. \A b \in Block : \A i \in 1..Len(incomplete'[b]) : incomplete'[b][i][2] \in Regs(regs')
    BY <2>2, <2>4, <2>6 DEF TypesInv, ParamsTyped, Grows
  <2>8. ParamsTyped'
    BY <2>1, <2>7 DEF TypesInv, ParamsTyped, Grows
  <2>9. SealedTyped'
    <3>1. ASSUME NEW b \in sealed PROVE incomplete'[b] = <<>>
      <4>1. b \in Block /\ b # ReadBlock /\ incomplete[b] = <<>>
        BY <2>1, LiveInBlock DEF TypesInv, SealedTyped
      <4> HIDE DEF ReadBlock
      <4>2. QED BY <2>1, <2>5, <4>1
    <3>2. sealed' \subseteq Live'
      BY <2>1 DEF TypesInv, SealedTyped, Grows
    <3>3. QED BY <2>1, <3>1, <3>2 DEF SealedTyped
  <2>10. QED BY <2>1, <2>2, <2>3, <2>8, <2>9, Stays DEF DataTyped
<1>3. CASE ReadSinglePred \/ ReadNowhere
  BY <1>3, Stays DEF DataTyped, ReadSinglePred, ReadNowhere, Finding, ssaVars
<1>4. CASE ReadJoin
  <2>1. /\ regs' = regs + 1 /\ cache' = Cached(ReadName, NewValue)
        /\ UNCHANGED <<value, insts, params, procParams, incomplete, sealed, found>>
    BY <1>4 DEF ReadJoin, Finding, writeVar
  <2>2. NewValue \in Ops(regs')
    BY <2>1, NextRegister DEF TypesInv
  <2>3. CachesTyped'
    BY <2>1, <2>2, CacheGrows
  <2>4. QED BY <2>1, <2>3, Stays DEF DataTyped
<1>5. CASE WriteFound
  <2>1. cache' = Cached(What, found) /\ UNCHANGED <<value, insts, params, procParams, incomplete, sealed, found>>
    BY <1>5 DEF WriteFound, Finding, writeVar
  <2>2. CachesTyped'
    BY <2>1, Stays, CacheGrows
  <2>3. QED BY <2>1, <2>2, Stays DEF DataTyped
<1>6. CASE WritePlaceholder
  <2>1. /\ cache' = Cached(What, Frame.todo[1][3]) /\ found' = Frame.todo[1][3]
        /\ Frame.todo[1][1] = "write" /\ UNCHANGED <<value, insts, params, procParams, incomplete, sealed>>
    BY <1>6 DEF WritePlaceholder, Finding, writeVar, Due
  <2>2. Frame.todo[1][3] \in Ops(regs')
    BY <2>1, ReadingFacts DEF CallOK, Ops, Grows
  <2>3. CachesTyped'
    BY <2>1, <2>2, CacheGrows
  <2>4. QED BY <2>1, <2>2, <2>3, Stays DEF DataTyped
<1>7. CASE AddBlockArg
  <2>1. /\ params' = [params EXCEPT ![Frame.todo[1][4]] = Append(@, Frame.todo[1][3])]
        /\ Frame.todo[1][1] = "addArg"
        /\ UNCHANGED <<value, insts, procParams, cache, incomplete, sealed, found>>
    BY <1>7 DEF AddBlockArg, Finding, Due, ssaVars
  <2>2. Frame.todo[1][3] \in Regs(regs')
    BY <2>1, ReadingFacts DEF CallOK, Grows
  <2>3. ParamsTyped'
    BY <2>1, <2>2, ParamsTypedGrow DEF EmitterInv
  <2>4. QED BY <2>1, <2>3, Stays DEF DataTyped
<1>8. CASE Sealed
  <2>1. /\ incomplete' = [incomplete EXCEPT ![What] = <<>>] /\ sealed' = sealed \union {What}
        /\ Frame.todo[1][1] = "sealed" /\ UNCHANGED <<value, insts, params, procParams, cache, found>>
    BY <1>8 DEF Sealed, Finding, Due
  <2>2. What \in Live
    BY <2>1, ReadingFacts DEF CallOK, What
  <2>3. DOMAIN incomplete = Block /\ What \in Block
    BY <2>2, LiveInBlock DEF EmitterInv, ListsInv
  <2>4. SealedTyped'
    <3>1. ASSUME NEW b \in sealed' PROVE incomplete'[b] = <<>>
      <4>1. b = What \/ (b \in Block /\ incomplete[b] = <<>>)
        BY <2>1, <3>1, LiveInBlock DEF TypesInv, SealedTyped
      <4> HIDE DEF What
      <4>2. QED BY <2>1, <2>3, <4>1
    <3>2. sealed' \subseteq Live'
      BY <2>1, <2>2 DEF TypesInv, SealedTyped, Grows
    <3>3. QED BY <3>1, <3>2 DEF SealedTyped
  <2>5. ASSUME NEW b \in Block, NEW i \in 1..Len(incomplete'[b])
        PROVE  incomplete'[b][i][2] \in Regs(regs')
    <3>1. CASE b = What
      <4>1. Len(incomplete'[b]) = 0
        BY <2>1, <2>3, <3>1, EmptyFacts
      <4>2. QED BY <2>5, <4>1
    <3>2. CASE b # What
      BY <2>1, <2>3, <2>5, <3>2 DEF TypesInv, ParamsTyped, Grows
    <3>3. QED BY <3>1, <3>2
  <2>6. ParamsTyped'
    BY <2>1, <2>5 DEF TypesInv, ParamsTyped, Grows
  <2>7. QED BY <2>1, <2>4, <2>6, Stays DEF DataTyped
<1>9. CASE AnswerFound
  BY <1>9, Stays DEF DataTyped, AnswerFound, SameCode, SameNames, codeVars2, ssaVars
<1>10. QED BY <1>1, <1>2, <1>3, <1>4, <1>5, <1>6, <1>7, <1>8, <1>9 DEF ReadAction

LEMMA OneCallOK ==
  ASSUME NEW n, NEW L
  PROVE  /\ \A x : \A b \in Block : CallOK(<<"read", x, b>>, n, L)
         /\ \A x : CallOK(<<"write_found", x>>, n, L)
         /\ CallOK(<<"answer_found">>, n, L)
         /\ \A x, b : \A r \in Regs(n) : CallOK(<<"addArg", x, r, b>>, n, L)
         /\ \A x : \A r \in Regs(n) : CallOK(<<"write", x, r>>, n, L)
         /\ \A b \in L : CallOK(<<"sealed", b>>, n, L)
<1>1. ASSUME NEW x, NEW b \in Block PROVE CallOK(<<"read", x, b>>, n, L)
  BY DEF CallOK
<1>2. ASSUME NEW x PROVE CallOK(<<"write_found", x>>, n, L)
  BY DEF CallOK
<1>3. CallOK(<<"answer_found">>, n, L)
  BY DEF CallOK
<1>4. ASSUME NEW x, NEW b, NEW r \in Regs(n) PROVE CallOK(<<"addArg", x, r, b>>, n, L)
  BY DEF CallOK
<1>5. ASSUME NEW x, NEW r \in Regs(n) PROVE CallOK(<<"write", x, r>>, n, L)
  BY DEF CallOK
<1>6. ASSUME NEW b \in L PROVE CallOK(<<"sealed", b>>, n, L)
  BY DEF CallOK
<1>7. QED BY <1>1, <1>2, <1>3, <1>4, <1>5, <1>6

\* The predecessors in any order.
LEMMA OrderFacts ==
  ASSUME NEW b, NEW order \in SetToSeqs(PrevBlocks(b))
  PROVE  \E n \in Nat : DOMAIN order = 1..n /\ \A i \in 1..n : order[i][1] \in Block
<1> DEFINE S == PrevBlocks(b)
<1>1. Cardinality(S) \in Nat
  <2>1. IsFiniteSet(Block \X {1, 2})
    <3>1. {1, 2} = 1..2 /\ 1 \in Int /\ 2 \in Int
      OBVIOUS
    <3>2. IsFiniteSet({1, 2})
      BY <3>1, FS_Interval
    <3>3. IsFiniteSet(Block)
      BY EmitterAssumption
    <3>4. QED BY <3>2, <3>3, FS_Product
  <2>2. S \subseteq Block \X {1, 2}
    BY DEF PrevBlocks
  <2>3. QED BY <2>1, <2>2, FS_Subset, FS_CardinalityType
<1>2. \A c \in S : c[1] \in Block
  BY DEF PrevBlocks
<1> HIDE DEF S
<1>3. order \in [1..Cardinality(S) -> S]
  BY DEF SetToSeqs, S
<1>4. QED BY <1>1, <1>2, <1>3

\* Asking the predecessors for x.
Asked(x, order) == [i \in DOMAIN order |-> <<"read", x, order[i][1]>>]

LEMMA AskedFacts ==
  ASSUME NEW b, NEW order \in SetToSeqs(PrevBlocks(b)), NEW x
  PROVE  /\ IsSeq(Asked(x, order)) /\ Len(Asked(x, order)) \in Nat
         /\ \A j \in 1..Len(Asked(x, order)) :
              /\ Asked(x, order)[j][1] = "read"
              /\ \A n, L : CallOK(Asked(x, order)[j], n, L)
<1>1. PICK n \in Nat : DOMAIN order = 1..n /\ \A i \in 1..n : order[i][1] \in Block
  BY OrderFacts
<1> DEFINE r == Asked(x, order)
<1>2. \A i \in 1..n : r[i] = <<"read", x, order[i][1]>>
  BY <1>1 DEF Asked
<1>3. r = [i \in 1..n |-> r[i]]
  BY <1>1 DEF Asked
<1> HIDE DEF r
<1>4. IsSeq(r) /\ Len(r) = n
  BY <1>3, FunctionIsSeq
<1>5. ASSUME NEW j \in 1..n PROVE r[j][1] = "read" /\ \A m, L : CallOK(r[j], m, L)
  <2> DEFINE c == order[j][1]
  <2>1. r[j] = <<"read", x, c>> /\ c \in Block
    BY <1>1, <1>2
  <2>2. /\ <<"read", x, c>>[1] = "read"
        /\ \A m, L : CallOK(<<"read", x, c>>, m, L)
    BY <2>1 DEF CallOK
  <2> HIDE DEF c, r
  <2>3. QED BY <2>1, <2>2, Zenon
<1>6. QED BY <1>4, <1>5 DEF r

\* Completing block b.
Completing(b) ==
  [i \in DOMAIN incomplete[b] |-> <<"addArg", incomplete[b][i][1], incomplete[b][i][2], b>>] \o <<<<"sealed", b>>>>

LEMMA CompletingFacts ==
  ASSUME ListsInv, TypesInv, NEW b \in Block
  PROVE  LET n == Len(incomplete[b])
             r == Completing(b)
         IN  /\ IsSeq(r) /\ n \in Nat /\ Len(r) = n + 1
             /\ \A i \in 1..n : r[i] = <<"addArg", incomplete[b][i][1], incomplete[b][i][2], b>>
             /\ r[n + 1] = <<"sealed", b>>
<1> DEFINE n == Len(incomplete[b])
           q == [i \in DOMAIN incomplete[b] |-> <<"addArg", incomplete[b][i][1], incomplete[b][i][2], b>>]
           t == <<<<"sealed", b>>>>
<1>1. n \in Nat /\ DOMAIN incomplete[b] = 1..n
  BY SeqFacts DEF ListsInv
<1> HIDE DEF n
<1>2. /\ q = [i \in 1..n |-> q[i]]
      /\ \A i \in 1..n : q[i] = <<"addArg", incomplete[b][i][1], incomplete[b][i][2], b>>
  BY <1>1
<1> HIDE DEF q
<1>3. IsSeq(q) /\ Len(q) = n
  BY <1>1, <1>2, FunctionIsSeq
<1>4. IsSeq(t) /\ Len(t) = 1 /\ t[1] = <<"sealed", b>> /\ 1 \in 1..1
  BY DEF IsSeq
<1> HIDE DEF t
<1> DEFINE z == q \o t
<1>5. /\ IsSeq(z) /\ Len(z) = n + 1
      /\ \A i \in 1..n : z[i] = q[i]
      /\ z[n + 1] = t[1]
  <2>1. IsSeq(q) /\ IsSeq(t)
    BY <1>3, <1>4
  <2>2. /\ IsSeq(z) /\ Len(z) = Len(q) + Len(t)
        /\ \A i \in 1..Len(q) : z[i] = q[i]
        /\ \A i \in 1..Len(t) : z[Len(q) + i] = t[i]
    BY <2>1, ConcatFacts
  <2> HIDE DEF z
  <2>3. QED BY <1>3, <1>4, <2>2
<1>6. Completing(b) = z
  BY DEF Completing, q, t
<1> HIDE DEF z
<1>7. QED BY <1>1, <1>2, <1>4, <1>5, <1>6 DEF n

\* The frames after an operand was looked for.
LEMMA ReadFrames ==
  ASSUME EmitterInv, TypesInv, Grows, ReadAction
  PROVE  FramesTyped'
<1>1. FramesInv /\ ListsInv
  BY DEF EmitterInv
<1>2. IsSeq(Frame.todo) /\ Len(Frame.todo) # 0
  BY ReadingFacts
<1>3. ASSUME NEW r, IsSeq(r), \A j \in 1..Len(r) : CallOK(r[j], regs', Live'), ProceedWith(r)
      PROVE  FramesTyped'
  BY <1>1, <1>2, <1>3, ProceedWithFacts, FrontTyped
<1>4. CASE Proceed
  BY <1>1, <1>2, <1>4, ProceedFacts, FrontTyped, CallsOK
<1>5. CASE ReadSinglePred
  <2>1. PICK c \in PrevBlocks(ReadBlock) : ProceedWith(<<<<"read", ReadName, c[1]>>, <<"write_found", ReadName>>>>)
    BY <1>5 DEF ReadSinglePred
  <2> DEFINE x == <<"read", ReadName, c[1]>>
             y == <<"write_found", ReadName>>
             r == <<x, y>>
  <2>2. c[1] \in Block
    BY DEF PrevBlocks
  <2>3. CallOK(x, regs', Live') /\ CallOK(y, regs', Live')
    BY <2>2, OneCallOK
  <2> HIDE DEF x, y
  <2>4. IsSeq(r) /\ \A j \in 1..Len(r) : CallOK(r[j], regs', Live')
    BY <2>3, CallsOK
  <2>5. ProceedWith(r)
    BY <2>1 DEF x, y
  <2> HIDE DEF r
  <2>6. QED BY <1>3, <2>4, <2>5
<1>6. CASE ReadJoin
  <2> DEFINE x == <<"addArg", ReadName, NewValue, ReadBlock>>
             y == <<"write", ReadName, NewValue>>
             r == <<x, y>>
  <2>1. ProceedWith(r) /\ regs' = regs + 1
    BY <1>6 DEF ReadJoin
  <2>2. NewValue \in Regs(regs')
    BY <2>1, NextRegister DEF TypesInv
  <2>3. CallOK(x, regs', Live') /\ CallOK(y, regs', Live')
    <3> HIDE DEF NewValue, ReadName, ReadBlock
    <3>1. QED BY <2>2, OneCallOK
  <2> HIDE DEF x, y
  <2>4. IsSeq(r) /\ \A j \in 1..Len(r) : CallOK(r[j], regs', Live')
    BY <2>3, CallsOK
  <2> HIDE DEF r
  <2>5. QED BY <1>3, <2>1, <2>4
<1>7. CASE AddBlockArg
  <2> DEFINE x == Frame.todo[1][2]
             b == Frame.todo[1][4]
  <2>1. PICK order \in SetToSeqs(PrevBlocks(b)) : ProceedWith([i \in DOMAIN order |-> <<"read", x, order[i][1]>>])
    BY <1>7 DEF AddBlockArg
  <2>2. ProceedWith(Asked(x, order))
    BY <2>1 DEF Asked
  <2> HIDE DEF x, b
  <2>3. IsSeq(Asked(x, order)) /\ \A j \in 1..Len(Asked(x, order)) : CallOK(Asked(x, order)[j], regs', Live')
    BY AskedFacts
  <2>4. QED BY <1>3, <2>2, <2>3
<1>8. CASE ReadNowhere
  BY <1>8 DEF ReadNowhere, TypesInv, FramesTyped, Frame, Grows, CallOK
<1>9. CASE ~(ReadSinglePred \/ ReadJoin \/ AddBlockArg \/ ReadNowhere)
  <2>1. Proceed
    BY <1>9 DEF ReadAction, ReadHit, ReadUnsealed, WriteFound, WritePlaceholder, Sealed, AnswerFound
  <2>2. QED BY <1>4, <2>1
<1>10. QED BY <1>5, <1>6, <1>7, <1>8, <1>9

\* The frames when a search begins.
LEMMA StartFrames ==
  ASSUME EmitterInv, TypesInv, Grows, StartAction
  PROVE  FramesTyped'
<1>1. FramesInv /\ ListsInv /\ phase = "body" /\ current_block \in Block
  BY StartFacts, BodyFacts DEF EmitterInv
<1>2. IsSeq(Frame.todo) /\ Len(Frame.todo) # 0
  <2>1. Frame.todo # <<>> /\ Frame.todo[1][1] \notin ReadCalls
    BY DEF StartAction, ReadLocal, Seal, SealCurrent, Due, ReadCalls
  <2>2. QED BY <1>1, <2>1, NoReadsBefore, EmptyFacts
<1>3. ASSUME NEW r, IsSeq(r), \A j \in 1..Len(r) : CallOK(r[j], regs', Live'), ProceedWith(r)
      PROVE  FramesTyped'
  BY <1>1, <1>2, <1>3, ProceedWithFacts, FrontTyped
<1>4. CASE ReadLocal
  <2> DEFINE x == <<"read", Frame.node.name, current_block>>
             y == <<"answer_found">>
             r == <<x, y>>
  <2>1. ProceedWith(r)
    BY <1>4 DEF ReadLocal
  <2>2. CallOK(x, regs', Live') /\ CallOK(y, regs', Live')
    <3> HIDE DEF current_block
    <3>1. QED BY <1>1, OneCallOK
  <2> HIDE DEF x, y
  <2>3. IsSeq(r) /\ \A j \in 1..Len(r) : CallOK(r[j], regs', Live')
    BY <2>2, CallsOK
  <2> HIDE DEF r
  <2>4. QED BY <1>3, <2>1, <2>3
<1>5. ASSUME NEW b \in graph[proc], SealBlock(b)
      PROVE  FramesTyped'
  <2>1. b \in Block /\ b \in Live'
    BY <1>1, BodyFacts DEF Grows
  <2>2. ProceedWith(Completing(b))
    BY <1>5 DEF SealBlock, Completing
  <2> DEFINE n == Len(incomplete[b])
             r == Completing(b)
  <2>3. /\ IsSeq(r) /\ n \in Nat /\ Len(r) = n + 1
        /\ \A i \in 1..n : r[i] = <<"addArg", incomplete[b][i][1], incomplete[b][i][2], b>>
        /\ r[n + 1] = <<"sealed", b>>
    BY <1>1, <2>1, CompletingFacts
  <2>4. \A i \in 1..n : incomplete[b][i][2] \in Regs(regs')
    BY <2>1 DEF TypesInv, ParamsTyped, Grows
  <2> HIDE DEF n, r
  <2>5. ASSUME NEW j \in 1..Len(r) PROVE CallOK(r[j], regs', Live')
    <3>1. CASE j \in 1..n
      <4> DEFINE x == incomplete[b][j][1]
                 v == incomplete[b][j][2]
      <4>1. r[j] = <<"addArg", x, v, b>> /\ v \in Regs(regs')
        BY <2>3, <2>4, <3>1
      <4> HIDE DEF x, v
      <4>2. CallOK(<<"addArg", x, v, b>>, regs', Live')
        BY <4>1, OneCallOK
      <4>3. QED BY <4>1, <4>2, Zenon
    <3>2. CASE j = n + 1
      <4>1. CallOK(<<"sealed", b>>, regs', Live')
        BY <2>1, OneCallOK
      <4>2. r[j] = <<"sealed", b>>
        BY <2>3, <3>2
      <4>3. QED BY <4>1, <4>2, Zenon
    <3>3. QED BY <2>3, <3>1, <3>2
  <2>6. ProceedWith(r)
    BY <2>2 DEF r
  <2>7. QED BY <1>3, <2>3, <2>5, <2>6
<1>6. CASE Seal
  <2>1. Slot(What) \in graph[proc] /\ SealBlock(Slot(What))
    BY <1>6, SlotFacts DEF Seal, Due, SlotCalls
  <2>2. QED BY <1>5, <2>1
<1>7. CASE SealCurrent
  <2>1. current_block \in graph[proc] /\ SealBlock(current_block)
    BY <1>1, <1>7, BodyFacts DEF SealCurrent
  <2>2. QED BY <1>5, <2>1
<1>8. QED BY <1>4, <1>6, <1>7 DEF StartAction

---------------------------------------------------------------------------
(* The types are kept.                                                     *)

LEMMA TypesStep == EmitterInv /\ TypesInv /\ [EmitterNext]_allVars => TypesInv'
<1> SUFFICES ASSUME EmitterInv, TypesInv, [EmitterNext]_allVars PROVE TypesInv'
  OBVIOUS
<1>1. CASE UNCHANGED allVars
  <2>1. UNCHANGED <<frames, value, insts, params, procParams, regs, cache, incomplete, sealed, found, graph, phase>>
    BY <1>1 DEF allVars, emitterVars, codeVars2, ssaVars, protocolVars, vars
  <2>2. Live' = Live /\ Frame' = Frame
    BY <2>1 DEF Live, Frame
  <2>3. FramesTyped'
    BY <2>1, <2>2 DEF TypesInv, FramesTyped
  <2>4. CodeTyped'
    BY <2>1, <2>2 DEF TypesInv, CodeTyped
  <2>5. ParamsTyped' /\ CachesTyped'
    BY <2>1 DEF TypesInv, ParamsTyped, CachesTyped
  <2>6. SealedTyped'
    BY <2>1, <2>2 DEF TypesInv, SealedTyped
  <2>7. QED BY <2>1, <2>2, <2>3, <2>4, <2>5, <2>6 DEF TypesInv
<1>2. CASE EmitterNext
  <2>1. FramesInv' /\ Grows /\ (phase' = "no code" => Live' = {})
    BY <1>2, EmitterStep, GrowsAlways, LiveGrows DEF EmitterInv
  <2>2. ASSUME Silent PROVE FramesTyped'
    BY <2>1, <2>2, SilentFrames
  <2>3. CASE ReadAction
    BY <2>1, <2>3, ReadTypes, ReadFrames DEF DataTyped, TypesInv, Grows
  <2>4. CASE StartAction
    <3>1. DataTyped'
      BY <2>1, <2>4, StartFacts, Stays DEF DataTyped
    <3>2. QED BY <2>1, <2>4, <3>1, StartFrames DEF DataTyped, TypesInv, Grows
  <2>5. CASE SimpleAction
    <3>1. DataTyped'
      <4>1. QuietAction \/ CodeAction \/ AssignLocal \/ DeclareLocal \/ AddArg \/ FunctionParam
        BY <2>5 DEF SimpleAction, QuietAction, CodeAction
      <4>2. QED BY <2>1, <4>1, QuietTypes, CodeTypes, WriteTypes, ArgTypes, FunctionParamTypes
    <3>2. FramesTyped'
      BY <2>2, <2>5, SimpleIsSilent DEF EmitterInv
    <3>3. QED BY <2>1, <3>1, <3>2 DEF DataTyped, TypesInv, Grows
  <2>6. CASE VisitAction
    <3>1. DataTyped'
      BY <2>1, <2>6, QuietTypes DEF QuietAction
    <3>2. FramesTyped'
      BY <2>1, <2>2, <2>6, VisitIsSilent
    <3>3. QED BY <2>1, <3>1, <3>2 DEF DataTyped, TypesInv, Grows
  <2>7. QED BY <1>2, <2>3, <2>4, <2>5, <2>6, Grouped
<1>3. QED BY <1>1, <1>2

LEMMA TypesStart == EmitterInit => TypesInv
<1> SUFFICES ASSUME EmitterInit PROVE TypesInv
  OBVIOUS
<1>1. EmitterInv
  BY EmitterStart
<1>2. regs = 0 /\ value = NoArg /\ found = NoArg
  BY DEF EmitterInit
<1>3. NoArg \in Ops(0) /\ 0 \in Nat
  BY DEF Ops
<1>4. IsSeq(<<>>) /\ Len(<<>>) = 0 /\ \A i \in 1..0 : FALSE
  BY EmptyFacts
<1>5. CodeTyped /\ ParamsTyped /\ CachesTyped /\ SealedTyped
  <2>1. CodeTyped
    BY <1>4 DEF EmitterInit, CodeTyped
  <2>2. ParamsTyped
    BY <1>4 DEF EmitterInit, ParamsTyped
  <2>3. CachesTyped
    BY DEF EmitterInit, CachesTyped, NoCache
  <2>4. SealedTyped
    BY DEF EmitterInit, SealedTyped
  <2>5. QED BY <2>1, <2>2, <2>3, <2>4
<1>6. FramesTyped
  <2> DEFINE f == [node |-> program, todo |-> Unit(program.order), slots |-> NoSlots, kept |-> NoArg]
  <2>1. frames = <<f>> /\ f.kept = NoArg
    BY DEF EmitterInit
  <2> HIDE DEF f
  <2>2. Len(frames) = 1 /\ frames[1] = f /\ \A i \in 1..1 : i = 1
    BY <2>1
  <2>3. UnitOK(program, Frame, phase)
    BY <1>1, <2>2, FrameFacts DEF EmitterInv
  <2>4. NoReads(Frame.todo)
    BY <2>3, ScriptHasNoReads DEF UnitOK
  <2>5. \A j \in 1..Len(Frame.todo) : CallOK(Frame.todo[j], regs, Live)
    BY <2>4 DEF NoReads, ReadCalls, CallOK
  <2>6. QED BY <1>2, <1>3, <2>1, <2>2, <2>5 DEF FramesTyped
<1>7. Live = {}
  BY DEF EmitterInit, ProtocolInit, Init, Live
<1>8. QED BY <1>2, <1>3, <1>5, <1>6, <1>7 DEF TypesInv

\* The emitter's state keeps its shape.
LEMMA TypesHold == EmitterInv /\ TypesInv => EmitterTypeOK
<1> SUFFICES ASSUME EmitterInv, TypesInv PROVE EmitterTypeOK
  OBVIOUS
<1>1. ProtocolTypeOK /\ ListsInv /\ FramesInv
  BY DEF EmitterInv, ProtocolInv
<1>2. \A b \in Block : DOMAIN params[b] = 1..Len(params[b]) /\ DOMAIN insts[b] = 1..Len(insts[b])
  BY <1>1, SeqFacts DEF ListsInv, TypesInv, CodeTyped
<1>3. /\ \A b \in Block : \A i \in DOMAIN params[b] : params[b][i] \in Regs(regs)
      /\ \A b \in Block : insts[b] # <<>> => b \in Live
      /\ \A b \in Block : \A i \in DOMAIN insts[b] : insts[b][i].v \in Ops(regs)
  BY <1>2 DEF TypesInv, ParamsTyped, CodeTyped
<1>4. ASSUME NEW i \in DOMAIN cfds
      PROVE  {cfds[i].cond, cfds[i].cont} \subseteq Live
  <2>1. IsSeq(cfds) /\ \A k \in 1..Len(cfds) : \A x \in {"cond", "cont"} : cfds[k][x] \in graph[proc]
    BY DEF EmitterInv, LoopsInv
  <2>2. i \in 1..Len(cfds)
    BY <2>1, SeqFacts
  <2>3. cfds[i].cond \in graph[proc] /\ cfds[i].cont \in graph[proc]
    BY <2>1, <2>2
  <2>4. Len(frames) # 1
    <3>1. PICK ctx, sv, lp :
            StackOK(program, frames, phase, Len(saves), Len(cfds), graph[proc], WithParams, ctx, sv, lp)
      BY <1>1 DEF FramesInv
    <3>2. Len(frames) = 1 => Len(cfds) = 0
      BY <3>1 DEF StackOK, Looped, Blank, Ctx
    <3>3. Len(cfds) # 0
      BY <2>1, <2>2, SeqFacts
    <3>4. QED BY <3>2, <3>3
  <2>5. phase = "body"
    BY <1>1, <2>4, FrameFacts
  <2>6. QED BY <2>3, <2>5, BodyFacts
<1>5. QED BY <1>1, <1>3, <1>4 DEF EmitterTypeOK, TypesInv, CachesTyped, SealedTyped, Regs, Ops

\* In every run of the emitter on any programs its state keeps its shape:
\* what it makes, keeps and caches are constants and registers handed out.
THEOREM EmitterTypes == EmitterSpec => []EmitterTypeOK
<1>1. EmitterInit => EmitterInv /\ TypesInv
  BY EmitterStart, TypesStart
<1>2. EmitterInv /\ TypesInv /\ [EmitterNext]_allVars => EmitterInv' /\ TypesInv'
  BY EmitterStep, TypesStep
<1>3. QED BY <1>1, <1>2, TypesHold, PTL DEF EmitterSpec
=============================================================================
