---------------------------- MODULE AnySequences ----------------------------
(***************************************************************************)
(* Facts about sequences whose elements have no common type: frames, calls *)
(* and nodes of syntax trees.  The proofs about the interpreter and about  *)
(* the emitter rest on them.                                               *)
(***************************************************************************)
EXTENDS Integers, Sequences, SequenceTheorems, TLAPS

IsSeq(s) == s \in Seq({s[i] : i \in DOMAIN s})

\* The positions of a sequence.
LEMMA SeqFacts ==
  ASSUME NEW s, IsSeq(s)
  PROVE  Len(s) \in Nat /\ DOMAIN s = 1..Len(s)
  BY LenProperties DEF IsSeq

\* A function on 1..n is a sequence of length n.
LEMMA FunctionIsSeq ==
  ASSUME NEW s, NEW n \in Nat, s = [i \in 1..n |-> s[i]]
  PROVE  IsSeq(s) /\ Len(s) = n
<1> DEFINE R == {s[i] : i \in DOMAIN s}
<1>1. DOMAIN s = 1..n
  OBVIOUS
<1>2. s \in [1..n -> R]
  BY <1>1
<1> HIDE DEF R
<1>3. \E k \in Nat : s \in [1..k -> R]
  BY <1>2
<1>4. s \in Seq(R)
  BY <1>3, SeqDef, Zenon
<1>5. Len(s) = n
  BY <1>1, <1>4, LenProperties
<1>6. QED BY <1>4, <1>5 DEF IsSeq, R

\* A sequence over any set is one.
LEMMA TypedIsSeq ==
  ASSUME NEW S, NEW s \in Seq(S)
  PROVE  IsSeq(s)
<1>1. Len(s) \in Nat /\ s = [i \in 1..Len(s) |-> s[i]]
  BY LenProperties
<1>2. QED BY <1>1, FunctionIsSeq

\* A sequence with one more element at its end.
LEMMA AppendFacts ==
  ASSUME NEW s, IsSeq(s), NEW x
  PROVE  LET r == Append(s, x) IN
         /\ IsSeq(r) /\ Len(r) = Len(s) + 1 /\ r[Len(s) + 1] = x
         /\ \A i \in 1..Len(s) : r[i] = s[i]
<1> DEFINE R == {s[i] : i \in DOMAIN s}
           r == Append(s, x)
<1>1. s \in Seq(R \cup {x}) /\ x \in R \cup {x}
  BY SeqMonotonic DEF IsSeq
<1>2. /\ r \in Seq(R \cup {x}) /\ Len(r) = Len(s) + 1
      /\ \A i \in 1..Len(s) : r[i] = s[i]
      /\ r[Len(s) + 1] = x
  BY <1>1, AppendProperties
<1> HIDE DEF r
<1>3. DOMAIN r = 1..Len(r) /\ Len(r) \in Nat /\ r = [i \in 1..Len(r) |-> r[i]]
  BY <1>2, LenProperties
<1>4. IsSeq(r)
  BY <1>3, FunctionIsSeq
<1>5. QED BY <1>2, <1>4 DEF r

\* All but the last.
LEMMA FrontFacts ==
  ASSUME NEW s, IsSeq(s), Len(s) # 0
  PROVE  LET r == SubSeq(s, 1, Len(s) - 1) IN
         /\ IsSeq(r) /\ Len(r) = Len(s) - 1
         /\ \A i \in 1..(Len(s) - 1) : r[i] = s[i]
<1> DEFINE R == {s[i] : i \in DOMAIN s}
           m == Len(s) - 1
           r == SubSeq(s, 1, m)
<1>1. Len(s) \in Nat /\ DOMAIN s = 1..Len(s)
  BY SeqFacts
<1>2. m \in Nat /\ m \in Int /\ 1 <= m + 1 /\ m - 1 + 1 = m /\ 1 \in Int
      /\ \A i \in 1..m : i \in 1..Len(s) /\ 1 + i - 1 = i
  BY <1>1
<1>3. \A i \in 1..m : s[i] \in R
  BY <1>1, <1>2
<1> HIDE DEF m, R
<1>4. /\ r \in Seq(R) /\ Len(r) = m
      /\ \A i \in 1..m : r[i] = s[1 + i - 1]
  BY <1>2, <1>3, SubSeqProperties
<1> HIDE DEF r
<1>5. DOMAIN r = 1..Len(r) /\ r = [i \in 1..m |-> r[i]]
  BY <1>4, LenProperties
<1>6. IsSeq(r)
  BY <1>2, <1>5, FunctionIsSeq
<1>7. QED BY <1>2, <1>4, <1>6 DEF r, m

\* All but the first.
LEMMA TailFacts ==
  ASSUME NEW s, IsSeq(s), Len(s) # 0
  PROVE  LET r == Tail(s) IN
         /\ IsSeq(r) /\ Len(r) = Len(s) - 1
         /\ \A i \in 1..(Len(s) - 1) : r[i] = s[i + 1]
<1> DEFINE R == {s[i] : i \in DOMAIN s}
           r == Tail(s)
<1>1. s \in Seq(R) /\ Len(s) \in Nat /\ s # <<>>
  BY SeqFacts, EmptySeq DEF IsSeq
<1> HIDE DEF R
<1>2. /\ r \in Seq(R) /\ Len(r) = Len(s) - 1
      /\ \A i \in 1..Len(r) : r[i] = s[i + 1]
  BY <1>1, HeadTailProperties
<1> HIDE DEF r
<1>3. r = [i \in 1..Len(r) |-> r[i]] /\ Len(r) \in Nat
  BY <1>2, LenProperties
<1>4. IsSeq(r)
  BY <1>3, FunctionIsSeq
<1>5. QED BY <1>2, <1>4 DEF r

\* One sequence after another.
LEMMA ConcatFacts ==
  ASSUME NEW s, IsSeq(s), NEW t, IsSeq(t)
  PROVE  LET r == s \o t IN
         /\ IsSeq(r) /\ Len(r) = Len(s) + Len(t)
         /\ \A i \in 1..Len(s) : r[i] = s[i]
         /\ \A i \in 1..Len(t) : r[Len(s) + i] = t[i]
<1> DEFINE R == {s[i] : i \in DOMAIN s} \cup {t[i] : i \in DOMAIN t}
           r == s \o t
<1>1. s \in Seq(R) /\ t \in Seq(R)
  BY SeqMonotonic DEF IsSeq
<1> HIDE DEF R
<1>2. /\ r \in Seq(R) /\ Len(r) = Len(s) + Len(t)
      /\ \A i \in 1..(Len(s) + Len(t)) : r[i] = IF i <= Len(s) THEN s[i] ELSE t[i - Len(s)]
  BY <1>1, ConcatProperties
<1>3. Len(s) \in Nat /\ Len(t) \in Nat
  BY SeqFacts
<1> HIDE DEF r
<1>4. r = [i \in 1..Len(r) |-> r[i]] /\ Len(r) \in Nat
  BY <1>2, LenProperties
<1>5. IsSeq(r)
  BY <1>4, FunctionIsSeq
<1>6. \A i \in 1..Len(s) : r[i] = s[i]
  BY <1>2, <1>3
<1>7. \A i \in 1..Len(t) : r[Len(s) + i] = t[i]
  <2> SUFFICES ASSUME NEW i \in 1..Len(t) PROVE r[Len(s) + i] = t[i]
    OBVIOUS
  <2>1. Len(s) + i \in 1..(Len(s) + Len(t)) /\ ~(Len(s) + i <= Len(s)) /\ Len(s) + i - Len(s) = i
    BY <1>3
  <2>2. QED BY <1>2, <2>1
<1>8. QED BY <1>2, <1>5, <1>6, <1>7 DEF r

\* The empty sequence, and the only one without elements.
LEMMA EmptyFacts ==
  /\ IsSeq(<<>>) /\ Len(<<>>) = 0
  /\ \A s : IsSeq(s) => (s = <<>> <=> Len(s) = 0)
<1>1. <<>> \in Seq({<<>>[i] : i \in DOMAIN <<>>})
  BY EmptySeq
<1>2. QED BY <1>1, EmptySeq DEF IsSeq
\* Sequences with the same elements are the same.
LEMMA SameSeq ==
  ASSUME NEW s, IsSeq(s), NEW t, IsSeq(t), Len(s) = Len(t), \A i \in 1..Len(s) : s[i] = t[i]
  PROVE  s = t
<1> DEFINE R == {s[i] : i \in DOMAIN s} \cup {t[i] : i \in DOMAIN t}
<1>1. s \in Seq(R) /\ t \in Seq(R)
  BY SeqMonotonic DEF IsSeq
<1> HIDE DEF R
<1>2. QED BY <1>1, SeqEqual

\* A sequence of one element.
LEMMA OneFacts ==
  ASSUME NEW x
  PROVE  IsSeq(<<x>>) /\ Len(<<x>>) = 1 /\ <<x>>[1] = x
<1> DEFINE e == <<x>>
<1>1. e = [i \in 1..1 |-> e[i]] /\ e[1] = x
  OBVIOUS
<1> HIDE DEF e
<1>2. IsSeq(e) /\ Len(e) = 1
  BY <1>1, FunctionIsSeq
<1>3. QED BY <1>1, <1>2 DEF e

\* One element before a sequence.
LEMMA ConsFacts ==
  ASSUME NEW x, NEW s, IsSeq(s)
  PROVE  LET r == <<x>> \o s IN
         /\ IsSeq(r) /\ Len(r) = Len(s) + 1 /\ r # <<>> /\ r[1] = x
         /\ Tail(r) = s
         /\ \A i \in 1..Len(s) : r[i + 1] = s[i]
<1> DEFINE e == <<x>>
           r == e \o s
<1>1. IsSeq(e) /\ Len(e) = 1 /\ e[1] = x
  BY OneFacts
<1>0. IsSeq(e)
  BY <1>1
<1> HIDE DEF e
<1>2. /\ IsSeq(r) /\ Len(r) = Len(e) + Len(s)
      /\ \A i \in 1..Len(e) : r[i] = e[i]
      /\ \A i \in 1..Len(s) : r[Len(e) + i] = s[i]
  BY <1>0, ConcatFacts
<1> HIDE DEF r
<1>3. Len(s) \in Nat /\ 1 \in 1..1 /\ 1 + Len(s) = Len(s) + 1
  BY SeqFacts
<1>4. Len(r) = Len(s) + 1 /\ r[1] = x
  BY <1>1, <1>2, <1>3
<1>5. Len(r) # 0 /\ r # <<>>
  BY <1>2, <1>3, <1>4, EmptyFacts
<1>6. \A i \in 1..Len(s) : r[i + 1] = s[i]
  <2> SUFFICES ASSUME NEW i \in 1..Len(s) PROVE r[i + 1] = s[i]
    OBVIOUS
  <2>1. 1 + i = i + 1
    OBVIOUS
  <2>2. QED BY <1>1, <1>2, <2>1
<1>7. Tail(r) = s
  <2> DEFINE t == Tail(r)
  <2>1. /\ IsSeq(t) /\ Len(t) = Len(r) - 1
        /\ \A i \in 1..(Len(r) - 1) : t[i] = r[i + 1]
    BY <1>2, <1>5, TailFacts
  <2> HIDE DEF t
  <2>2. Len(r) - 1 = Len(s)
    BY <1>3, <1>4
  <2>3. t = s
    BY <1>6, <2>1, <2>2, SameSeq
  <2>4. QED BY <2>3 DEF t
<1>8. QED BY <1>2, <1>4, <1>5, <1>6, <1>7 DEF r, e

\* Nothing before a sequence.
LEMMA NoneBefore ==
  ASSUME NEW s, IsSeq(s)
  PROVE  <<>> \o s = s
<1> DEFINE R == {s[i] : i \in DOMAIN s}
<1>1. s \in Seq(R)
  BY DEF IsSeq
<1> HIDE DEF R
<1>2. QED BY <1>1, ConcatEmptySeq

\* Nothing after a sequence.
LEMMA NoneAfter ==
  ASSUME NEW s, IsSeq(s)
  PROVE  s \o <<>> = s
<1> DEFINE t == s \o <<>>
<1>1. IsSeq(<<>>) /\ Len(<<>>) = 0
  BY EmptyFacts
<1>2. IsSeq(t) /\ Len(t) = Len(s) + 0 /\ \A i \in 1..Len(s) : t[i] = s[i]
  BY <1>1, ConcatFacts
<1>3. Len(s) \in Nat
  BY SeqFacts
<1> HIDE DEF t
<1>4. s = t
  BY <1>2, <1>3, SameSeq
<1>5. QED BY <1>4 DEF t

\* Three sequences after each other.
LEMMA ConcatAssoc ==
  ASSUME NEW s, IsSeq(s), NEW t, IsSeq(t), NEW u, IsSeq(u)
  PROVE  (s \o t) \o u = s \o (t \o u)
<1> DEFINE R == {s[i] : i \in DOMAIN s} \cup {t[i] : i \in DOMAIN t} \cup {u[i] : i \in DOMAIN u}
<1>1. s \in Seq(R) /\ t \in Seq(R) /\ u \in Seq(R)
  BY SeqMonotonic DEF IsSeq
<1> HIDE DEF R
<1>2. QED BY <1>1, ConcatAssociative

\* What follows the first m elements.
LEMMA RestFacts ==
  ASSUME NEW s, IsSeq(s), NEW t, IsSeq(t), NEW m \in Nat, Len(s) = m + Len(t),
         \A i \in 1..Len(t) : s[m + i] = t[i]
  PROVE  SubSeq(s, m + 1, Len(s)) = t
<1> DEFINE R == {s[i] : i \in DOMAIN s}
           l == Len(s)
           r == SubSeq(s, m + 1, l)
<1>1. s \in Seq(R) /\ DOMAIN s = 1..l /\ l \in Nat /\ Len(t) \in Nat
  BY SeqFacts DEF IsSeq
<1>2. \A i \in (m + 1)..l : i \in 1..l
  BY <1>1
<1>3. \A i \in (m + 1)..l : s[i] \in R
  BY <1>1, <1>2
<1> HIDE DEF R
<1>4. m + 1 \in Int /\ l \in Int /\ m + 1 <= l + 1 /\ l - (m + 1) + 1 = Len(t)
  BY <1>1 DEF l
<1> HIDE DEF l
<1>5. /\ r \in Seq(R) /\ Len(r) = l - (m + 1) + 1
      /\ \A i \in 1..(l - (m + 1) + 1) : r[i] = s[m + 1 + i - 1]
  BY <1>3, <1>4, SubSeqProperties
<1> HIDE DEF r
<1>6. IsSeq(r) /\ Len(r) = Len(t)
  BY <1>4, <1>5, TypedIsSeq
<1>7. \A i \in 1..Len(t) : r[i] = t[i]
  <2> SUFFICES ASSUME NEW i \in 1..Len(t) PROVE r[i] = t[i]
    OBVIOUS
  <2>1. m + 1 + i - 1 = m + i
    OBVIOUS
  <2>2. QED BY <1>4, <1>5, <2>1
<1>8. r = t
  BY <1>6, <1>7, SameSeq
<1>9. QED BY <1>8 DEF r, l

\* Two elements, one after the other.
LEMMA TwoFacts ==
  ASSUME NEW x, NEW y
  PROVE  <<x>> \o <<y>> = <<x, y>>
<1> DEFINE e == <<y>>
           t == <<x>> \o e
           q == <<x, y>>
<1>1. IsSeq(e) /\ Len(e) = 1 /\ e[1] = y
  BY OneFacts
<1>2. q = [i \in 1..2 |-> q[i]] /\ q[1] = x /\ q[2] = y
  OBVIOUS
<1> HIDE DEF e, q
<1>3. IsSeq(q) /\ Len(q) = 2
  BY <1>2, FunctionIsSeq
<1>4. IsSeq(t) /\ Len(t) = Len(e) + 1 /\ t[1] = x /\ \A i \in 1..Len(e) : t[i + 1] = e[i]
  BY <1>1, ConsFacts
<1> HIDE DEF t
<1>5. Len(t) = 2 /\ t[2] = y
  <2>1. 1 \in 1..Len(e) /\ 1 + 1 = 2
    BY <1>1
  <2>2. QED BY <1>1, <1>4, <2>1
<1>6. \A i \in 1..Len(t) : t[i] = q[i]
  <2>1. \A i \in 1..Len(t) : i = 1 \/ i = 2
    BY <1>5
  <2>2. QED BY <1>2, <1>4, <1>5, <2>1
<1>7. t = q
  BY <1>3, <1>4, <1>5, <1>6, SameSeq
<1>8. QED BY <1>7 DEF e, q, t
=============================================================================
