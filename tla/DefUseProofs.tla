---------------------------- MODULE DefUseProofs ----------------------------
(***************************************************************************)
(* Proofs about the definition-use index, for any number of instructions,  *)
(* symbols and operands: the entries of definitions follow the code, and   *)
(* parameters stay parameters.  A load's operand cannot be rewritten (its  *)
(* target is written instead), so the first holds without loads only.      *)
(***************************************************************************)
EXTENDS DefUse, SequenceTheorems, TLAPS

\* c has the fields of an instruction and no others.
Whole(c) == c = [kind |-> c.kind, assigned |-> c.assigned, args |-> c.args]

\* What an entry says of its symbol, whatever the symbol's kind.
EntryOK(s) ==
  /\ define_list[s].type \in {"block", "block_param", "func_param"}
  /\ define_list[s].type = "block" =>
       define_list[s].inst \in tracked /\ code[define_list[s].inst].assigned = s
  /\ define_list[s].type # "block" => define_list[s].inst = NoInst

\* The inductive invariant of the definitions.
DefinesInv ==
  /\ DOMAIN define_list \subseteq taken \cap Symbol
  /\ tracked \subseteq DOMAIN code /\ DOMAIN code \subseteq Inst
  /\ \A i \in DOMAIN code :
       /\ code[i].kind \in Kinds
       /\ Whole(code[i])
  /\ \A s \in DOMAIN define_list : EntryOK(s)

\* The inductive invariant of the parameters: no instruction assigns one.
ParamsInv ==
  /\ params \in Seq(Symbol)
  /\ DefinesInv
  /\ ParamsTracked
  /\ \A i \in tracked :
       code[i].assigned \in (taken \cup {NoSymbol}) \ ToSet(params)

\* What an instruction assigns is not among the operands that are rewritten.
LEMMA RewrittenFacts ==
  ASSUME "load" \notin Kinds, DefinesInv, NEW val, NEW nVal
  PROVE  /\ DOMAIN Rewritten(val, nVal) = DOMAIN code
         /\ \A i \in DOMAIN code :
              LET c == Rewritten(val, nVal)[i] IN
              /\ c.kind = code[i].kind /\ c.assigned = code[i].assigned
              /\ Whole(c)
<1>1. DOMAIN Rewritten(val, nVal) = DOMAIN code
  BY DEF Rewritten
<1>2. ASSUME NEW i \in DOMAIN code
      PROVE  LET c == Rewritten(val, nVal)[i] IN
             /\ c.kind = code[i].kind /\ c.assigned = code[i].assigned
             /\ Whole(c)
  <2> DEFINE c == Rewritten(val, nVal)[i]
             args == [k \in DOMAIN code[i].args |->
                        IF k \in UsedAt(val, i) THEN nVal ELSE code[i].args[k]]
  <2>1. /\ code[i].kind # "load"
        /\ Whole(code[i])
    BY DEF DefinesInv
  <2>2. c = [code[i] EXCEPT !.args = args]
    BY <2>1 DEF Rewritten, set_arg_at
  <2> HIDE DEF c, args
  <2>3. c = [kind |-> code[i].kind, assigned |-> code[i].assigned, args |-> args]
    BY <2>1, <2>2  DEF Whole
  <2>4. /\ c.kind = code[i].kind /\ c.assigned = code[i].assigned
        /\ Whole(c)
    BY <2>3 DEF Whole
  <2>5. QED BY <2>4 DEF c
<1>3. QED BY <1>1, <1>2

---------------------------------------------------------------------------
(* Definitions.                                                            *)

\* An entry that is kept, at an instruction that keeps what it assigns.
LEMMA EntryKept ==
  ASSUME DefinesInv, tracked \subseteq tracked',
         \A i \in tracked : code'[i].assigned = code[i].assigned,
         NEW s \in DOMAIN define_list, define_list'[s] = define_list[s]
  PROVE  EntryOK(s)'
<1>1. EntryOK(s)
  BY DEF DefinesInv
<1>2. QED BY <1>1 DEF EntryOK

\* A renaming gives one instruction at most a new symbol to assign.
LEMMA RenamedFacts ==
  ASSUME "load" \notin Kinds, DefinesInv,
         NEW val \in DOMAIN define_list, NEW nVal \in Nameable, val # nVal
  PROVE  LET cd == Renamed(val, nVal) IN
         /\ DOMAIN cd = DOMAIN code
         /\ \A j \in DOMAIN code :
              /\ cd[j].kind = code[j].kind
              /\ cd[j].args = Rewritten(val, nVal)[j].args
              /\ \/ cd[j].assigned = code[j].assigned
                 \/ code[j].assigned = val /\ cd[j].assigned = nVal /\ nVal \in Symbol \ taken
              /\ Whole(cd[j])
         /\ nVal \notin DOMAIN define_list \cup Im /\ define_list[val].inst # NoInst =>
              cd[define_list[val].inst].assigned = nVal
<1> DEFINE rw == Rewritten(val, nVal)
           cd == Renamed(val, nVal)
           i == define_list[val].inst
<1>1. /\ DOMAIN rw = DOMAIN code
      /\ \A j \in DOMAIN code :
           /\ rw[j].kind = code[j].kind /\ rw[j].assigned = code[j].assigned
           /\ Whole(rw[j])
  BY RewrittenFacts
<1>2. CASE nVal \in DOMAIN define_list \cup Im \/ i = NoInst
  <2>1. cd = rw
    BY <1>2 DEF Renamed
  <2> HIDE DEF rw, cd
  <2>2. QED BY <1>1, <1>2, <2>1 DEF cd, rw
<1>3. CASE nVal \notin DOMAIN define_list \cup Im /\ i # NoInst
  <2>1. nVal \in Symbol \ taken
    BY <1>3 DEF Nameable
  <2>2. i \in DOMAIN code /\ code[i].assigned = val
    BY <1>3 DEF DefinesInv, EntryOK
  <2>3. cd = [rw EXCEPT ![i].assigned = nVal]
    BY <1>3 DEF Renamed
  <2> HIDE DEF rw, cd, i
  <2>4. /\ DOMAIN cd = DOMAIN rw
        /\ cd[i] = [rw[i] EXCEPT !.assigned = nVal]
        /\ \A j \in DOMAIN rw : j # i => cd[j] = rw[j]
    BY <1>1, <2>2, <2>3
  <2>5. cd[i] = [kind |-> rw[i].kind, assigned |-> nVal, args |-> rw[i].args]
    BY <1>1, <2>2, <2>4 DEF Whole
  <2>6. /\ cd[i].kind = code[i].kind /\ cd[i].args = rw[i].args /\ cd[i].assigned = nVal
        /\ Whole(cd[i])
    BY <1>1, <2>2, <2>5 DEF Whole
  <2>7. /\ DOMAIN cd = DOMAIN code
        /\ \A j \in DOMAIN code :
             /\ cd[j].kind = code[j].kind
             /\ cd[j].args = rw[j].args
             /\ \/ cd[j].assigned = code[j].assigned
                \/ code[j].assigned = val /\ cd[j].assigned = nVal /\ nVal \in Symbol \ taken
             /\ Whole(cd[j])
    BY <1>1, <2>1, <2>2, <2>4, <2>6
  <2>8. QED BY <2>6, <2>7 DEF cd, rw, i
<1>4. QED BY <1>2, <1>3

\* A renaming moves one entry and keeps the others.
LEMMA MovedFacts ==
  ASSUME DefinesInv, NEW val \in DOMAIN define_list, NEW nVal \in Nameable, val # nVal
  PROVE  LET defs == MovedDefinition(val, nVal) IN
         /\ DOMAIN defs = (DOMAIN define_list \ {val}) \cup ({nVal} \ Im)
         /\ \A s \in DOMAIN define_list \ {val} : defs[s] = define_list[s]
         /\ nVal \notin DOMAIN define_list \cup Im => defs[nVal] = define_list[val]
<1>1. DOMAIN define_list \cap Im = {}
  BY DefUseAssumption DEF DefinesInv
<1>2. CASE nVal \in DOMAIN define_list \cup Im
  BY <1>1, <1>2 DEF MovedDefinition, Without
<1>3. CASE nVal \notin DOMAIN define_list \cup Im
  BY <1>1, <1>3 DEF MovedDefinition, Without, With
<1>4. QED BY <1>2, <1>3

\* Whatever else a step does to the instructions that take part in a renaming,
\* the definitions stay exact if what is assigned is renamed as it should be.
LEMMA RenamedDefines ==
  ASSUME DefinesInv, NEW val \in DOMAIN define_list, NEW nVal \in Nameable, val # nVal,
         tracked' = tracked, taken' = taken \cup ({nVal} \cap Symbol),
         define_list' = MovedDefinition(val, nVal),
         DOMAIN code' = DOMAIN code,
         \A j \in DOMAIN code :
           /\ code'[j].kind = code[j].kind
           /\ code[j].assigned # val => code'[j].assigned = code[j].assigned
           /\ Whole(code'[j]),
         nVal \notin DOMAIN define_list \cup Im /\ define_list[val].inst # NoInst =>
           code'[define_list[val].inst].assigned = nVal
  PROVE  DefinesInv'
<1>1. /\ DOMAIN define_list' = (DOMAIN define_list \ {val}) \cup ({nVal} \ Im)
      /\ \A s \in DOMAIN define_list \ {val} : define_list'[s] = define_list[s]
      /\ nVal \notin DOMAIN define_list \cup Im => define_list'[nVal] = define_list[val]
  BY MovedFacts
<1>2. ASSUME NEW s \in DOMAIN define_list \ {val} PROVE EntryOK(s)'
  <2>1. EntryOK(s) /\ define_list'[s] = define_list[s]
    BY <1>1 DEF DefinesInv
  <2>2. ASSUME define_list[s].type = "block"
        PROVE  code'[define_list[s].inst].assigned = s
    BY <2>1, <2>2 DEF EntryOK, DefinesInv
  <2>3. QED BY <2>1, <2>2 DEF EntryOK
<1>3. ASSUME nVal \notin DOMAIN define_list \cup Im PROVE EntryOK(nVal)'
  <2>1. EntryOK(val) /\ define_list'[nVal] = define_list[val]
    BY <1>1, <1>3 DEF DefinesInv
  <2>2. ASSUME define_list[val].type = "block"
        PROVE  define_list[val].inst # NoInst
    BY <2>1, <2>2, DefUseAssumption DEF EntryOK, DefinesInv
  <2>3. QED BY <1>3, <2>1, <2>2 DEF EntryOK
<1>4. \A s \in DOMAIN define_list' : EntryOK(s)'
  BY <1>1, <1>2, <1>3
<1>5. nVal \in DOMAIN define_list' => nVal \in Symbol
  BY <1>1 DEF Nameable, DefinesInv
<1>6. DOMAIN define_list' \subseteq taken' \cap Symbol
  BY <1>1, <1>5 DEF DefinesInv
<1>7. QED BY <1>4, <1>6 DEF DefinesInv

\* A renaming leaves every other entry and what other instructions assign.
LEMMA RenamedRest ==
  ASSUME "load" \notin Kinds, DefinesInv,
         NEW val \in DOMAIN define_list, NEW nVal \in Nameable, val # nVal
  PROVE  /\ \A t \in DOMAIN define_list \ {val} :
              /\ t \in DOMAIN MovedDefinition(val, nVal)
              /\ MovedDefinition(val, nVal)[t] = define_list[t]
         /\ DOMAIN Renamed(val, nVal) = DOMAIN code
         /\ \A j \in tracked :
              \/ Renamed(val, nVal)[j].assigned = code[j].assigned
              \/ Renamed(val, nVal)[j].assigned = nVal /\ nVal \in Symbol \ taken
<1>1. tracked \subseteq DOMAIN code
  BY DEF DefinesInv
<1>2. /\ DOMAIN Renamed(val, nVal) = DOMAIN code
      /\ \A j \in DOMAIN code :
           \/ Renamed(val, nVal)[j].assigned = code[j].assigned
           \/ /\ code[j].assigned = val /\ Renamed(val, nVal)[j].assigned = nVal
              /\ nVal \in Symbol \ taken
  BY RenamedFacts
<1>3. /\ DOMAIN MovedDefinition(val, nVal) = (DOMAIN define_list \ {val}) \cup ({nVal} \ Im)
      /\ \A t \in DOMAIN define_list \ {val} : MovedDefinition(val, nVal)[t] = define_list[t]
  BY MovedFacts
<1>4. QED BY <1>1, <1>2, <1>3

\* The instructions of a kind have that kind and assign the symbol.
LEMMA InstructionFacts ==
  ASSUME "load" \notin Kinds, NEW kind \in Kinds, NEW s, NEW c \in InstructionsOf(kind, s)
  PROVE  /\ c.kind = kind /\ c.assigned \in {s, NoSymbol} /\ (kind = "plain" => c.assigned = s)
         /\ Whole(c)
         /\ kind \in {"plain", "store"}
<1>1. kind \in {"plain", "store"}
  BY DefUseAssumption DEF AllKinds
<1>2. CASE kind = "plain"
  BY <1>2 DEF InstructionsOf, Whole
<1>3. CASE kind = "store"
  BY <1>3 DEF InstructionsOf, Whole
<1>4. QED BY <1>1, <1>2, <1>3

\* Every operation keeps each definition at an instruction that assigns it.
LEMMA DefinesStep ==
  ASSUME "load" \notin Kinds, DefinesInv, [Next]_vars
  PROVE  DefinesInv'
<1> USE DefUseAssumption
<1>1. ASSUME NEW b \in Block, NEW i \in Inst, NEW s \in (Symbol \ taken) \cup {NoSymbol},
             NEW kind \in Kinds, NEW c \in InstructionsOf(kind, s), push(b, i, c)
      PROVE  DefinesInv'
  <2>1. /\ c.kind \in Kinds /\ c.assigned \in (Symbol \ taken) \cup {NoSymbol}
        /\ Whole(c)
    BY InstructionFacts
  <2>2. /\ i \notin DOMAIN code /\ code' = With(code, i, c) /\ tracked' = tracked \cup {i}
        /\ taken' = taken \cup ({c.assigned} \ {NoSymbol})
        /\ define_list' = IF c.assigned = NoSymbol THEN define_list
                          ELSE With(define_list, c.assigned, [type |-> "block", inst |-> i])
    BY <1>1 DEF push
  <2>3. /\ DOMAIN code' = DOMAIN code \cup {i} /\ code'[i] = c
        /\ \A j \in DOMAIN code : code'[j] = code[j]
    BY <2>2 DEF With
  <2>4. \A j \in tracked : code'[j].assigned = code[j].assigned
    BY <2>3 DEF DefinesInv
  <2>5. CASE c.assigned = NoSymbol
    <3>1. define_list' = define_list /\ taken' = taken
      BY <2>2, <2>5
    <3>2. \A s1 \in DOMAIN define_list' : EntryOK(s1)'
      BY <2>2, <2>4, <3>1, EntryKept
    <3>3. QED BY <2>1, <2>2, <2>3, <3>1, <3>2 DEF DefinesInv
  <2>6. CASE c.assigned # NoSymbol
    <3> DEFINE d == c.assigned
               entry == [type |-> "block", inst |-> i]
    <3>1. /\ DOMAIN define_list' = DOMAIN define_list \cup {d} /\ define_list'[d] = entry
          /\ \A s1 \in DOMAIN define_list : s1 # d => define_list'[s1] = define_list[s1]
      BY <2>2, <2>6 DEF With
    <3>2. d \in Symbol \ taken /\ taken' = taken \cup {d}
      BY <2>1, <2>2, <2>6
    <3>3. \A s1 \in DOMAIN define_list' : s1 # d => EntryOK(s1)'
      BY <2>2, <2>4, <3>1, EntryKept
    <3>4. EntryOK(d)'
      BY <2>2, <2>3, <3>1 DEF EntryOK
    <3> HIDE DEF d, entry
    <3>5. \A s1 \in DOMAIN define_list' : EntryOK(s1)'
      BY <3>3, <3>4
    <3>6. DOMAIN define_list' \subseteq taken' \cap Symbol
      BY <3>1, <3>2 DEF DefinesInv
    <3>7. QED BY <2>1, <2>2, <2>3, <3>5, <3>6 DEF DefinesInv
  <2>7. QED BY <2>5, <2>6
<1>2. ASSUME NEW s \in Symbol, add_block_param(s) \/ add_param(s)
      PROVE  DefinesInv'
  <2>1. PICK type \in {"block_param", "func_param"} :
          define_list' = With(define_list, s, [type |-> type, inst |-> NoInst])
    BY <1>2 DEF add_block_param, add_param
  <2>2. taken' = taken \cup {s} /\ UNCHANGED <<code, tracked>>
    BY <1>2 DEF add_block_param, add_param
  <2>3. /\ DOMAIN define_list' = DOMAIN define_list \cup {s}
        /\ define_list'[s] = [type |-> type, inst |-> NoInst]
        /\ \A s1 \in DOMAIN define_list : s1 # s => define_list'[s1] = define_list[s1]
    BY <2>1 DEF With
  <2>4. \A s1 \in DOMAIN define_list' : s1 # s => EntryOK(s1)'
    BY <2>2, <2>3, EntryKept
  <2>5. EntryOK(s)'
    BY <2>3 DEF EntryOK
  <2>6. QED BY <2>2, <2>3, <2>4, <2>5 DEF DefinesInv
<1>3. CASE clear_param
  <2>1. /\ DOMAIN define_list' \subseteq DOMAIN define_list
        /\ \A s \in DOMAIN define_list' : define_list'[s] = define_list[s]
        /\ UNCHANGED <<code, tracked, taken>>
    BY <1>3 DEF clear_param, RemoveParamDefines
  <2>2. \A s \in DOMAIN define_list' : EntryOK(s)'
    BY <2>1, EntryKept
  <2>3. QED BY <2>1, <2>2 DEF DefinesInv
<1>4. ASSUME NEW val \in Symbol \ ToSet(params), NEW nVal \in Nameable, rename_define(val, nVal)
      PROVE  DefinesInv'
  <2>1. /\ val \in DOMAIN define_list /\ val # nVal /\ tracked' = tracked
        /\ taken' = taken \cup ({nVal} \cap Symbol)
        /\ define_list' = MovedDefinition(val, nVal) /\ code' = Renamed(val, nVal)
    BY <1>4 DEF rename_define, Renamable
  <2>2. /\ DOMAIN code' = DOMAIN code
        /\ \A j \in DOMAIN code :
             /\ code'[j].kind = code[j].kind
             /\ code[j].assigned # val => code'[j].assigned = code[j].assigned
             /\ Whole(code'[j])
        /\ nVal \notin DOMAIN define_list \cup Im /\ define_list[val].inst # NoInst =>
             code'[define_list[val].inst].assigned = nVal
    BY <2>1, RenamedFacts
  <2>3. QED BY <2>1, <2>2, RenamedDefines
<1>5. ASSUME NEW i \in tracked, NEW c \in InstructionsOf(code[i].kind, code[i].assigned),
             retrack_inst(i, c)
      PROVE  DefinesInv'
  <2>1. /\ c.kind = code[i].kind /\ c.assigned = code[i].assigned
        /\ code' = [code EXCEPT ![i] = c] /\ UNCHANGED <<define_list, taken, tracked>>
    BY <1>5 DEF retrack_inst, Replaceable
  <2>2. code[i].kind \in Kinds /\ i \in DOMAIN code
    BY DEF DefinesInv
  <2>3. Whole(c)
    BY <2>2, InstructionFacts
  <2>4. /\ DOMAIN code' = DOMAIN code /\ code'[i] = c
        /\ \A j \in DOMAIN code : j # i => code'[j] = code[j]
    BY <2>1, <2>2
  <2>5. \A j \in tracked : code'[j].assigned = code[j].assigned
    BY <2>1, <2>4 DEF DefinesInv
  <2>6. \A s \in DOMAIN define_list' : EntryOK(s)'
    BY <2>1, <2>5, EntryKept
  <2>7. QED BY <2>1, <2>2, <2>3, <2>4, <2>6 DEF DefinesInv
<1>10. ASSUME NEW i \in tracked, NEW s \in Symbol \ taken, NEW c \in InstructionsOf(code[i].kind, s),
              retrack_renamed(i, c)
       PROVE  DefinesInv'
  <2> DEFINE old == code[i].assigned
             nVal == c.assigned
             rd == Renamed(old, nVal)
  <2>1. /\ i \in DOMAIN code /\ code[i].kind \in Kinds /\ c.kind = code[i].kind
        /\ old \in DOMAIN define_list /\ old \in taken /\ nVal # NoSymbol
        /\ tracked' = tracked /\ taken' = taken \cup {nVal}
        /\ define_list' = MovedDefinition(old, nVal)
        /\ code' = [rd EXCEPT ![i] = c]
    BY <1>10 DEF retrack_renamed, Renamable, Replaceable, DefinesInv
  <2>2. /\ Whole(c)
        /\ nVal = s /\ nVal \in Nameable /\ nVal \in Symbol /\ nVal # old
    BY <2>1, InstructionFacts DEF Nameable
  <2>3. /\ DOMAIN rd = DOMAIN code
        /\ \A j \in DOMAIN code :
             /\ rd[j].kind = code[j].kind
             /\ code[j].assigned # old => rd[j].assigned = code[j].assigned
             /\ Whole(rd[j])
        /\ nVal \notin DOMAIN define_list \cup Im /\ define_list[old].inst # NoInst =>
             rd[define_list[old].inst].assigned = nVal
    BY <2>1, <2>2, RenamedFacts
  <2>4. /\ DOMAIN code' = DOMAIN rd /\ code'[i] = c
        /\ \A j \in DOMAIN rd : j # i => code'[j] = rd[j]
    <3> HIDE DEF rd
    <3>1. QED BY <2>1, <2>3
  <2>5. /\ DOMAIN code' = DOMAIN code
        /\ \A j \in DOMAIN code :
             /\ code'[j].kind = code[j].kind
             /\ code[j].assigned # old => code'[j].assigned = code[j].assigned
             /\ Whole(code'[j])
        /\ nVal \notin DOMAIN define_list \cup Im /\ define_list[old].inst # NoInst =>
             code'[define_list[old].inst].assigned = nVal
    <3>1. define_list[old].inst # NoInst => define_list[old].inst \in DOMAIN code
      BY <2>1 DEF DefinesInv, EntryOK
    <3> HIDE DEF rd
    <3>2. \A j \in DOMAIN code :
             /\ code'[j].kind = code[j].kind
             /\ code[j].assigned # old => code'[j].assigned = code[j].assigned
             /\ Whole(code'[j])
      <4> SUFFICES ASSUME NEW j \in DOMAIN code
                   PROVE  /\ code'[j].kind = code[j].kind
                          /\ code[j].assigned # old => code'[j].assigned = code[j].assigned
                          /\ Whole(code'[j])
        OBVIOUS
      <4>1. CASE j = i
        BY <2>1, <2>2, <2>4, <4>1
      <4>2. CASE j # i
        <5>1. code'[j] = rd[j]
          BY <2>3, <2>4, <4>2
        <5>2. QED BY <2>3, <5>1
      <4>3. QED BY <4>1, <4>2
    <3>3. QED BY <2>3, <2>4, <3>1, <3>2
  <2>6. QED BY <2>1, <2>2, <2>5, RenamedDefines
<1>6. ASSUME NEW i \in Inst, untrack_void_inst(i) PROVE DefinesInv'
  <2>1. i \in tracked /\ code[i].assigned = NoSymbol /\ tracked' = tracked \ {i}
        /\ UNCHANGED <<code, define_list, taken>>
    BY <1>6 DEF untrack_void_inst
  <2>2. ASSUME NEW s \in DOMAIN define_list PROVE EntryOK(s)'
    <3>1. EntryOK(s) /\ s \in Symbol
      BY DEF DefinesInv
    <3>2. s # NoSymbol
      BY <3>1 DEF Operand
    <3>3. define_list[s].type = "block" => define_list[s].inst # i
      BY <2>1, <3>1, <3>2 DEF EntryOK
    <3>4. QED BY <2>1, <3>1, <3>3 DEF EntryOK
  <2>3. QED BY <2>1, <2>2 DEF DefinesInv
<1>7. ASSUME NEW i \in tracked, untrack_defining_inst(i) PROVE DefinesInv'
  <2> DEFINE d == code[i].assigned
  <2>1. /\ define_list' = Without(define_list, d) /\ tracked' = tracked \ {i}
        /\ UNCHANGED <<code, taken>>
    BY <1>7 DEF untrack_defining_inst
  <2>2. /\ DOMAIN define_list' = DOMAIN define_list \ {d}
        /\ \A s \in DOMAIN define_list' : define_list'[s] = define_list[s]
    BY <2>1 DEF Without
  <2>3. ASSUME NEW s \in DOMAIN define_list' PROVE EntryOK(s)'
    <3>1. EntryOK(s) /\ s # d
      BY <2>2 DEF DefinesInv
    <3>2. define_list[s].type = "block" => define_list[s].inst # i
      BY <3>1 DEF EntryOK
    <3>3. QED BY <2>1, <2>2, <3>1, <3>2 DEF EntryOK
  <2>4. QED BY <2>1, <2>2, <2>3 DEF DefinesInv
<1>8. CASE UNCHANGED vars
  BY <1>8 DEF vars, DefinesInv, EntryOK
<1>9. QED BY <1>1, <1>2, <1>3, <1>4, <1>5, <1>6, <1>7, <1>8, <1>10 DEF Next

\* The definition of a symbol stays at a tracked instruction that assigns it
\* (ProcedureDU.cpp, rename_define and remove_inst), for any procedure without
\* loads.
THEOREM DefinesStayExact ==
  ASSUME "load" \notin Kinds
  PROVE  Spec => []DefinesExact
<1>1. Init => DefinesInv
  BY DEF Init, DefinesInv
<1>2. DefinesInv /\ [Next]_vars => DefinesInv'
  BY DefinesStep
<1>3. DefinesInv => DefinesExact
  BY DEF DefinesInv, EntryOK, DefinesExact
<1>4. QED BY <1>1, <1>2, <1>3, PTL DEF Spec

---------------------------------------------------------------------------
(* Parameters.                                                             *)

\* A sequence with one more element.
LEMMA AppendedSet ==
  ASSUME NEW S, NEW s \in Seq(S), NEW x \in S
  PROVE  Append(s, x) \in Seq(S) /\ ToSet(Append(s, x)) \subseteq ToSet(s) \cup {x}
<1> DEFINE r == Append(s, x)
<1>1. /\ r \in Seq(S) /\ Len(r) = Len(s) + 1
      /\ \A i \in 1..Len(s) : r[i] = s[i]
      /\ r[Len(s) + 1] = x
  BY AppendProperties
<1>2. DOMAIN r = 1..(Len(s) + 1) /\ DOMAIN s = 1..Len(s) /\ Len(s) \in Nat
  BY <1>1, LenProperties
<1> HIDE DEF r
<1>3. \A i \in DOMAIN r : r[i] = x \/ \E j \in DOMAIN s : r[i] = s[j]
  BY <1>1, <1>2
<1>4. ToSet(r) \subseteq ToSet(s) \cup {x}
  BY <1>3 DEF ToSet
<1>5. QED BY <1>1, <1>4 DEF r

\* Every operation keeps the parameters defined and unassigned.
LEMMA ParamsStep ==
  ASSUME "load" \notin Kinds, ParamsInv, [Next]_vars
  PROVE  ParamsInv'
<1> USE DefUseAssumption
<1> DEFINE Formal(s) == s \in DOMAIN define_list /\ define_list[s].type = "func_param"
<1>0. /\ \A s \in ToSet(params) : Formal(s)
      /\ DOMAIN define_list \subseteq taken /\ params \in Seq(Symbol)
      /\ tracked \subseteq DOMAIN code /\ DefinesInv
      /\ \A i \in tracked : code[i].assigned \in (taken \cup {NoSymbol}) \ ToSet(params)
  BY DEF ParamsInv, ParamsTracked, DefinesInv
<1>a. DefinesInv'
  BY <1>0, DefinesStep
<1>c. DefinesInv
  BY <1>0
<1>b. ToSet(params) \subseteq Symbol \cap taken
  BY <1>0 DEF ToSet, DefinesInv
<1>1. ASSUME NEW b \in Block, NEW i \in Inst, NEW s \in (Symbol \ taken) \cup {NoSymbol},
             NEW kind \in Kinds, NEW c \in InstructionsOf(kind, s), push(b, i, c)
      PROVE  ParamsInv'
  <2>1. /\ c.assigned \notin taken /\ params' = params
        /\ taken' = taken \cup ({c.assigned} \ {NoSymbol})
        /\ define_list' = IF c.assigned = NoSymbol THEN define_list
                          ELSE With(define_list, c.assigned, [type |-> "block", inst |-> i])
    BY <1>1 DEF push
  <2>2. \A t \in DOMAIN define_list : t \in DOMAIN define_list' /\ define_list'[t] = define_list[t]
    BY <1>0, <2>1 DEF With
  <2>3. /\ i \notin DOMAIN code /\ tracked' = tracked \cup {i} /\ code' = With(code, i, c)
    BY <1>1 DEF push
  <2>4. /\ code'[i] = c
        /\ \A j \in DOMAIN code : code'[j] = code[j]
    BY <2>3 DEF With
  <2>5. NoSymbol \notin ToSet(params)
    BY <1>b DEF Operand
  <2>6. \A j \in tracked' : code'[j].assigned \in (taken' \cup {NoSymbol}) \ ToSet(params')
    BY <1>0, <1>b, <2>1, <2>3, <2>4, <2>5
  <2>7. QED BY <1>0, <1>a, <2>1, <2>2, <2>6 DEF ParamsInv, ParamsTracked
<1>2. ASSUME NEW s \in Symbol, add_block_param(s) PROVE ParamsInv'
  <2>1. /\ s \notin taken /\ taken' = taken \cup {s}
        /\ define_list' = With(define_list, s, [type |-> "block_param", inst |-> NoInst])
        /\ UNCHANGED <<code, params, tracked>>
    BY <1>2 DEF add_block_param
  <2>2. \A t \in DOMAIN define_list : t \in DOMAIN define_list' /\ define_list'[t] = define_list[t]
    BY <1>0, <2>1 DEF With
  <2>3. QED BY <1>0, <1>a, <2>1, <2>2 DEF ParamsInv, ParamsTracked
<1>3. ASSUME NEW s \in Symbol, add_param(s) PROVE ParamsInv'
  <2>1. /\ s \notin taken /\ params' = Append(params, s) /\ taken' = taken \cup {s}
        /\ define_list' = With(define_list, s, [type |-> "func_param", inst |-> NoInst])
        /\ UNCHANGED <<code, tracked>>
    BY <1>3 DEF add_param
  <2>2. /\ s \in DOMAIN define_list' /\ define_list'[s].type = "func_param"
        /\ \A t \in DOMAIN define_list : t \in DOMAIN define_list' /\ define_list'[t] = define_list[t]
    BY <1>0, <2>1 DEF With
  <2>3. params' \in Seq(Symbol) /\ ToSet(params') \subseteq ToSet(params) \cup {s}
    BY <1>0, <2>1, AppendedSet
  <2>4. s # NoSymbol
    BY DEF Operand
  <2>5. \A j \in tracked' : code'[j].assigned \in (taken' \cup {NoSymbol}) \ ToSet(params')
    BY <1>0, <2>1, <2>3, <2>4
  <2>6. QED BY <1>0, <1>a, <2>2, <2>3, <2>5 DEF ParamsInv, ParamsTracked
<1>4. CASE clear_param
  <2>1. params' = <<>> /\ UNCHANGED <<code, taken, tracked>>
    BY <1>4 DEF clear_param
  <2>2. params' \in Seq(Symbol) /\ ToSet(params') = {}
    BY <2>1, EmptySeq DEF ToSet
  <2>3. QED BY <1>0, <1>a, <2>1, <2>2 DEF ParamsInv, ParamsTracked
<1>5. ASSUME NEW val \in Symbol \ ToSet(params), NEW nVal \in Nameable, rename_define(val, nVal)
      PROVE  ParamsInv'
  <2>1. /\ taken' = taken \cup ({nVal} \cap Symbol) /\ UNCHANGED <<params, tracked>>
        /\ val \in DOMAIN define_list /\ val # nVal
        /\ define_list' = MovedDefinition(val, nVal) /\ code' = Renamed(val, nVal)
    BY <1>5 DEF rename_define, Renamable
  <2>6. /\ \A t \in DOMAIN define_list \ {val} :
             /\ t \in DOMAIN MovedDefinition(val, nVal)
             /\ MovedDefinition(val, nVal)[t] = define_list[t]
        /\ \A j \in tracked :
             \/ Renamed(val, nVal)[j].assigned = code[j].assigned
             \/ Renamed(val, nVal)[j].assigned = nVal /\ nVal \in Symbol \ taken
    <3>1. val \in DOMAIN define_list /\ val # nVal
      BY <2>1
    <3>2. QED BY <1>c, <3>1, RenamedRest
  <2>2. \A t \in DOMAIN define_list \ {val} :
          t \in DOMAIN define_list' /\ define_list'[t] = define_list[t]
    BY <2>1, <2>6
  <2>3. \A j \in tracked :
          \/ code'[j].assigned = code[j].assigned
          \/ code'[j].assigned = nVal /\ nVal \in Symbol \ taken
    BY <2>1, <2>6
  <2>4. \A j \in tracked' : code'[j].assigned \in (taken' \cup {NoSymbol}) \ ToSet(params')
    BY <1>0, <1>b, <2>1, <2>3
  <2>5. QED BY <1>0, <1>a, <2>1, <2>2, <2>4 DEF ParamsInv, ParamsTracked
<1>6. ASSUME NEW i \in tracked, NEW c \in InstructionsOf(code[i].kind, code[i].assigned),
             retrack_inst(i, c)
      PROVE  ParamsInv'
  <2>1. /\ c.assigned = code[i].assigned /\ code' = [code EXCEPT ![i] = c]
        /\ UNCHANGED <<params, define_list, taken, tracked>>
    BY <1>6 DEF retrack_inst, Replaceable
  <2>2. \A j \in tracked : code'[j].assigned = code[j].assigned
    BY <1>0, <2>1
  <2>3. QED BY <1>0, <1>a, <2>1, <2>2 DEF ParamsInv, ParamsTracked
<1>11. ASSUME NEW i \in tracked, NEW s \in Symbol \ taken, NEW c \in InstructionsOf(code[i].kind, s),
              retrack_renamed(i, c)
       PROVE  ParamsInv'
  <2> DEFINE old == code[i].assigned
             nVal == c.assigned
  <2>1. /\ i \in DOMAIN code /\ code[i].kind \in Kinds
        /\ old \in DOMAIN define_list /\ old \in taken /\ nVal # NoSymbol
        /\ taken' = taken \cup {nVal} /\ UNCHANGED <<params, tracked>>
        /\ define_list' = MovedDefinition(old, nVal)
        /\ code' = [Renamed(old, nVal) EXCEPT ![i] = c]
    BY <1>0, <1>11 DEF retrack_renamed, Renamable, Replaceable, DefinesInv
  <2>2. nVal = s /\ nVal \in Nameable /\ nVal \in Symbol /\ nVal # old
    BY <2>1, InstructionFacts DEF Nameable
  <2>3. /\ \A t \in DOMAIN define_list \ {old} :
             /\ t \in DOMAIN MovedDefinition(old, nVal)
             /\ MovedDefinition(old, nVal)[t] = define_list[t]
        /\ DOMAIN Renamed(old, nVal) = DOMAIN code
        /\ \A j \in tracked :
             \/ Renamed(old, nVal)[j].assigned = code[j].assigned
             \/ Renamed(old, nVal)[j].assigned = nVal /\ nVal \in Symbol \ taken
    <3>1. old \in DOMAIN define_list /\ nVal \in Nameable /\ old # nVal
      BY <2>1, <2>2
    <3> HIDE DEF old, nVal
    <3>2. QED BY <1>c, <3>1, RenamedRest
  <2>4. \A t \in DOMAIN define_list \ {old} :
          t \in DOMAIN define_list' /\ define_list'[t] = define_list[t]
    BY <2>1, <2>3
  <2>5. \A j \in tracked : code'[j].assigned \in {code[j].assigned, nVal}
    BY <1>0, <2>1, <2>3
  <2>6. nVal \notin ToSet(params) /\ old \notin ToSet(params)
    BY <1>0, <1>b, <2>2
  <2>7. \A j \in tracked' : code'[j].assigned \in (taken' \cup {NoSymbol}) \ ToSet(params')
    BY <1>0, <2>1, <2>5, <2>6
  <2>8. QED BY <1>0, <1>a, <2>1, <2>4, <2>6, <2>7 DEF ParamsInv, ParamsTracked
<1>7. ASSUME NEW i \in Inst, untrack_void_inst(i) PROVE ParamsInv'
  <2>1. tracked' = tracked \ {i} /\ UNCHANGED <<code, params, taken, define_list>>
    BY <1>7 DEF untrack_void_inst
  <2>2. QED BY <1>0, <1>a, <2>1 DEF ParamsInv, ParamsTracked
<1>8. ASSUME NEW i \in tracked, untrack_defining_inst(i) PROVE ParamsInv'
  <2>1. /\ define_list' = Without(define_list, code[i].assigned) /\ tracked' = tracked \ {i}
        /\ UNCHANGED <<code, params, taken>>
    BY <1>8 DEF untrack_defining_inst
  <2>2. \A t \in DOMAIN define_list : t # code[i].assigned =>
          t \in DOMAIN define_list' /\ define_list'[t] = define_list[t]
    BY <2>1 DEF Without
  <2>3. QED BY <1>0, <1>a, <2>1, <2>2 DEF ParamsInv, ParamsTracked
<1>9. CASE UNCHANGED vars
  <2>1. QED BY <1>0, <1>9, <1>a DEF vars, ParamsInv, ParamsTracked
<1>10. QED BY <1>1, <1>2, <1>3, <1>4, <1>5, <1>6, <1>7, <1>8, <1>9, <1>11 DEF Next

\* A formal parameter stays defined as one until clear_param forgets it
\* (Procedure.cpp, add_param and clear_param), whatever is renamed, replaced
\* or removed meanwhile: no removal of an instruction takes the definition of
\* a parameter away, for any procedure without loads.
THEOREM ParamsStayTracked ==
  ASSUME "load" \notin Kinds
  PROVE  Spec => []ParamsTracked
<1>1. Init => ParamsInv
  <2> SUFFICES ASSUME Init PROVE ParamsInv
    OBVIOUS
  <2>1. params = <<>> /\ DOMAIN define_list = {} /\ tracked = {}
    BY DEF Init
  <2>2. params \in Seq(Symbol) /\ ToSet(params) = {}
    BY <2>1, EmptySeq DEF ToSet
  <2>3. DefinesInv
    BY DEF Init, DefinesInv
  <2>4. QED BY <2>1, <2>2, <2>3 DEF ParamsInv, ParamsTracked
<1>2. ParamsInv /\ [Next]_vars => ParamsInv'
  BY ParamsStep
<1>3. ParamsInv => ParamsTracked
  BY DEF ParamsInv
<1>4. QED BY <1>1, <1>2, <1>3, PTL DEF Spec

---------------------------------------------------------------------------
(* Uses.  The lemmas speak of a list of uses ul, instructions cd, their    *)
(* entries il, a set tr of instructions and definitions defs, so that a    *)
(* step of the index is the composition of those it is made of.            *)

\* Operand k of instruction c is o.
IsArg(c, k, o) == k \in 1..arg_size(c) /\ arg_at(c, k) = o

\* The uses of o in b that ul should list.
UseSet(cd, il, tr, defs, o, b) ==
  {e \in [inst : tr, index : Nat, defined : {local_defined(defs, o)}] :
     il[e.inst].block = b /\ IsArg(cd[e.inst], e.index, o)}

\* ul lists the uses by the instructions tr, and nothing else.
Indexed(ul, cd, il, tr, defs) ==
  /\ DOMAIN ul = Operand
  /\ \A o \in Operand, b \in Block : ul[o][b] = UseSet(cd, il, tr, defs, o, b)

\* An instruction whose operands can be counted and rewritten.
Shaped(c) ==
  /\ c.kind \in {"plain", "store"}
  /\ Len(c.args) \in 0..(MaxArgs + 2) /\ DOMAIN c.args = 1..Len(c.args)
  /\ c.kind = "store" => Len(c.args) >= 1

\* d has the fields of a DUInst and no others.
WholeEntry(d) == d = [block |-> d.block, args |-> d.args, defineInfo |-> d.defineInfo]

\* The entry of a tracked instruction.
Listed(i) ==
  /\ i \in DOMAIN inst_list
  /\ inst_list[i].block \in Block
  /\ inst_list[i].args = arg_size(code[i])
  /\ WholeEntry(inst_list[i])

\* The inductive invariant of the uses.  What is used is defined, because the
\* definition of a used symbol is never removed.
UsesInv ==
  /\ DefinesInv
  /\ \A i \in tracked : Shaped(code[i]) /\ Listed(i)
  /\ \A i \in tracked : \A k \in 1..arg_size(code[i]) : arg_at(code[i], k) \in Known
  /\ Indexed(usage_list, code, inst_list, tracked, define_list)

\* The operands of a shaped instruction are those it holds.
LEMMA ShapedArgs ==
  ASSUME NEW c, Shaped(c)
  PROVE  /\ arg_size(c) \in 0..(MaxArgs + 2) /\ 1..arg_size(c) \subseteq DOMAIN c.args
         /\ \A k : arg_at(c, k) = c.args[k]
  BY DefUseAssumption DEF Shaped, arg_size, arg_at

\* Only the operands, the blocks and the definitions of what is used matter.
LEMMA IndexedAgain ==
  ASSUME NEW ul, NEW cd, NEW cd2, NEW il, NEW il2, NEW tr, NEW defs, NEW defs2,
         Indexed(ul, cd, il, tr, defs),
         \A i \in tr :
           /\ il2[i].block = il[i].block
           /\ \A k, o : IsArg(cd2[i], k, o) <=> IsArg(cd[i], k, o)
           /\ \A k, o : IsArg(cd[i], k, o) => local_defined(defs2, o) = local_defined(defs, o)
  PROVE  Indexed(ul, cd2, il2, tr, defs2)
<1> SUFFICES ASSUME NEW o \in Operand, NEW b \in Block
             PROVE  UseSet(cd, il, tr, defs, o, b) = UseSet(cd2, il2, tr, defs2, o, b)
  BY DEF Indexed
<1>1. ASSUME NEW e \in UseSet(cd, il, tr, defs, o, b)
      PROVE  e \in UseSet(cd2, il2, tr, defs2, o, b)
  BY <1>1 DEF UseSet
<1>2. ASSUME NEW e \in UseSet(cd2, il2, tr, defs2, o, b)
      PROVE  e \in UseSet(cd, il, tr, defs, o, b)
  BY <1>2 DEF UseSet
<1>3. QED BY <1>1, <1>2

\* add_usage for every operand of i adds the uses by i.
LEMMA AddedUses ==
  ASSUME NEW ul, NEW cd, NEW il, NEW tr, NEW defs, NEW i \in tr, NEW b \in Block,
         arg_size(cd[i]) \in Nat, il[i].block = b,
         Indexed(ul, cd, il, tr \ {i}, defs)
  PROVE  Indexed(AddUsages(ul, defs, b, i, cd[i]), cd, il, tr, defs)
<1> DEFINE new == AddUsages(ul, defs, b, i, cd[i])
           c == cd[i]
<1>1. DOMAIN new = Operand
  BY DEF AddUsages
<1>2. ASSUME NEW o \in Operand, NEW x \in Block
      PROVE  new[o][x] = UseSet(cd, il, tr, defs, o, x)
  <2> DEFINE entry(k) == [inst |-> i, index |-> k, defined |-> local_defined(defs, o)]
             at == {k \in 1..arg_size(c) : x = b /\ arg_at(c, k) = o}
  <2>1. new[o][x] = UseSet(cd, il, tr \ {i}, defs, o, x) \cup {entry(k) : k \in at}
    BY DEF AddUsages, Indexed
  <2>2. ASSUME NEW e \in new[o][x] PROVE e \in UseSet(cd, il, tr, defs, o, x)
    <3>1. CASE e \in UseSet(cd, il, tr \ {i}, defs, o, x)
      BY <3>1 DEF UseSet
    <3>2. CASE \E k \in at : e = entry(k)
      <4>1. PICK k \in at : e = entry(k)
        BY <3>2
      <4>2. /\ e \in [inst : tr, index : Nat, defined : {local_defined(defs, o)}]
            /\ e.inst = i /\ e.index = k /\ x = b
        BY <4>1
      <4>3. IsArg(c, k, o)
        BY <4>1 DEF IsArg
      <4>4. QED BY <4>2, <4>3 DEF UseSet
    <3> HIDE DEF new
    <3>3. QED BY <2>1, <2>2, <3>1, <3>2
  <2>3. ASSUME NEW e \in UseSet(cd, il, tr, defs, o, x) PROVE e \in new[o][x]
    <3>1. CASE e.inst # i
      <4>1. e \in UseSet(cd, il, tr \ {i}, defs, o, x)
        BY <2>3, <3>1 DEF UseSet
      <4>2. QED BY <2>1, <4>1
    <3>2. CASE e.inst = i
      <4>1. e.index \in at /\ e = entry(e.index)
        BY <2>3, <3>2 DEF UseSet, IsArg
      <4> HIDE DEF at, entry, new
      <4>2. QED BY <2>1, <4>1
    <3>3. QED BY <3>1, <3>2
  <2> HIDE DEF new
  <2>4. QED BY <2>2, <2>3
<1>3. QED BY <1>1, <1>2 DEF Indexed

\* erase_usage for every operand of i removes the uses by i.
LEMMA ErasedUses ==
  ASSUME NEW ul, NEW cd, NEW il, NEW tr, NEW defs, NEW i,
         arg_size(cd[i]) \in Nat,
         Indexed(ul, cd, il, tr, defs)
  PROVE  Indexed(EraseUsages(ul, i, arg_size(cd[i])), cd, il, tr \ {i}, defs)
<1> DEFINE new == EraseUsages(ul, i, arg_size(cd[i]))
<1>1. DOMAIN new = Operand
  BY DEF EraseUsages
<1>2. ASSUME NEW o \in Operand, NEW b \in Block
      PROVE  new[o][b] = UseSet(cd, il, tr \ {i}, defs, o, b)
  <2>1. new[o][b] = {e \in UseSet(cd, il, tr, defs, o, b) :
                        e.inst # i \/ e.index > arg_size(cd[i])}
    BY DEF EraseUsages, Indexed
  <2>2. ASSUME NEW e \in UseSet(cd, il, tr, defs, o, b),
               e.inst # i \/ e.index > arg_size(cd[i])
        PROVE  e \in UseSet(cd, il, tr \ {i}, defs, o, b)
    BY <2>2 DEF UseSet, IsArg
  <2>3. ASSUME NEW e \in UseSet(cd, il, tr \ {i}, defs, o, b)
        PROVE  e \in UseSet(cd, il, tr, defs, o, b) /\ e.inst # i
    BY <2>3 DEF UseSet
  <2> HIDE DEF new
  <2>4. QED BY <2>1, <2>2, <2>3
<1>3. QED BY <1>1, <1>2 DEF Indexed

\* The uses of val name the operands that are val.
LEMMA UsedArgs ==
  ASSUME UsesInv, NEW val \in Operand, NEW i \in tracked
  PROVE  UsedAt(val, i) = {k \in 1..arg_size(code[i]) : arg_at(code[i], k) = val}
<1>1. /\ \A o \in Operand, b \in Block :
           usage_list[o][b] = UseSet(code, inst_list, tracked, define_list, o, b)
      /\ inst_list[i].block \in Block
      /\ Shaped(code[i])
  BY DEF UsesInv, Indexed, Listed
<1>2. ASSUME NEW k \in UsedAt(val, i)
      PROVE  k \in 1..arg_size(code[i]) /\ arg_at(code[i], k) = val
  <2>1. PICK b \in Block : \E e \in usage_list[val][b] : e.inst = i /\ e.index = k
    BY <1>2 DEF UsedAt
  <2>2. QED BY <1>1, <2>1 DEF UseSet, IsArg
<1>3. ASSUME NEW k \in 1..arg_size(code[i]), arg_at(code[i], k) = val
      PROVE  k \in UsedAt(val, i)
  <2> DEFINE e == [inst |-> i, index |-> k, defined |-> local_defined(define_list, val)]
             b == inst_list[i].block
  <2>1. /\ e \in [inst : tracked, index : Nat, defined : {local_defined(define_list, val)}]
        /\ e.inst = i /\ e.index = k
    BY <1>1
  <2>2. IsArg(code[i], k, val)
    BY <1>3 DEF IsArg
  <2> HIDE DEF e
  <2>3. e \in usage_list[val][b]
    BY <1>1, <2>1, <2>2 DEF UseSet
  <2>4. QED BY <1>1, <2>1, <2>3 DEF UsedAt
<1>4. QED BY <1>2, <1>3 DEF UsedAt

\* A renaming rewrites the operands that are val.
LEMMA RewrittenArgs ==
  ASSUME UsesInv, NEW val \in Operand, NEW nVal, NEW i \in tracked
  PROVE  LET c == Rewritten(val, nVal)[i] IN
         /\ Shaped(c) /\ arg_size(c) = arg_size(code[i])
         /\ \A k \in 1..arg_size(code[i]) :
              arg_at(c, k) = IF arg_at(code[i], k) = val THEN nVal ELSE arg_at(code[i], k)
<1> DEFINE c == Rewritten(val, nVal)[i]
           args == [k \in DOMAIN code[i].args |->
                      IF k \in UsedAt(val, i) THEN nVal ELSE code[i].args[k]]
<1>1. /\ i \in DOMAIN code /\ Shaped(code[i]) /\ Whole(code[i])
  BY DEF UsesInv, DefinesInv
<1>2. c = [code[i] EXCEPT !.args = args]
  BY <1>1 DEF Rewritten, set_arg_at, Shaped
<1>3. /\ DOMAIN args = DOMAIN code[i].args
      /\ \A k \in DOMAIN code[i].args :
           args[k] = IF k \in UsedAt(val, i) THEN nVal ELSE code[i].args[k]
  OBVIOUS
<1> HIDE DEF c, args
<1>4. c.kind = code[i].kind /\ c.args = args
  BY <1>1, <1>2 DEF Whole
<1>5. Len(args) = Len(code[i].args)
  BY <1>1, <1>3 DEF Shaped
<1>6. Shaped(c) /\ arg_size(c) = arg_size(code[i])
  BY <1>1, <1>3, <1>4, <1>5 DEF Shaped, arg_size
<1>7. /\ 1..arg_size(code[i]) \subseteq DOMAIN code[i].args
      /\ \A k : arg_at(code[i], k) = code[i].args[k] /\ arg_at(c, k) = args[k]
  BY <1>1, <1>4, <1>6, ShapedArgs
<1>8. \A k \in 1..arg_size(code[i]) :
        arg_at(c, k) = IF arg_at(code[i], k) = val THEN nVal ELSE arg_at(code[i], k)
  BY <1>3, <1>7, UsedArgs
<1>9. QED BY <1>6, <1>8 DEF c

\* Which definition an operand has after a renaming.
LEMMA MovedDefined ==
  ASSUME DefinesInv, NEW val \in DOMAIN define_list, NEW nVal \in Nameable, val # nVal
  PROVE  LET defs == MovedDefinition(val, nVal) IN
         /\ local_defined(defs, nVal) = nVal
         /\ nVal \in Known => local_defined(define_list, nVal) = nVal
         /\ \A o : o \notin {val, nVal} =>
              local_defined(defs, o) = local_defined(define_list, o)
<1>1. DOMAIN MovedDefinition(val, nVal) = (DOMAIN define_list \ {val}) \cup ({nVal} \ Im)
  BY MovedFacts
<1>2. nVal \in Known => nVal \in DOMAIN define_list \cup Im
  BY DefUseAssumption DEF Nameable, Known, DefinesInv
<1>3. QED BY <1>1, <1>2 DEF local_defined

\* The uses of val become uses of nVal.
LEMMA MovedUses ==
  ASSUME UsesInv, NEW val \in DOMAIN define_list, NEW nVal \in Nameable, val # nVal
  PROVE  Indexed(MoveUses(val, nVal), Rewritten(val, nVal), inst_list, tracked,
                 MovedDefinition(val, nVal))
<1> DEFINE new == MoveUses(val, nVal)
           rw == Rewritten(val, nVal)
           defs == MovedDefinition(val, nVal)
           Old(o, b) == UseSet(code, inst_list, tracked, define_list, o, b)
           New(o, b) == UseSet(rw, inst_list, tracked, defs, o, b)
<1>1. val \in Operand /\ nVal \in Operand /\ DefinesInv
  BY DEF UsesInv, DefinesInv, Operand, Nameable
<1>2. /\ DOMAIN usage_list = Operand
      /\ \A o \in Operand, b \in Block : usage_list[o][b] = Old(o, b)
  BY DEF UsesInv, Indexed
<1>3. \A i \in tracked : \A k :
        /\ ~ IsArg(rw[i], k, val)
        /\ IsArg(rw[i], k, nVal) <=> IsArg(code[i], k, val) \/ IsArg(code[i], k, nVal)
        /\ \A o : o \notin {val, nVal} => (IsArg(rw[i], k, o) <=> IsArg(code[i], k, o))
  BY <1>1, RewrittenArgs DEF IsArg
<1>4. \A i \in tracked : \A k, o : IsArg(code[i], k, o) => o \in Known
  BY DEF UsesInv, IsArg
<1>5. /\ local_defined(defs, nVal) = nVal
      /\ nVal \in Known => local_defined(define_list, nVal) = nVal
      /\ \A o : o \notin {val, nVal} => local_defined(defs, o) = local_defined(define_list, o)
  BY <1>1, MovedDefined
<1>6. /\ DOMAIN new = Operand
      /\ \A b \in Block :
           /\ new[val][b] = {}
           /\ new[nVal][b] = Old(nVal, b) \cup Redefined(Old(val, b), nVal)
           /\ \A o \in Operand \ {val, nVal} : new[o][b] = Old(o, b)
  BY <1>1, <1>2 DEF MoveUses
<1> HIDE DEF new, rw, defs
<1>7. ASSUME NEW b \in Block PROVE New(val, b) = {}
  BY <1>3 DEF UseSet
<1>8. ASSUME NEW b \in Block, NEW o \in Operand \ {val, nVal} PROVE New(o, b) = Old(o, b)
  <2>1. ASSUME NEW e \in New(o, b) PROVE e \in Old(o, b)
    BY <1>3, <1>5, <2>1 DEF UseSet
  <2>2. ASSUME NEW e \in Old(o, b) PROVE e \in New(o, b)
    BY <1>3, <1>5, <2>2 DEF UseSet
  <2>3. QED BY <2>1, <2>2
<1>9. ASSUME NEW b \in Block PROVE New(nVal, b) = new[nVal][b]
  <2>1. ASSUME NEW e \in Old(nVal, b) PROVE e \in New(nVal, b)
    BY <1>3, <1>4, <1>5, <2>1 DEF UseSet
  <2>2. ASSUME NEW u \in Old(val, b) PROVE [u EXCEPT !.defined = nVal] \in New(nVal, b)
    <3>1. /\ u.inst \in tracked /\ u.index \in Nat /\ inst_list[u.inst].block = b
          /\ IsArg(code[u.inst], u.index, val)
          /\ u = [inst |-> u.inst, index |-> u.index, defined |-> local_defined(define_list, val)]
      BY <2>2 DEF UseSet
    <3>2. [u EXCEPT !.defined = nVal] = [inst |-> u.inst, index |-> u.index, defined |-> nVal]
      BY <3>1
    <3>3. [inst |-> u.inst, index |-> u.index, defined |-> nVal] \in New(nVal, b)
      BY <1>3, <1>5, <3>1 DEF UseSet
    <3>4. QED BY <3>2, <3>3
  <2>3. ASSUME NEW e \in New(nVal, b)
        PROVE  e \in Old(nVal, b) \cup Redefined(Old(val, b), nVal)
    <3>1. /\ e.inst \in tracked /\ e.index \in Nat /\ inst_list[e.inst].block = b
          /\ IsArg(rw[e.inst], e.index, nVal)
          /\ e = [inst |-> e.inst, index |-> e.index, defined |-> nVal]
      BY <1>5, <2>3 DEF UseSet
    <3>2. CASE IsArg(code[e.inst], e.index, nVal)
      BY <1>4, <1>5, <3>1, <3>2 DEF UseSet
    <3>3. CASE IsArg(code[e.inst], e.index, val)
      <4> DEFINE u == [inst |-> e.inst, index |-> e.index,
                       defined |-> local_defined(define_list, val)]
      <4>1. u \in Old(val, b)
        BY <3>1, <3>3 DEF UseSet
      <4>2. e = [u EXCEPT !.defined = nVal]
        BY <3>1
      <4> HIDE DEF u
      <4>3. QED BY <4>1, <4>2 DEF Redefined
    <3>4. QED BY <1>3, <3>1, <3>2, <3>3
  <2>4. ASSUME NEW e \in Redefined(Old(val, b), nVal) PROVE e \in New(nVal, b)
    BY <2>2, <2>4 DEF Redefined
  <2>5. new[nVal][b] = Old(nVal, b) \cup Redefined(Old(val, b), nVal)
    BY <1>6
  <2> HIDE DEF Old, New
  <2>6. QED BY <2>1, <2>3, <2>4, <2>5
<1>10. \A o \in Operand, b \in Block : new[o][b] = New(o, b)
  BY <1>1, <1>6, <1>7, <1>8, <1>9
<1>11. QED BY <1>6, <1>10 DEF Indexed, new, rw, defs

\* Two instructions of the same kind with the same operands.
LEMMA SameArgs ==
  ASSUME NEW c, NEW d, c.kind = d.kind, c.args = d.args
  PROVE  /\ arg_size(c) = arg_size(d) /\ \A k : arg_at(c, k) = arg_at(d, k)
         /\ \A k, o : IsArg(c, k, o) <=> IsArg(d, k, o)
         /\ Shaped(c) <=> Shaped(d)
<1>1. arg_size(c) = arg_size(d) /\ \A k : arg_at(c, k) = arg_at(d, k)
  BY DEF arg_size, arg_at
<1>2. QED BY <1>1 DEF IsArg, Shaped

\* The instructions a client may push or put in place of another.
LEMMA InstructionShape ==
  ASSUME "load" \notin Kinds, NEW kind \in Kinds, NEW s, NEW c \in InstructionsOf(kind, s)
  PROVE  Shaped(c) /\ \A k \in 1..arg_size(c) : arg_at(c, k) \in Known
<1>1. kind \in {"plain", "store"} /\ MaxArgs \in Nat
  BY DefUseAssumption DEF AllKinds
<1>2. CASE kind = "plain"
  <2>1. PICK n \in 0..MaxArgs : \E a \in [1..n -> Known] :
          c = [kind |-> kind, assigned |-> s, args |-> a]
    BY <1>2 DEF InstructionsOf
  <2>2. /\ c.kind = "plain" /\ c.args \in [1..n -> Known]
    BY <1>2, <2>1
  <2>3. Len(c.args) = n
    BY <1>1, <2>2
  <2>4. QED BY <1>1, <2>2, <2>3 DEF Shaped, arg_size, arg_at
<1>3. CASE kind = "store"
  <2>1. PICK q \in Known, v \in Known :
          c = [kind |-> kind, assigned |-> NoSymbol, args |-> <<q, v>>]
    BY <1>3 DEF InstructionsOf
  <2>2. c.kind = "store" /\ c.args = <<q, v>>
    BY <1>3, <2>1
  <2>3. QED BY <1>1, <2>2 DEF Shaped, arg_size, arg_at
<1>4. QED BY <1>1, <1>2, <1>3

\* What an operand names has a use.
LEMMA UsedHasUses ==
  ASSUME UsesInv, NEW i \in tracked, NEW k, NEW o, IsArg(code[i], k, o)
  PROVE  o \in Known /\ ~ NoUses(o)
<1>1. o \in Known /\ o \in Operand /\ k \in Nat
  <2>1. arg_size(code[i]) \in Nat
    BY ShapedArgs DEF UsesInv
  <2>2. o \in Known
    BY DEF UsesInv, IsArg
  <2>3. QED BY <2>1, <2>2 DEF IsArg, Known, Operand, UsesInv, DefinesInv
<1> DEFINE e == [inst |-> i, index |-> k, defined |-> local_defined(define_list, o)]
           b == inst_list[i].block
<1>2. e \in UseSet(code, inst_list, tracked, define_list, o, b)
  BY <1>1 DEF UseSet
<1>3. b \in Block /\ usage_list[o][b] = UseSet(code, inst_list, tracked, define_list, o, b)
  BY <1>1 DEF UsesInv, Listed, Indexed
<1> HIDE DEF e
<1>4. QED BY <1>1, <1>2, <1>3 DEF NoUses

\* A step that only changes definitions nothing uses.
LEMMA OnlyDefinitions ==
  ASSUME UsesInv, DefinesInv', UNCHANGED <<code, inst_list, usage_list, tracked>>,
         \A i \in tracked : \A k, o : IsArg(code[i], k, o) =>
           o \in Known' /\ local_defined(define_list', o) = local_defined(define_list, o)
  PROVE  UsesInv'
<1>1. Indexed(usage_list, code, inst_list, tracked, define_list')
  BY IndexedAgain DEF UsesInv
<1>2. \A i \in tracked : \A k \in 1..arg_size(code[i]) : arg_at(code[i], k) \in Known'
  BY DEF IsArg
<1>3. \A i \in tracked : Shaped(code[i]) /\ Listed(i)'
  BY DEF UsesInv, Listed
<1>4. QED BY <1>1, <1>2, <1>3 DEF UsesInv

\* A new symbol is no operand yet.
LEMMA NewSymbol ==
  ASSUME DefinesInv, NEW s \in Symbol \ taken, NEW entry
  PROVE  /\ s \notin Known
         /\ \A o \in Known :
              /\ local_defined(With(define_list, s, entry), o) = local_defined(define_list, o)
              /\ o \in DOMAIN With(define_list, s, entry) \cup Outer \cup Im
<1>1. s \notin Known
  BY DefUseAssumption DEF DefinesInv, Known
<1>2. DOMAIN With(define_list, s, entry) = DOMAIN define_list \cup {s}
  BY DEF With
<1>3. QED BY <1>1, <1>2 DEF local_defined, Known

\* The uses after a renaming, with the defining instruction renamed as well.
LEMMA RenamedUses ==
  ASSUME "load" \notin Kinds, UsesInv,
         NEW val \in DOMAIN define_list, NEW nVal \in Nameable, val # nVal
  PROVE  LET cd == Renamed(val, nVal)
             defs == MovedDefinition(val, nVal)
         IN  /\ Indexed(MoveUses(val, nVal), cd, inst_list, tracked, defs)
             /\ \A i \in tracked :
                  /\ Shaped(cd[i]) /\ arg_size(cd[i]) = arg_size(code[i])
                  /\ \A k \in 1..arg_size(cd[i]) :
                       arg_at(cd[i], k) \in DOMAIN defs \cup Outer \cup Im
<1> DEFINE cd == Renamed(val, nVal)
           rw == Rewritten(val, nVal)
           defs == MovedDefinition(val, nVal)
<1>1. DefinesInv /\ tracked \subseteq DOMAIN code /\ val \in Operand
  BY DEF UsesInv, DefinesInv, Operand
<1>2. \A i \in tracked :
        /\ Shaped(rw[i]) /\ arg_size(rw[i]) = arg_size(code[i])
        /\ \A k \in 1..arg_size(code[i]) :
             arg_at(rw[i], k) = IF arg_at(code[i], k) = val THEN nVal ELSE arg_at(code[i], k)
  BY <1>1, RewrittenArgs
<1>3. \A i \in tracked : cd[i].kind = rw[i].kind /\ cd[i].args = rw[i].args
  <2>1. \A i \in DOMAIN code : cd[i].kind = code[i].kind /\ cd[i].args = rw[i].args
    BY <1>1, RenamedFacts
  <2>2. \A i \in DOMAIN code : rw[i].kind = code[i].kind
    BY <1>1, RewrittenFacts
  <2>3. QED BY <1>1, <2>1, <2>2
<1>4. DOMAIN defs = (DOMAIN define_list \ {val}) \cup ({nVal} \ Im)
  BY <1>1, MovedFacts
<1>5. Indexed(MoveUses(val, nVal), rw, inst_list, tracked, defs)
  BY MovedUses
<1>6. \A i \in tracked : \A k \in 1..arg_size(code[i]) : arg_at(code[i], k) \in Known
  BY DEF UsesInv
<1>7. val \notin Outer \cup Im
  BY <1>1, DefUseAssumption DEF DefinesInv
<1> HIDE DEF cd, rw, defs
<1>8. \A i \in tracked :
        /\ arg_size(cd[i]) = arg_size(rw[i]) /\ (Shaped(cd[i]) <=> Shaped(rw[i]))
        /\ \A k : arg_at(cd[i], k) = arg_at(rw[i], k)
        /\ \A k, o : IsArg(cd[i], k, o) <=> IsArg(rw[i], k, o)
  BY <1>3, SameArgs
<1>9. Indexed(MoveUses(val, nVal), cd, inst_list, tracked, defs)
  BY <1>5, <1>8, IndexedAgain
<1>10. ASSUME NEW i \in tracked, NEW k \in 1..arg_size(cd[i])
       PROVE  arg_at(cd[i], k) \in DOMAIN defs \cup Outer \cup Im
  BY <1>2, <1>4, <1>6, <1>7, <1>8, <1>10 DEF Known
<1>11. QED BY <1>2, <1>8, <1>9, <1>10 DEF cd, defs

\* Replacing an instruction changes the operand count of its entry.
LEMMA ReplacedEntries ==
  ASSUME UsesInv, NEW i \in tracked, NEW n \in Nat,
         inst_list' = [inst_list EXCEPT ![i].args = n]
  PROVE  \A j \in tracked :
           /\ inst_list'[j].block = inst_list[j].block /\ j \in DOMAIN inst_list'
           /\ inst_list'[j].args = IF j = i THEN n ELSE inst_list[j].args
           /\ WholeEntry(inst_list'[j])
<1>1. \A j \in tracked : Listed(j)
  BY DEF UsesInv
<1>2. inst_list'[i] = [inst_list[i] EXCEPT !.args = n]
      /\ DOMAIN inst_list' = DOMAIN inst_list
      /\ \A j \in tracked \ {i} : inst_list'[j] = inst_list[j] /\ j \in DOMAIN inst_list
  BY <1>1 DEF Listed
<1>3. inst_list'[i] = [block |-> inst_list[i].block, args |-> n,
                       defineInfo |-> inst_list[i].defineInfo]
  <2>1. inst_list[i] = [block |-> inst_list[i].block, args |-> inst_list[i].args,
                        defineInfo |-> inst_list[i].defineInfo]
    BY <1>1 DEF Listed, WholeEntry
  <2>2. QED BY <1>2, <2>1
<1>4. /\ inst_list'[i].block = inst_list[i].block /\ inst_list'[i].args = n
      /\ WholeEntry(inst_list'[i]) /\ i \in DOMAIN inst_list'
  BY <1>1, <1>2, <1>3 DEF Listed, WholeEntry
<1>5. ASSUME NEW j \in tracked \ {i}
      PROVE  inst_list'[j] = inst_list[j] /\ j \in DOMAIN inst_list' /\ WholeEntry(inst_list[j])
  BY <1>1, <1>2 DEF Listed
<1>6. QED BY <1>4, <1>5

\* Replacing an instruction replaces its uses.
LEMMA ReplacedUses ==
  ASSUME UsesInv, NEW ul, NEW cd, NEW cd2, NEW defs, NEW i \in tracked,
         Indexed(ul, cd, inst_list, tracked, defs),
         arg_size(cd[i]) = arg_size(code[i]), arg_size(cd2[i]) \in Nat,
         \A j \in tracked \ {i} : cd2[j] = cd[j],
         \A j \in tracked : inst_list'[j].block = inst_list[j].block
  PROVE  Indexed(AddUsages(EraseUsages(ul, i, inst_list[i].args), defs,
                           inst_list[i].block, i, cd2[i]),
                 cd2, inst_list', tracked, defs)
<1> DEFINE erased == EraseUsages(ul, i, inst_list[i].args)
<1>1. /\ Shaped(code[i]) /\ inst_list[i].args = arg_size(code[i])
      /\ inst_list[i].block \in Block
  BY DEF UsesInv, Listed
<1>2. arg_size(cd[i]) = inst_list[i].args /\ arg_size(cd[i]) \in Nat
  BY <1>1, ShapedArgs
<1>3. Indexed(erased, cd, inst_list, tracked \ {i}, defs)
  BY <1>2, ErasedUses
<1> HIDE DEF erased
<1>4. Indexed(erased, cd2, inst_list', tracked \ {i}, defs)
  <2>1. \A j \in tracked \ {i} :
          /\ inst_list'[j].block = inst_list[j].block
          /\ \A k, o : IsArg(cd2[j], k, o) <=> IsArg(cd[j], k, o)
    OBVIOUS
  <2>2. QED BY <1>3, <2>1, IndexedAgain
<1>5. Indexed(AddUsages(erased, defs, inst_list[i].block, i, cd2[i]), cd2, inst_list', tracked, defs)
  BY <1>1, <1>4, AddedUses
<1>6. QED BY <1>5 DEF erased

\* Every operation keeps the uses exact.
LEMMA UsesStep ==
  ASSUME "load" \notin Kinds, UsesInv, [Next]_vars
  PROVE  UsesInv'
<1>0. /\ DefinesInv /\ tracked \subseteq DOMAIN code
      /\ \A i \in tracked : Shaped(code[i]) /\ Listed(i)
      /\ \A i \in tracked : \A k \in 1..arg_size(code[i]) : arg_at(code[i], k) \in Known
      /\ Indexed(usage_list, code, inst_list, tracked, define_list)
  BY DEF UsesInv, DefinesInv
<1>a. DefinesInv'
  BY <1>0, DefinesStep
<1>b. \A i \in tracked : arg_size(code[i]) \in Nat /\ inst_list[i].args = arg_size(code[i])
  <2> SUFFICES ASSUME NEW i \in tracked
               PROVE  arg_size(code[i]) \in Nat /\ inst_list[i].args = arg_size(code[i])
    OBVIOUS
  <2>1. Shaped(code[i]) /\ Listed(i)
    BY <1>0
  <2>2. arg_size(code[i]) \in Nat
    BY <2>1, ShapedArgs
  <2>3. QED BY <2>1, <2>2 DEF Listed
<1>1. ASSUME NEW b \in Block, NEW i \in Inst, NEW s \in (Symbol \ taken) \cup {NoSymbol},
             NEW kind \in Kinds, NEW c \in InstructionsOf(kind, s), push(b, i, c)
      PROVE  UsesInv'
  <2> DEFINE slot == [block |-> b, args |-> arg_size(c), defineInfo |-> c.assigned]
  <2>1. /\ i \notin DOMAIN code /\ code' = With(code, i, c) /\ tracked' = tracked \cup {i}
        /\ usage_list' = AddUsages(usage_list, define_list, b, i, c)
        /\ inst_list' = With(inst_list, i, slot)
        /\ define_list' = IF c.assigned = NoSymbol THEN define_list
                          ELSE With(define_list, c.assigned, [type |-> "block", inst |-> i])
    BY <1>1 DEF push
  <2>2. /\ code'[i] = c /\ inst_list'[i] = slot /\ i \in DOMAIN inst_list' /\ i \notin tracked
        /\ \A j \in tracked : code'[j] = code[j] /\ inst_list'[j] = inst_list[j] /\ j \in DOMAIN inst_list'
    BY <1>0, <2>1 DEF With, Listed
  <2>3. /\ Shaped(c) /\ \A k \in 1..arg_size(c) : arg_at(c, k) \in Known
    BY InstructionShape
  <2>4. arg_size(c) \in Nat
    BY <2>3, ShapedArgs
  <2>5. c.assigned # NoSymbol => c.assigned \in Symbol \ taken
    BY InstructionFacts
  <2>6. \A o \in Known : o \in Known' /\ local_defined(define_list', o) = local_defined(define_list, o)
    <3>1. CASE c.assigned = NoSymbol
      BY <2>1, <3>1 DEF Known
    <3>2. CASE c.assigned # NoSymbol
      BY <1>0, <2>1, <2>5, <3>2, NewSymbol DEF Known
    <3>3. QED BY <3>1, <3>2
  <2>7. \A j \in tracked' : \A k \in 1..arg_size(code'[j]) : arg_at(code'[j], k) \in Known
    BY <1>0, <2>1, <2>2, <2>3
  <2>8. \A j \in tracked' : Shaped(code'[j]) /\ Listed(j)'
    BY <1>0, <2>1, <2>2, <2>3 DEF Listed, WholeEntry
  <2>9. Indexed(usage_list, code', inst_list', tracked' \ {i}, define_list)
    <3>1. tracked' \ {i} = tracked
      BY <2>1, <2>2
    <3>2. Indexed(usage_list, code', inst_list', tracked, define_list)
      BY <1>0, <2>2, IndexedAgain
    <3>3. QED BY <3>1, <3>2
  <2>10. Indexed(usage_list', code', inst_list', tracked', define_list)
    <3>1. i \in tracked' /\ arg_size(code'[i]) \in Nat /\ inst_list'[i].block = b
      BY <2>1, <2>2, <2>4
    <3>2. Indexed(AddUsages(usage_list, define_list, b, i, code'[i]), code', inst_list',
                  tracked', define_list)
      BY <2>9, <3>1, AddedUses
    <3>3. QED BY <2>1, <2>2, <3>2
  <2>11. Indexed(usage_list', code', inst_list', tracked', define_list')
    <3>1. \A j \in tracked' : \A k, o : IsArg(code'[j], k, o) =>
            local_defined(define_list', o) = local_defined(define_list, o)
      BY <2>6, <2>7 DEF IsArg
    <3>2. QED BY <2>10, <3>1, IndexedAgain
  <2>12. QED BY <1>a, <2>6, <2>7, <2>8, <2>11 DEF UsesInv
<1>2. ASSUME NEW s \in Symbol, add_block_param(s) \/ add_param(s)
      PROVE  UsesInv'
  <2>1. PICK entry : define_list' = With(define_list, s, entry)
    BY <1>2 DEF add_block_param, add_param
  <2>2. s \in Symbol \ taken /\ UNCHANGED <<code, inst_list, usage_list, tracked>>
    BY <1>2 DEF add_block_param, add_param
  <2>3. \A o \in Known : o \in Known' /\ local_defined(define_list', o) = local_defined(define_list, o)
    BY <1>0, <2>1, <2>2, NewSymbol DEF Known
  <2>4. \A i \in tracked : \A k, o : IsArg(code[i], k, o) =>
           o \in Known' /\ local_defined(define_list', o) = local_defined(define_list, o)
    BY <1>0, <2>3 DEF IsArg
  <2>5. QED BY <1>a, <2>2, <2>4, OnlyDefinitions
<1>3. CASE clear_param
  <2>1. /\ UNCHANGED <<code, inst_list, usage_list, tracked>>
        /\ DOMAIN define_list' = DOMAIN define_list \ {t \in ToSet(params) : NoUses(t)}
    BY <1>3 DEF clear_param, RemoveParamDefines
  <2>2. \A i \in tracked : \A k, o : IsArg(code[i], k, o) => o \in Known /\ ~ NoUses(o)
    BY UsedHasUses
  <2>3. \A i \in tracked : \A k, o : IsArg(code[i], k, o) =>
           o \in Known' /\ local_defined(define_list', o) = local_defined(define_list, o)
    BY <2>1, <2>2 DEF Known, local_defined
  <2>4. QED BY <1>a, <2>1, <2>3, OnlyDefinitions
<1>4. ASSUME NEW val \in Symbol \ ToSet(params), NEW nVal \in Nameable, rename_define(val, nVal)
      PROVE  UsesInv'
  <2>1. /\ val \in DOMAIN define_list /\ val # nVal /\ tracked' = tracked /\ inst_list' = inst_list
        /\ define_list' = MovedDefinition(val, nVal) /\ code' = Renamed(val, nVal)
        /\ usage_list' = MoveUses(val, nVal)
    BY <1>4 DEF rename_define, Renamable
  <2>2. /\ Indexed(usage_list', code', inst_list, tracked, define_list')
        /\ \A i \in tracked :
             /\ Shaped(code'[i]) /\ arg_size(code'[i]) = arg_size(code[i])
             /\ \A k \in 1..arg_size(code'[i]) : arg_at(code'[i], k) \in Known'
    BY <2>1, RenamedUses DEF Known
  <2>3. \A i \in tracked : Listed(i)'
    BY <1>0, <2>1, <2>2 DEF Listed
  <2>4. QED BY <1>a, <2>1, <2>2, <2>3 DEF UsesInv
<1>5. ASSUME NEW i \in tracked, NEW c \in InstructionsOf(code[i].kind, code[i].assigned),
             retrack_inst(i, c)
      PROVE  UsesInv'
  <2>1. /\ code' = [code EXCEPT ![i] = c]
        /\ usage_list' = AddUsages(EraseUsages(usage_list, i, inst_list[i].args),
                                   define_list, inst_list[i].block, i, c)
        /\ inst_list' = [inst_list EXCEPT ![i].args = arg_size(c)]
        /\ UNCHANGED <<define_list, tracked>>
    BY <1>5 DEF retrack_inst
  <2>2. /\ code'[i] = c /\ \A j \in tracked \ {i} : code'[j] = code[j]
    BY <1>0, <2>1
  <2>3. /\ Shaped(c) /\ \A k \in 1..arg_size(c) : arg_at(c, k) \in Known
    BY <1>0, InstructionShape DEF DefinesInv
  <2>4. arg_size(c) \in Nat
    BY <2>3, ShapedArgs
  <2>6. \A j \in tracked :
          /\ inst_list'[j].block = inst_list[j].block /\ j \in DOMAIN inst_list'
          /\ inst_list'[j].args = IF j = i THEN arg_size(c) ELSE inst_list[j].args
          /\ WholeEntry(inst_list'[j])
    BY <2>1, <2>4, ReplacedEntries
  <2>5. Indexed(AddUsages(EraseUsages(usage_list, i, inst_list[i].args), define_list,
                          inst_list[i].block, i, code'[i]),
                code', inst_list', tracked, define_list)
    <3>1. \A j \in tracked : inst_list'[j].block = inst_list[j].block
      BY <2>6
    <3>2. QED BY <1>0, <2>2, <2>4, <3>1, ReplacedUses
  <2>7. Indexed(usage_list', code', inst_list', tracked', define_list')
    BY <2>1, <2>2, <2>5
  <2>8. \A j \in tracked' : Shaped(code'[j]) /\ Listed(j)'
    BY <1>0, <2>1, <2>2, <2>3, <2>6 DEF Listed
  <2>9. \A j \in tracked' : \A k \in 1..arg_size(code'[j]) : arg_at(code'[j], k) \in Known'
    BY <1>0, <2>1, <2>2, <2>3 DEF Known
  <2>10. QED BY <1>a, <2>7, <2>8, <2>9 DEF UsesInv
<1>6. ASSUME NEW i \in tracked, NEW s \in Symbol \ taken, NEW c \in InstructionsOf(code[i].kind, s),
             code[i].assigned \notin ToSet(c.args), retrack_renamed(i, c)
      PROVE  UsesInv'
  <2> DEFINE old == code[i].assigned
             cd == Renamed(old, c.assigned)
             defs == MovedDefinition(old, c.assigned)
             moved == MoveUses(old, c.assigned)
  <2>1. /\ code' = [cd EXCEPT ![i] = c] /\ define_list' = defs
        /\ usage_list' = AddUsages(EraseUsages(moved, i, inst_list[i].args),
                                   defs, inst_list[i].block, i, c)
        /\ inst_list' = [inst_list EXCEPT ![i].args = arg_size(c)]
        /\ tracked' = tracked /\ old \in DOMAIN define_list /\ c.assigned # NoSymbol
    BY <1>6 DEF retrack_renamed, Renamable
  <2>2. /\ Shaped(c) /\ \A k \in 1..arg_size(c) : arg_at(c, k) \in Known
        /\ c.assigned \in {s, NoSymbol}
    BY <1>0, InstructionShape, InstructionFacts DEF DefinesInv
  <2>3. c.assigned \in Nameable /\ old # c.assigned
    BY <1>0, <2>1, <2>2 DEF Nameable, DefinesInv
  <2>4. arg_size(c) \in Nat /\ 1..arg_size(c) \subseteq DOMAIN c.args
        /\ \A k : arg_at(c, k) = c.args[k]
    BY <2>2, ShapedArgs
  <2>5. /\ Indexed(moved, cd, inst_list, tracked, defs)
        /\ \A j \in tracked :
             /\ Shaped(cd[j]) /\ arg_size(cd[j]) = arg_size(code[j])
             /\ \A k \in 1..arg_size(cd[j]) : arg_at(cd[j], k) \in DOMAIN defs \cup Outer \cup Im
    BY <2>1, <2>3, RenamedUses
  <2>6. DOMAIN cd = DOMAIN code
    BY <1>0, <2>1, <2>3, RenamedRest
  <2>7. DOMAIN define_list \ {old} \subseteq DOMAIN defs
    <3>1. \A t \in DOMAIN define_list \ {old} : t \in DOMAIN defs
      BY <1>0, <2>1, <2>3, RenamedRest
    <3>2. QED BY <3>1
  <2>8. \A k \in 1..arg_size(c) : arg_at(c, k) # old
    BY <1>6, <2>4 DEF ToSet
  <2> HIDE DEF cd, defs, moved
  <2>9. /\ code'[i] = c /\ \A j \in tracked \ {i} : code'[j] = cd[j]
    BY <1>0, <2>1, <2>6
  <2>10. \A j \in tracked :
           /\ inst_list'[j].block = inst_list[j].block /\ j \in DOMAIN inst_list'
           /\ inst_list'[j].args = IF j = i THEN arg_size(c) ELSE inst_list[j].args
           /\ WholeEntry(inst_list'[j])
    BY <2>1, <2>4, ReplacedEntries
  <2>11. Indexed(AddUsages(EraseUsages(moved, i, inst_list[i].args), defs,
                           inst_list[i].block, i, code'[i]),
                 code', inst_list', tracked, defs)
    <3>1. Indexed(moved, cd, inst_list, tracked, defs) /\ arg_size(cd[i]) = arg_size(code[i])
      BY <2>5
    <3>2. \A j \in tracked : inst_list'[j].block = inst_list[j].block
      BY <2>10
    <3>3. QED BY <2>4, <2>9, <3>1, <3>2, ReplacedUses
  <2>12. Indexed(usage_list', code', inst_list', tracked', define_list')
    BY <2>1, <2>9, <2>11
  <2>13. \A j \in tracked' : Shaped(code'[j]) /\ Listed(j)'
    BY <1>0, <2>1, <2>2, <2>5, <2>9, <2>10 DEF Listed
  <2>14. \A j \in tracked' : \A k \in 1..arg_size(code'[j]) : arg_at(code'[j], k) \in Known'
    BY <2>1, <2>2, <2>5, <2>7, <2>8, <2>9 DEF Known
  <2>15. QED BY <1>a, <2>12, <2>13, <2>14 DEF UsesInv
<1>7. ASSUME NEW i \in Inst, untrack_void_inst(i) PROVE UsesInv'
  <2>1. /\ i \in tracked /\ tracked' = tracked \ {i}
        /\ usage_list' = EraseUsages(usage_list, i, inst_list[i].args)
        /\ UNCHANGED <<code, define_list, inst_list>>
    BY <1>7 DEF untrack_void_inst
  <2>2. Indexed(EraseUsages(usage_list, i, arg_size(code[i])), code, inst_list, tracked \ {i}, define_list)
    BY <1>0, <1>b, <2>1, ErasedUses
  <2>3. Indexed(usage_list', code', inst_list', tracked', define_list')
    BY <1>b, <2>1, <2>2
  <2>4. QED BY <1>0, <1>a, <2>1, <2>3 DEF UsesInv, Listed, Known
<1>8. ASSUME NEW i \in tracked, arg_size(code[i]) = 0, untrack_defining_inst(i) PROVE UsesInv'
  <2> DEFINE d == code[i].assigned
  <2>1. /\ define_list' = Without(define_list, d) /\ tracked' = tracked \ {i} /\ NoUses(d)
        /\ inst_list' = With(inst_list, i, [block |-> NoInst, args |-> 0, defineInfo |-> NoSymbol])
        /\ UNCHANGED <<code, usage_list>>
    BY <1>8 DEF untrack_defining_inst
  <2>2. DOMAIN define_list' = DOMAIN define_list \ {d}
    BY <2>1 DEF Without
  <2>3. \A j \in tracked' : j # i /\ j \in tracked /\ j \in DOMAIN inst_list' /\ inst_list'[j] = inst_list[j]
    BY <1>0, <2>1 DEF With, Listed
  <2>4. \A j \in tracked : \A k, o : IsArg(code[j], k, o) => o \in Known /\ o # d
    BY <2>1, UsedHasUses
  <2>5. \A j \in tracked : \A k, o : IsArg(code[j], k, o) =>
          o \in Known' /\ local_defined(define_list', o) = local_defined(define_list, o)
    BY <2>2, <2>4 DEF Known, local_defined
  <2>6. \A o, b : UseSet(code, inst_list, tracked, define_list, o, b)
                    = UseSet(code, inst_list, tracked', define_list, o, b)
    <3>1. \A k, o : ~ IsArg(code[i], k, o)
      BY <1>8 DEF IsArg
    <3>2. ASSUME NEW o, NEW b
          PROVE  UseSet(code, inst_list, tracked, define_list, o, b)
                   = UseSet(code, inst_list, tracked', define_list, o, b)
      <4>1. ASSUME NEW e \in UseSet(code, inst_list, tracked, define_list, o, b)
            PROVE  e \in UseSet(code, inst_list, tracked', define_list, o, b)
        BY <2>1, <3>1, <4>1 DEF UseSet
      <4>2. ASSUME NEW e \in UseSet(code, inst_list, tracked', define_list, o, b)
            PROVE  e \in UseSet(code, inst_list, tracked, define_list, o, b)
        BY <2>1, <4>2 DEF UseSet
      <4>3. QED BY <4>1, <4>2
    <3>3. QED BY <3>2
  <2>7. Indexed(usage_list, code, inst_list, tracked', define_list)
    BY <1>0, <2>6 DEF Indexed
  <2>8. Indexed(usage_list, code, inst_list', tracked', define_list')
    BY <2>3, <2>5, <2>7, IndexedAgain
  <2>9. \A j \in tracked' : Shaped(code'[j]) /\ Listed(j)'
    BY <1>0, <2>1, <2>3 DEF Listed
  <2>10. \A j \in tracked' : \A k \in 1..arg_size(code'[j]) : arg_at(code'[j], k) \in Known'
    BY <2>1, <2>3, <2>5 DEF IsArg
  <2>11. QED BY <1>a, <2>1, <2>8, <2>9, <2>10 DEF UsesInv
<1>9. CASE UNCHANGED vars
  BY <1>0, <1>9, <1>a DEF vars, UsesInv, Listed, Known
<1>10. QED BY <1>1, <1>2, <1>3, <1>4, <1>5, <1>6, <1>7, <1>8, <1>9 DEF Next

\* Nothing is tracked at first, and nothing is used.
LEMMA UsesInit ==
  ASSUME Init
  PROVE  UsesInv
<1>1. DefinesInv /\ tracked = {}
  BY DEF Init, DefinesInv
<1>2. \A o \in Operand, b \in Block : UseSet(code, inst_list, tracked, define_list, o, b) = {}
  BY <1>1 DEF UseSet
<1>3. Indexed(usage_list, code, inst_list, tracked, define_list)
  BY <1>2 DEF Init, Indexed
<1>4. QED BY <1>1, <1>3 DEF UsesInv

\* The index lists exactly the operands of the tracked instructions
\* (ProcedureDU.cpp, add_inst, set_inst, remove_inst and rename_define), for
\* any procedure without loads.
THEOREM UsesStayExact ==
  ASSUME "load" \notin Kinds
  PROVE  Spec => []UsesExact
<1>1. Init => UsesInv
  BY UsesInit
<1>2. UsesInv /\ [Next]_vars => UsesInv'
  BY UsesStep
<1>3. UsesInv => UsesExact
  <2> SUFFICES ASSUME UsesInv, NEW o \in Operand, NEW b \in Block
               PROVE  {<<e.inst, e.index>> : e \in usage_list[o][b]} =
                        {u \in tracked \X (1..(MaxArgs + 2)) :
                           /\ inst_list[u[1]].block = b
                           /\ u[2] <= arg_size(code[u[1]])
                           /\ arg_at(code[u[1]], u[2]) = o}
    BY DEF UsesExact
  <2> DEFINE R == {u \in tracked \X (1..(MaxArgs + 2)) :
                     /\ inst_list[u[1]].block = b
                     /\ u[2] <= arg_size(code[u[1]])
                     /\ arg_at(code[u[1]], u[2]) = o}
  <2>1. usage_list[o][b] = UseSet(code, inst_list, tracked, define_list, o, b)
    BY DEF UsesInv, Indexed
  <2>2. \A i \in tracked : arg_size(code[i]) \in 0..(MaxArgs + 2)
    BY ShapedArgs DEF UsesInv
  <2>3. ASSUME NEW e \in usage_list[o][b] PROVE <<e.inst, e.index>> \in R
    BY <2>1, <2>2, DefUseAssumption DEF UseSet, IsArg
  <2>4. ASSUME NEW u \in R PROVE \E e \in usage_list[o][b] : u = <<e.inst, e.index>>
    <3> DEFINE e == [inst |-> u[1], index |-> u[2], defined |-> local_defined(define_list, o)]
    <3>1. e \in UseSet(code, inst_list, tracked, define_list, o, b)
      BY <2>2, DefUseAssumption DEF UseSet, IsArg
    <3>2. u = <<e.inst, e.index>>
      OBVIOUS
    <3>3. QED BY <2>1, <3>1, <3>2
  <2> HIDE DEF R
  <2>5. {<<e.inst, e.index>> : e \in usage_list[o][b]} = R
    BY <2>3, <2>4
  <2>6. QED BY <2>5 DEF R
<1>4. QED BY <1>1, <1>2, <1>3, PTL DEF Spec

\* Every use points to the live definition of its operand (DU_Util.h,
\* UsageEntry::defined), for any procedure without loads: the definition of a
\* used symbol is never removed, and a renaming moves the uses with it.
THEOREM UsagesFindDefinitions ==
  ASSUME "load" \notin Kinds
  PROVE  Spec => []UsageFindsDefinition
<1>1. Init => UsesInv
  BY UsesInit
<1>2. UsesInv /\ [Next]_vars => UsesInv'
  BY UsesStep
<1>3. UsesInv => UsageFindsDefinition
  BY DEF UsesInv, Indexed, UseSet, UsageFindsDefinition
<1>4. QED BY <1>1, <1>2, <1>3, PTL DEF Spec

---------------------------------------------------------------------------
(* Types.                                                                  *)

\* Lists of operands, and lists of uses.
Args == UNION {[1..n -> Operand] : n \in 0..(MaxArgs + 2)}
UsageList == [Operand -> [Block -> SUBSET UsageEntry]]

\* What a client may name or rename to is an operand.
LEMMA KnownOperands ==
  ASSUME DefinesInv
  PROVE  Known \subseteq Operand /\ Nameable \subseteq Operand
  BY DEF DefinesInv, Known, Nameable, Operand

\* The instructions a client may push are instructions.
LEMMA InstructionTyped ==
  ASSUME "load" \notin Kinds, DefinesInv, NEW kind \in Kinds, NEW s \in Symbol \cup {NoSymbol},
         NEW c \in InstructionsOf(kind, s)
  PROVE  c \in Instruction
<1>1. kind \in {"plain", "store"} /\ MaxArgs \in Nat /\ Known \subseteq Operand
  BY KnownOperands, DefUseAssumption DEF AllKinds
<1>2. CASE kind = "plain"
  <2>1. PICK n \in 0..MaxArgs : \E a \in [1..n -> Known] :
          c = [kind |-> kind, assigned |-> s, args |-> a]
    BY <1>2 DEF InstructionsOf
  <2>2. PICK a \in [1..n -> Known] : c = [kind |-> kind, assigned |-> s, args |-> a]
    BY <2>1
  <2>3. a \in [1..n -> Operand] /\ n \in 0..(MaxArgs + 2)
    BY <1>1
  <2>4. a \in Args
    BY <2>3 DEF Args
  <2>5. QED BY <2>2, <2>4 DEF Instruction, Args
<1>3. CASE kind = "store"
  <2>1. PICK q \in Known, v \in Known :
          c = [kind |-> kind, assigned |-> NoSymbol, args |-> <<q, v>>]
    BY <1>3 DEF InstructionsOf
  <2>2. <<q, v>> \in [1..2 -> Operand] /\ 2 \in 0..(MaxArgs + 2)
    BY <1>1
  <2>3. <<q, v>> \in Args
    BY <2>2 DEF Args
  <2>4. QED BY <2>1, <2>3 DEF Instruction, Args
<1>4. QED BY <1>1, <1>2, <1>3

\* Adding uses gives a list of uses.
LEMMA AddedTyped ==
  ASSUME NEW ul \in UsageList, NEW defs, NEW b, NEW i \in Inst, NEW c, arg_size(c) \in Nat
  PROVE  AddUsages(ul, defs, b, i, c) \in UsageList
<1>1. ASSUME NEW o \in Operand, NEW k \in 1..arg_size(c)
      PROVE  [inst |-> i, index |-> k, defined |-> local_defined(defs, o)] \in UsageEntry
  BY DEF UsageEntry, local_defined
<1>2. QED BY <1>1 DEF AddUsages, UsageList

\* Erasing uses gives a list of uses.
LEMMA ErasedTyped ==
  ASSUME NEW ul \in UsageList, NEW i, NEW n
  PROVE  EraseUsages(ul, i, n) \in UsageList
  BY DEF EraseUsages, UsageList

\* Moving uses gives a list of uses.
LEMMA MovedTyped ==
  ASSUME usage_list \in UsageList, NEW val \in Operand, NEW nVal \in Operand
  PROVE  MoveUses(val, nVal) \in UsageList
<1>1. ASSUME NEW u \in UsageEntry PROVE [u EXCEPT !.defined = nVal] \in UsageEntry
  BY DEF UsageEntry
<1>2. \A b \in Block : usage_list[nVal][b] \cup Redefined(usage_list[val][b], nVal) \in SUBSET UsageEntry
  BY <1>1 DEF UsageList, Redefined
<1>3. QED BY <1>2 DEF MoveUses, UsageList

\* A renaming gives instructions and entries of definitions.
LEMMA RenamedTyped ==
  ASSUME "load" \notin Kinds, DefinesInv, \A i \in DOMAIN code : code[i] \in Instruction,
         \A s \in DOMAIN define_list : define_list[s] \in DefineEntry,
         NEW val \in DOMAIN define_list, NEW nVal \in Nameable, val # nVal
  PROVE  /\ \A i \in DOMAIN code : Renamed(val, nVal)[i] \in Instruction
         /\ \A s \in DOMAIN MovedDefinition(val, nVal) :
              MovedDefinition(val, nVal)[s] \in DefineEntry
<1>1. ASSUME NEW i \in DOMAIN code PROVE Rewritten(val, nVal)[i].args \in Args
  <2> DEFINE args == [k \in DOMAIN code[i].args |->
                        IF k \in UsedAt(val, i) THEN nVal ELSE code[i].args[k]]
  <2>1. code[i].args \in Args /\ Whole(code[i]) /\ code[i].kind # "load"
    BY DEF Instruction, Args, DefinesInv
  <2>2. PICK n \in 0..(MaxArgs + 2) : code[i].args \in [1..n -> Operand]
    BY <2>1 DEF Args
  <2>3. args \in [1..n -> Operand]
    BY <2>2, KnownOperands
  <2>4. args \in Args
    BY <2>3 DEF Args
  <2>5. Rewritten(val, nVal)[i] = [code[i] EXCEPT !.args = args]
    BY <2>1 DEF Rewritten, set_arg_at
  <2> HIDE DEF args
  <2>6. Rewritten(val, nVal)[i].args = args
    BY <2>1, <2>5 DEF Whole
  <2>7. QED BY <2>4, <2>6
<1>2. ASSUME NEW i \in DOMAIN code PROVE Renamed(val, nVal)[i] \in Instruction
  <2> DEFINE c == Renamed(val, nVal)[i]
  <2>1. /\ c.kind = code[i].kind /\ c.args = Rewritten(val, nVal)[i].args
        /\ c.assigned \in {code[i].assigned} \cup Symbol /\ Whole(c)
    BY RenamedFacts
  <2>2. code[i].kind \in Kinds /\ code[i].assigned \in Symbol \cup {NoSymbol}
    BY DEF Instruction
  <2> HIDE DEF c
  <2>3. c \in Instruction
    BY <1>1, <2>1, <2>2 DEF Whole, Instruction, Args
  <2>4. QED BY <2>3 DEF c
<1>3. ASSUME NEW s \in DOMAIN MovedDefinition(val, nVal)
      PROVE  MovedDefinition(val, nVal)[s] \in DefineEntry
  <2>1. DOMAIN define_list \cap Im = {}
    BY DefUseAssumption DEF DefinesInv
  <2>2. CASE nVal \in DOMAIN define_list \cup Im
    BY <1>3, <2>2 DEF MovedDefinition, Without
  <2>3. CASE nVal \notin DOMAIN define_list \cup Im
    BY <1>3, <2>3 DEF MovedDefinition, Without, With
  <2>4. QED BY <2>2, <2>3
<1>4. QED BY <1>2, <1>3

\* The inductive invariant of the types: the parameters and the uses are what
\* they are because the definitions and the operands are.
TypeInv == TypeOK /\ DefinesInv

\* Every operation keeps the types.
LEMMA TypeStep ==
  ASSUME "load" \notin Kinds, TypeInv, [Next]_vars
  PROVE  TypeInv'
<1>0. /\ DOMAIN code \subseteq Inst /\ \A i \in DOMAIN code : code[i] \in Instruction
      /\ params \in Seq(Symbol) /\ DOMAIN define_list \subseteq Symbol
      /\ \A s \in DOMAIN define_list : define_list[s] \in DefineEntry
      /\ usage_list \in UsageList /\ DOMAIN inst_list \subseteq Inst
      /\ tracked \subseteq DOMAIN inst_list /\ taken \subseteq Symbol
      /\ DefinesInv /\ tracked \subseteq DOMAIN code
  BY DEF TypeInv, TypeOK, DefinesInv, UsageList
<1>a. DefinesInv'
  BY <1>0, DefinesStep
<1>b. DOMAIN define_list' \subseteq Symbol
  BY <1>a DEF DefinesInv
<1>1. ASSUME NEW b \in Block, NEW i \in Inst, NEW s \in (Symbol \ taken) \cup {NoSymbol},
             NEW kind \in Kinds, NEW c \in InstructionsOf(kind, s), push(b, i, c)
      PROVE  TypeInv'
  <2>1. /\ code' = With(code, i, c) /\ usage_list' = AddUsages(usage_list, define_list, b, i, c)
        /\ inst_list' = With(inst_list, i, [block |-> b, args |-> arg_size(c), defineInfo |-> c.assigned])
        /\ define_list' = IF c.assigned = NoSymbol THEN define_list
                          ELSE With(define_list, c.assigned, [type |-> "block", inst |-> i])
        /\ taken' = taken \cup ({c.assigned} \ {NoSymbol}) /\ tracked' = tracked \cup {i}
        /\ params' = params
    BY <1>1 DEF push
  <2>2. c \in Instruction /\ c.assigned \in Symbol \cup {NoSymbol}
    BY <1>0, InstructionTyped DEF Instruction
  <2>3. arg_size(c) \in Nat
    BY InstructionShape, ShapedArgs
  <2>4. usage_list' \in UsageList
    BY <1>0, <2>1, <2>3, AddedTyped
  <2>5. /\ DOMAIN code' \subseteq Inst /\ \A j \in DOMAIN code' : code'[j] \in Instruction
        /\ DOMAIN inst_list' \subseteq Inst /\ tracked' \subseteq DOMAIN inst_list'
        /\ taken' \subseteq Symbol
    BY <1>0, <2>1, <2>2 DEF With
  <2>6. [type |-> "block", inst |-> i] \in DefineEntry
    BY DEF DefineEntry
  <2>7. \A t \in DOMAIN define_list' : define_list'[t] \in DefineEntry
    BY <1>0, <2>1, <2>6 DEF With
  <2>8. QED BY <1>0, <1>a, <1>b, <2>1, <2>4, <2>5, <2>7 DEF TypeInv, TypeOK, UsageList
<1>2. ASSUME NEW s \in Symbol, add_block_param(s) \/ add_param(s)
      PROVE  TypeInv'
  <2>1. PICK type \in {"block_param", "func_param"} :
          define_list' = With(define_list, s, [type |-> type, inst |-> NoInst])
    BY <1>2 DEF add_block_param, add_param
  <2>2. /\ taken' = taken \cup {s} /\ UNCHANGED <<code, tracked, usage_list, inst_list>>
        /\ params' \in Seq(Symbol)
    BY <1>0, <1>2, AppendedSet DEF add_block_param, add_param
  <2>3. [type |-> type, inst |-> NoInst] \in DefineEntry
    BY DEF DefineEntry
  <2>4. \A t \in DOMAIN define_list' : define_list'[t] \in DefineEntry
    BY <1>0, <2>1, <2>3 DEF With
  <2>5. QED BY <1>0, <1>a, <1>b, <2>2, <2>4 DEF TypeInv, TypeOK, UsageList
<1>3. CASE clear_param
  <2>1. /\ \A t \in DOMAIN define_list' : t \in DOMAIN define_list /\ define_list'[t] = define_list[t]
        /\ params' = <<>> /\ UNCHANGED <<code, usage_list, inst_list, taken, tracked>>
    BY <1>3 DEF clear_param, RemoveParamDefines
  <2>2. params' \in Seq(Symbol)
    BY <2>1, EmptySeq
  <2>3. QED BY <1>0, <1>a, <1>b, <2>1, <2>2 DEF TypeInv, TypeOK, UsageList
<1>4. ASSUME NEW val \in Symbol \ ToSet(params), NEW nVal \in Nameable, rename_define(val, nVal)
      PROVE  TypeInv'
  <2>1. /\ val \in DOMAIN define_list /\ val # nVal /\ code' = Renamed(val, nVal)
        /\ define_list' = MovedDefinition(val, nVal) /\ usage_list' = MoveUses(val, nVal)
        /\ taken' = taken \cup ({nVal} \cap Symbol) /\ UNCHANGED <<params, inst_list, tracked>>
    BY <1>4 DEF rename_define, Renamable
  <2>2. /\ \A i \in DOMAIN code : code'[i] \in Instruction
        /\ \A s \in DOMAIN define_list' : define_list'[s] \in DefineEntry
    BY <1>0, <2>1, RenamedTyped
  <2>3. DOMAIN code' = DOMAIN code
    BY <1>0, <2>1, RenamedRest
  <2>4. usage_list' \in UsageList
    BY <1>0, <2>1, KnownOperands, MovedTyped DEF Operand
  <2>5. QED BY <1>0, <1>a, <1>b, <2>1, <2>2, <2>3, <2>4 DEF TypeInv, TypeOK, UsageList
<1>5. ASSUME NEW i \in tracked, NEW c \in InstructionsOf(code[i].kind, code[i].assigned),
             retrack_inst(i, c)
      PROVE  TypeInv'
  <2>1. /\ code' = [code EXCEPT ![i] = c]
        /\ usage_list' = AddUsages(EraseUsages(usage_list, i, inst_list[i].args),
                                   define_list, inst_list[i].block, i, c)
        /\ inst_list' = [inst_list EXCEPT ![i].args = arg_size(c)]
        /\ UNCHANGED <<params, define_list, taken, tracked>>
    BY <1>5 DEF retrack_inst
  <2>2. i \in Inst /\ code[i].kind \in Kinds /\ code[i].assigned \in Symbol \cup {NoSymbol}
    BY <1>0 DEF Instruction
  <2>3. c \in Instruction
    BY <1>0, <2>2, InstructionTyped
  <2>4. arg_size(c) \in Nat
    BY <2>2, InstructionShape, ShapedArgs
  <2>5. usage_list' \in UsageList
    BY <1>0, <2>1, <2>2, <2>4, AddedTyped, ErasedTyped
  <2>6. /\ DOMAIN code' = DOMAIN code /\ \A j \in DOMAIN code : code'[j] \in Instruction
        /\ DOMAIN inst_list' = DOMAIN inst_list
    BY <1>0, <2>1, <2>3
  <2>7. QED BY <1>0, <1>a, <1>b, <2>1, <2>5, <2>6 DEF TypeInv, TypeOK, UsageList
<1>6. ASSUME NEW i \in tracked, NEW s \in Symbol \ taken, NEW c \in InstructionsOf(code[i].kind, s),
             retrack_renamed(i, c)
      PROVE  TypeInv'
  <2> DEFINE old == code[i].assigned
             nVal == c.assigned
             cd == Renamed(old, nVal)
             moved == MoveUses(old, nVal)
             defs == MovedDefinition(old, nVal)
  <2>1. /\ code' = [cd EXCEPT ![i] = c] /\ define_list' = defs
        /\ usage_list' = AddUsages(EraseUsages(moved, i, inst_list[i].args),
                                   defs, inst_list[i].block, i, c)
        /\ inst_list' = [inst_list EXCEPT ![i].args = arg_size(c)]
        /\ taken' = taken \cup {nVal} /\ UNCHANGED <<params, tracked>>
        /\ old \in DOMAIN define_list /\ nVal # NoSymbol
    BY <1>6 DEF retrack_renamed, Renamable
  <2>2. i \in Inst /\ code[i].kind \in Kinds
    BY <1>0 DEF Instruction
  <2>3. /\ c \in Instruction /\ arg_size(c) \in Nat /\ nVal = s /\ nVal \in Nameable /\ old # nVal
    <3>1. c \in Instruction
      BY <1>0, <2>2, InstructionTyped
    <3>2. arg_size(c) \in Nat
      BY <2>2, InstructionShape, ShapedArgs
    <3>3. nVal = s
      BY <2>1, <2>2, InstructionFacts
    <3>4. QED BY <1>0, <2>1, <3>1, <3>2, <3>3 DEF Nameable, DefinesInv
  <2>4. /\ \A j \in DOMAIN code : cd[j] \in Instruction
        /\ \A t \in DOMAIN defs : defs[t] \in DefineEntry
    BY <1>0, <2>1, <2>3, RenamedTyped
  <2>5. DOMAIN cd = DOMAIN code
    BY <1>0, <2>1, <2>3, RenamedRest
  <2>6. moved \in UsageList
    BY <1>0, <2>1, <2>3, KnownOperands, MovedTyped DEF Operand
  <2> HIDE DEF cd, moved, defs
  <2>7. usage_list' \in UsageList
    BY <2>1, <2>2, <2>3, <2>6, AddedTyped, ErasedTyped
  <2>8. /\ DOMAIN code' = DOMAIN code /\ \A j \in DOMAIN code : code'[j] \in Instruction
        /\ DOMAIN inst_list' = DOMAIN inst_list /\ taken' \subseteq Symbol
    BY <1>0, <2>1, <2>3, <2>4, <2>5
  <2>9. QED BY <1>0, <1>a, <1>b, <2>1, <2>4, <2>7, <2>8 DEF TypeInv, TypeOK, UsageList
<1>7. ASSUME NEW i \in Inst, untrack_void_inst(i) PROVE TypeInv'
  <2>1. /\ usage_list' = EraseUsages(usage_list, i, inst_list[i].args) /\ tracked' = tracked \ {i}
        /\ UNCHANGED <<code, params, define_list, inst_list, taken>>
    BY <1>7 DEF untrack_void_inst
  <2>2. usage_list' \in UsageList
    BY <1>0, <2>1, ErasedTyped
  <2>3. QED BY <1>0, <1>a, <1>b, <2>1, <2>2 DEF TypeInv, TypeOK, UsageList
<1>8. ASSUME NEW i \in tracked, untrack_defining_inst(i) PROVE TypeInv'
  <2>1. /\ define_list' = Without(define_list, code[i].assigned) /\ tracked' = tracked \ {i}
        /\ DOMAIN inst_list' = DOMAIN inst_list \cup {i}
        /\ UNCHANGED <<code, params, usage_list, taken>>
    BY <1>8 DEF untrack_defining_inst, With
  <2>2. \A t \in DOMAIN define_list' : define_list'[t] \in DefineEntry
    BY <1>0, <2>1 DEF Without
  <2>3. QED BY <1>0, <1>a, <1>b, <2>1, <2>2 DEF TypeInv, TypeOK, UsageList
<1>9. CASE UNCHANGED vars
  BY <1>0, <1>9, <1>a DEF vars, TypeInv, TypeOK, UsageList
<1>10. QED BY <1>1, <1>2, <1>3, <1>4, <1>5, <1>6, <1>7, <1>8, <1>9 DEF Next

\* Instructions, definitions and uses keep their shape (DU_Util.h), whatever
\* is renamed or replaced, for any procedure without loads: writing an operand
\* never turns an instruction into something else.
THEOREM TypesStay ==
  ASSUME "load" \notin Kinds
  PROVE  Spec => []TypeOK
<1>1. Init => TypeInv
  <2> SUFFICES ASSUME Init PROVE TypeInv
    OBVIOUS
  <2>1. DefinesInv /\ params \in Seq(Symbol)
    BY EmptySeq DEF Init, DefinesInv
  <2>2. QED BY <2>1 DEF Init, TypeInv, TypeOK
<1>2. TypeInv /\ [Next]_vars => TypeInv'
  BY TypeStep
<1>3. TypeInv => TypeOK
  BY DEF TypeInv
<1>4. QED BY <1>1, <1>2, <1>3, PTL DEF Spec
=============================================================================
