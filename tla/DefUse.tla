------------------------------- MODULE DefUse ------------------------------
(***************************************************************************)
(* The definition-use index of one procedure (ProcedureDU) over the        *)
(* instructions of its blocks: which entry defines a symbol, and which     *)
(* instructions use it.  The actions are the operations Procedure offers,  *)
(* called as ContextualInst calls them: an instruction is pushed and       *)
(* tracked at once, and it assigns a symbol that nextSymbol has just made. *)
(*                                                                         *)
(* An instruction is its address; a use is the pair of an instruction and  *)
(* an operand index, which is what a usage_pointer tells apart.  Pointers  *)
(* to DefineEntry are the key of the map node they point into.  The uses   *)
(* of an operand in a block are a set: nothing reads the order in which    *)
(* usage_insert_pos keeps them.  RISC-V instructions with registers are    *)
(* never tracked and are left out.                                         *)
(***************************************************************************)
EXTENDS Integers, Sequences, FiniteSets, SequencesExt

CONSTANTS
  Block,     (* basic blocks of the procedure                              *)
  Inst,      (* addresses an instruction can have                          *)
  Symbol,    (* local symbols, in the order nextSymbol may make them       *)
  Outer,     (* symbols no instruction here defines: globals               *)
  Im,        (* immediates                                                 *)
  NoSymbol,  (* no symbol: of an instruction without result, or nullptr    *)
  NoInst,    (* the end iterator, or no instruction                        *)
  Kinds,     (* kinds of instruction in play, out of AllKinds              *)
  MaxArgs    (* bound on the operands of a plain instruction               *)

\* "plain" stands for the kinds whose operands arg_size, arg_at and set_arg_at
\* treat alike: compute_with_1 and _2, call, indexOf, branch, jump, ret, alloc.
AllKinds == {"plain", "load", "store"}

Operand == Symbol \cup Outer \cup Im

ASSUME DefUseAssumption ==
  /\ NoSymbol \notin Operand
  /\ Symbol \cap (Outer \cup Im) = {}
  /\ NoInst \notin Inst
  /\ Kinds \subseteq AllKinds
  /\ MaxArgs \in Nat

VARIABLES
  code,        (* the instruction at each tracked or pushed address        *)
  params,      (* ProcedureContext::param_var_set                          *)
  define_list, (* _define_list, without the immediates                     *)
  usage_list,  (* _usage_list                                              *)
  inst_list,   (* _inst_list                                               *)
  taken,       (* ghost: symbols that were made                            *)
  tracked      (* ghost: instructions tracked and not untracked since      *)

vars == <<code, params, define_list, usage_list, inst_list, taken, tracked>>

Instruction ==
  [kind : Kinds, assigned : Symbol \cup {NoSymbol},
   args : UNION {[1..n -> Operand] : n \in 0..(MaxArgs + 2)}]

DefineEntry ==
  [type : {"block", "block_param", "func_param"}, inst : Inst \cup {NoInst}]

UsageEntry ==
  [inst : Inst, index : Nat, defined : Operand \cup {NoSymbol}]

TypeOK ==
  /\ DOMAIN code \subseteq Inst
  /\ \A i \in DOMAIN code : code[i] \in Instruction
  /\ params \in Seq(Symbol)
  /\ DOMAIN define_list \subseteq Symbol
  /\ \A s \in DOMAIN define_list : define_list[s] \in DefineEntry
  /\ usage_list \in [Operand -> [Block -> SUBSET UsageEntry]]
  /\ DOMAIN inst_list \subseteq Inst
  /\ tracked \subseteq DOMAIN inst_list
  /\ taken \subseteq Symbol

Init ==
  /\ code = <<>>
  /\ params = <<>>
  /\ define_list = <<>>
  /\ usage_list = [o \in Operand |-> [b \in Block |-> {}]]
  /\ inst_list = <<>>
  /\ taken = {}
  /\ tracked = {}

---------------------------------------------------------------------------
(* Instructions and their operands, as Instruction.cpp gives them out.     *)

\* The operand count the index sees: a load's one operand counts twice, a
\* store's source does not count.
arg_size(c) ==
  CASE c.kind = "plain" -> Len(c.args)
    [] c.kind = "load"  -> 2
    [] c.kind = "store" -> 1

arg_at(c, k) == IF c.kind = "load" THEN c.args[1] ELSE c.args[k]

\* Writing the target for every kind.
set_arg_at_target(c, ks, o) == IF ks = {} THEN c ELSE [c EXCEPT !.assigned = o]

\* Writing o to the operands ks; for a load it is the target that is written.
set_arg_at(c, ks, o) ==
  IF c.kind = "load"
    THEN IF ks = {} THEN c ELSE [c EXCEPT !.assigned = o]
    ELSE [c EXCEPT !.args = [k \in DOMAIN c.args |->
                               IF k \in ks THEN o ELSE c.args[k]]]

\* The map f without key x.
Without(f, x) == [y \in DOMAIN f \ {x} |-> f[y]]

\* The map f with x set to v.
With(f, x, v) == [y \in DOMAIN f \cup {x} |-> IF y = x THEN v ELSE f[y]]

---------------------------------------------------------------------------
(* Uses.                                                                   *)

\* local_defined: the key of o's entry in defs, found for immediates by making
\* one.
local_defined(defs, o) ==
  IF o \in DOMAIN defs \cup Im THEN o ELSE NoSymbol

\* add_usage for each operand of instruction c at address i of block b.
AddUsages(ul, defs, b, i, c) ==
  [o \in Operand |-> [x \in Block |->
     ul[o][x] \cup
       {[inst |-> i, index |-> k, defined |-> local_defined(defs, o)] :
          k \in {k \in 1..arg_size(c) : x = b /\ arg_at(c, k) = o}}]]

\* Erasing all but the last of n operands.
EraseUsagesButLast(ul, i, n) ==
  [o \in Operand |-> [b \in Block |->
     {e \in ul[o][b] : e.inst # i \/ e.index >= n}]]

\* erase_usage for the first n operands of i, wherever their entries lie: a
\* std::list node is unlinked from the list that holds it.
EraseUsages(ul, i, n) ==
  [o \in Operand |-> [b \in Block |->
     {e \in ul[o][b] : e.inst # i \/ e.index > n}]]

NoUses(o) == \A b \in Block : usage_list[o][b] = {}

---------------------------------------------------------------------------
(* Tracking.                                                               *)

\* ContextualInst::push: append instruction c to block b, at address i, then
\* add_inst.  Its symbol is new, so the entry is emplaced.
push(b, i, c) ==
  /\ i \notin DOMAIN code
  /\ c.assigned \notin taken
  /\ code' = With(code, i, c)
  /\ usage_list' = AddUsages(usage_list, define_list, b, i, c)
  /\ inst_list' = With(inst_list, i,
       [block |-> b, args |-> arg_size(c), defineInfo |-> c.assigned])
  /\ define_list' =
       IF c.assigned = NoSymbol THEN define_list
       ELSE With(define_list, c.assigned, [type |-> "block", inst |-> i])
  /\ taken' = taken \cup ({c.assigned} \ {NoSymbol})
  /\ tracked' = tracked \cup {i}
  /\ UNCHANGED params

\* CodeBuildMixin::add_block_param, its part in the index.
add_block_param(s) ==
  /\ s \notin taken
  /\ define_list' = With(define_list, s,
                         [type |-> "block_param", inst |-> NoInst])
  /\ taken' = taken \cup {s}
  /\ UNCHANGED <<code, params, usage_list, inst_list, tracked>>

\* Procedure::add_param
add_param(s) ==
  /\ s \notin taken
  /\ define_list' = With(define_list, s,
                         [type |-> "func_param", inst |-> NoInst])
  /\ params' = Append(params, s)
  /\ taken' = taken \cup {s}
  /\ UNCHANGED <<code, usage_list, inst_list, tracked>>

\* remove_define on the parameters in S: those without uses go.
RemoveParamDefines(S) ==
  define_list' = [s \in DOMAIN define_list
                    \ {t \in S : NoUses(t)} |-> define_list[s]]

\* clear_param that removes the definitions of used parameters too.
clear_used_param ==
  /\ params # <<>>
  /\ define_list' = [s \in DOMAIN define_list \ ToSet(params)
                       |-> define_list[s]]
  /\ params' = <<>>
  /\ UNCHANGED <<code, usage_list, inst_list, taken, tracked>>

\* clear_param that only removes the definitions.
clear_param_defines_only ==
  /\ params # <<>>
  /\ RemoveParamDefines(ToSet(params))
  /\ UNCHANGED <<code, params, usage_list, inst_list, taken, tracked>>

\* Procedure::clear_param: a parameter in use stays defined.
clear_param ==
  /\ params # <<>>
  /\ RemoveParamDefines(ToSet(params))
  /\ params' = <<>>
  /\ UNCHANGED <<code, usage_list, inst_list, taken, tracked>>

---------------------------------------------------------------------------
(* Renaming and replacing.                                                 *)

\* What rename_define dereferences is there: the entry that will define the
\* uses is not a function parameter's, whose DUInst is null, and no pointer
\* operand of a load or store becomes an immediate.
Renamable(val, nVal) ==
  /\ val \in DOMAIN define_list
  /\ LET s == IF nVal \in DOMAIN define_list THEN nVal ELSE val
     IN  nVal \in Im \/ define_list[s].type # "func_param"
  /\ nVal \in Im =>
       \A i \in DOMAIN code : code[i].kind # "plain" => code[i].args[1] # val

\* The entries of val with their definition replaced.
Redefined(uses, nVal) == {[e EXCEPT !.defined = nVal] : e \in uses}

\* The operands of instruction i that the uses of val name.
UsedAt(val, i) ==
  {k \in 1..arg_size(code[i]) :
     \E b \in Block : \E e \in usage_list[val][b] : e.inst = i /\ e.index = k}

\* Every operand that the uses of val name is rewritten to nVal.
Rewritten(val, nVal) ==
  [i \in DOMAIN code |-> set_arg_at(code[i], UsedAt(val, i), nVal)]

\* The uses' entries move from val to nVal.
MoveUses(val, nVal) ==
  [usage_list EXCEPT
    ![nVal] = [b \in Block |-> @[b] \cup Redefined(usage_list[val][b], nVal)],
    ![val] = [b \in Block |-> {}]]

\* The entry of val moves to a new symbol; for a known one it is dropped.
MovedDefinition(val, nVal) ==
  IF nVal \in DOMAIN define_list \cup Im THEN Without(define_list, val)
  ELSE With(Without(define_list, val), nVal, define_list[val])

\* A renaming that leaves the defining instruction as it was.
RenamedUsesOnly(val, nVal) == Rewritten(val, nVal)

\* What assigned val assigns the new symbol.
Renamed(val, nVal) ==
  LET i == define_list[val].inst
  IN  IF nVal \in DOMAIN define_list \cup Im \/ i = NoInst
        THEN Rewritten(val, nVal)
        ELSE [Rewritten(val, nVal) EXCEPT ![i].assigned = nVal]

rename_define(val, nVal) ==
  /\ val # nVal
  /\ Renamable(val, nVal)
  /\ define_list' = MovedDefinition(val, nVal)
  /\ code' = Renamed(val, nVal)
  /\ usage_list' = MoveUses(val, nVal)
  /\ taken' = taken \cup ({nVal} \cap Symbol)
  /\ UNCHANGED <<params, inst_list, tracked>>

\* What set_inst asks of the instruction it puts in place of i: the same kind,
\* and at least as many operands, because erase_usage looks the old uses up by
\* the operand that the new instruction has at their index.
Replaceable(i, c) ==
  /\ i \in tracked
  /\ c.kind = code[i].kind
  /\ inst_list[i].args <= arg_size(c)

\* Procedure::retrack_inst with an instruction that assigns the same symbol:
\* set_inst replaces the operands and their uses.
retrack_inst(i, c) ==
  /\ Replaceable(i, c)
  /\ c.assigned = code[i].assigned
  /\ code' = [code EXCEPT ![i] = c]
  /\ usage_list' = AddUsages(EraseUsages(usage_list, i, inst_list[i].args),
                             define_list, inst_list[i].block, i, c)
  /\ inst_list' = [inst_list EXCEPT ![i].args = arg_size(c)]
  /\ UNCHANGED <<params, define_list, taken, tracked>>

\* retrack_inst with one that assigns another symbol: set_inst renames the
\* definition first.  It writes the new instruction before that, so uses of
\* the old symbol by i itself would name the wrong operands; a client in SSA
\* form has none.
retrack_renamed(i, c) ==
  LET old == code[i].assigned
  IN  /\ Replaceable(i, c)
      /\ c.assigned \notin taken \cup {NoSymbol}
      /\ Renamable(old, c.assigned)
      /\ UsedAt(old, i) = {}
      /\ define_list' = MovedDefinition(old, c.assigned)
      /\ code' = [Renamed(old, c.assigned) EXCEPT ![i] = c]
      /\ usage_list' =
           AddUsages(EraseUsages(MoveUses(old, c.assigned), i, inst_list[i].args),
                     MovedDefinition(old, c.assigned), inst_list[i].block, i, c)
      /\ inst_list' = [inst_list EXCEPT ![i].args = arg_size(c)]
      /\ taken' = taken \cup {c.assigned}
      /\ UNCHANGED <<params, tracked>>

---------------------------------------------------------------------------
(* Untracking.                                                             *)

\* Procedure::untrack_inst on an instruction without result: remove_inst
\* erases the uses of its operands.
untrack_void_inst(i) ==
  /\ i \in tracked
  /\ code[i].assigned = NoSymbol
  /\ usage_list' = EraseUsages(usage_list, i, inst_list[i].args)
  /\ tracked' = tracked \ {i}
  /\ UNCHANGED <<code, params, define_list, inst_list, taken>>

\* Procedure::untrack_inst on an instruction with an unused result:
\* remove_define erases its DUInst first, so the one then looked up is a new,
\* empty one and no operand's use is erased.  A client that keeps the index
\* exact must not call it on an instruction with operands (see Next).
untrack_defining_inst(i) ==
  /\ i \in tracked
  /\ code[i].assigned \in DOMAIN define_list
  /\ NoUses(code[i].assigned)
  /\ define_list' = Without(define_list, code[i].assigned)
  /\ inst_list' = With(inst_list, i,
       [block |-> NoInst, args |-> 0, defineInfo |-> NoSymbol])
  /\ tracked' = tracked \ {i}
  /\ UNCHANGED <<code, params, usage_list, taken>>

---------------------------------------------------------------------------
\* What a client may name as an operand: what is defined, or not local.
Known == DOMAIN define_list \cup Outer \cup Im

\* What a client may rename a definition to: a new symbol or a known operand.
Nameable == (Symbol \ taken) \cup DOMAIN define_list \cup Im

\* The instructions of one kind that assign s.
InstructionsOf(kind, s) ==
  CASE kind = "plain" ->
         {[kind |-> kind, assigned |-> s, args |-> a] :
            a \in UNION {[1..n -> Known] : n \in 0..MaxArgs}}
    [] kind = "load" ->
         {[kind |-> kind, assigned |-> s, args |-> <<p>>] :
            p \in (Known \ Im) \ (IF s = NoSymbol THEN Known ELSE {})}
    [] kind = "store" ->
         {[kind |-> kind, assigned |-> NoSymbol, args |-> <<p, v>>] :
            p \in Known \ Im, v \in Known}

Next ==
  \/ \E b \in Block, i \in Inst, s \in (Symbol \ taken) \cup {NoSymbol},
        kind \in Kinds : \E c \in InstructionsOf(kind, s) : push(b, i, c)
  \/ \E s \in Symbol : add_block_param(s)
  \/ \E s \in Symbol : add_param(s)
  \/ clear_param
  \/ \E val \in Symbol \ ToSet(params), nVal \in Nameable :
        rename_define(val, nVal)
  \/ \E i \in tracked :
        \E c \in InstructionsOf(code[i].kind, code[i].assigned) :
          retrack_inst(i, c)
  \/ \E i \in tracked, s \in Symbol \ taken :
        \E c \in InstructionsOf(code[i].kind, s) :
          /\ code[i].assigned \notin ToSet(c.args)
          /\ retrack_renamed(i, c)
  \/ \E i \in Inst : untrack_void_inst(i)
  \/ \E i \in tracked : arg_size(code[i]) = 0 /\ untrack_defining_inst(i)

Spec == Init /\ [][Next]_vars

---------------------------------------------------------------------------
(* Properties.                                                             *)

\* The index lists, for every operand and block, exactly the operands of the
\* tracked instructions there: after any mix of pushes, renamings,
\* replacements and removals (ProcedureDU.cpp, add_inst, set_inst,
\* rename_define, erase_usage).
UsesExact ==
  \A o \in Operand, b \in Block :
    {<<e.inst, e.index>> : e \in usage_list[o][b]} =
      {u \in tracked \X (1..(MaxArgs + 2)) :
         /\ inst_list[u[1]].block = b
         /\ u[2] <= arg_size(code[u[1]])
         /\ arg_at(code[u[1]], u[2]) = o}

\* The definition of a symbol is at a tracked instruction that still assigns
\* that symbol, also after renamings (ProcedureDU.cpp, rename_define).
DefinesExact ==
  \A s \in DOMAIN define_list :
    define_list[s].type = "block" =>
      /\ define_list[s].inst \in tracked
      /\ code[define_list[s].inst].assigned = s

\* The definition a use points to is that of its operand, and is still there
\* (DU_Util.h, UsageEntry::defined): no removal or renaming of a definition
\* leaves a use behind that points to the old entry.
UsageFindsDefinition ==
  \A o \in Operand, b \in Block : \A e \in usage_list[o][b] :
    e.defined = local_defined(define_list, o)

\* Every formal parameter is defined as a function parameter (Procedure.cpp,
\* add_param, remove_param and clear_param).
ParamsTracked ==
  \A s \in ToSet(params) :
    s \in DOMAIN define_list /\ define_list[s].type = "func_param"
===========================================================================
