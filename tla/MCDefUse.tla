------------------------------ MODULE MCDefUse -----------------------------
(* Instructions with up to two operands over a few symbols.                *)
EXTENDS DefUse

Symmetry ==
  Permutations(Symbol) \cup Permutations(Inst) \cup Permutations(Block)
===========================================================================
