-------------------------- MODULE MCControlGraph --------------------------
(* Two procedures over three block addresses, any client.                  *)
EXTENDS ControlGraph, TLC

Symmetry == Permutations(Block) \cup Permutations(Proc)
===========================================================================
