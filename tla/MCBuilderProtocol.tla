------------------------- MODULE MCBuilderProtocol ------------------------
(* Two procedures over three block addresses, a disciplined client.        *)
EXTENDS BuilderProtocol, TLC

Symmetry == Permutations(Block) \cup Permutations(Proc)
===========================================================================
