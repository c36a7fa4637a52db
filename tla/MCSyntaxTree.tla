---------------------------- MODULE MCSyntaxTree ----------------------------
(* The store of the syntax tree under any client, for a handful of         *)
(* environments, names and entries.                                        *)
EXTENDS TreeClient, TLC

\* Names and entries are only compared.
Interchangeable == Permutations(Names) \cup Permutations(Infos)
=============================================================================
