------------------------------- MODULE MCEmitter -------------------------------
(* The emitter alone, for the smallest programs that it gets wrong.        *)
EXTENDS Emitter, EmitterPrograms

MCNodes == NodesOf(Programs)
============================================================================
