------------------------------ MODULE MCProcess ------------------------------
(* Processes for TLC: children and library contexts are model values. *)
EXTENDS Process, TLC

Symmetry == Permutations(Procs \ {Root}) \cup Permutations(Ctxs)
=============================================================================
