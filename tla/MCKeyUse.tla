------------------------------ MODULE MCKeyUse -------------------------------
(* The paths of keys for TLC: threads, keys and pairs are model values. *)
EXTENDS KeyPaths, TLC
Symmetry == Permutations(Threads) \cup Permutations(Keys) \cup Permutations(Pairs)
=============================================================================
