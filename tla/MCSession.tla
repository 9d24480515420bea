------------------------------ MODULE MCSession ------------------------------
(* The session layer for TLC: threads and handles are model values. *)
EXTENDS Session, TLC

AllConfigs == Config
ChildOnly == {c \in Config : ~c.finalizeEach /\ ~c.skipInit}
SkipOnly == {c \in Config : ~c.finalizeEach /\ c.skipInit}

Symmetry == Permutations(Threads) \cup Permutations(Handles)
=============================================================================
