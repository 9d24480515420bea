------------------------------ MODULE MCKeyLock ------------------------------
(* The key lock for TLC: threads and buffers are model values.  The run checks
   liveness too, so it uses no symmetry. *)
EXTENDS KeyLock, TLC
=============================================================================
