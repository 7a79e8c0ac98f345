---------------------------- MODULE MCBufferPool ----------------------------
(* Instances of BufferPool.tla for TLC. *)
EXTENDS BufferPool, TLC

Symmetry == Permutations(Threads)
=============================================================================
