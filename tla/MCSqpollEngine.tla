--------------------------- MODULE MCSqpollEngine ---------------------------
(* SqpollEngine for TLC: the buffers are interchangeable.                   *)
EXTENDS SqpollEngine, TLC

Symmetry == Permutations(Buffers)
=============================================================================
