---------------------------- MODULE MCLifecycle ----------------------------
(* Lifecycle for TLC: the pools are interchangeable, and so are the engines. *)
EXTENDS Lifecycle, TLC

Symmetry == Permutations(Pools) \union Permutations(Engines)
=============================================================================
