----------------------------- MODULE MCMpmcRing -----------------------------
(* MpmcRing for TLC: producers, consumers and values are interchangeable.   *)
EXTENDS MpmcRing, TLC

Symmetry ==
  Permutations(Producers) \union Permutations(Consumers) \union Permutations(Values)
=============================================================================
