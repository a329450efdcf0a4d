------------------------- MODULE MCConcurrentLayers -------------------------
(* Small instances of ConcurrentLayers for TLC.                            *)
EXTENDS ConcurrentLayers, TLC

Symmetry == Permutations(LayerId) \cup Permutations(Worker)

NoImports == {}
=============================================================================
