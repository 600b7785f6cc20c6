-------------------------- MODULE MCBundledRuntime --------------------------
(* Model values for BundledRuntime: four overlapping calls are enough for a *)
(* failed client, its replacement and two calls that joined either.         *)
EXTENDS BundledRuntime, TLC

Symmetry == Permutations(Resolvers) \cup Permutations(Calls \ Resolvers)
=============================================================================
